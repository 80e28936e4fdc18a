------------------------------ MODULE TradingProofs ------------------------------
(***************************************************************************)
(* Proofs about PaperAccount, PaperVenue and Backtest, for any rates,      *)
(* limits, instruments, feeds, requests, batches, brokers, definitions and *)
(* bars: the ledger keeps the money, the session's word holds, what it     *)
(* issues always lands in the account, what it promises in the venue is    *)
(* there to be kept, and a backtest trades only what its gate let through, *)
(* on the bars its manifest was frozen over.                               *)
(***************************************************************************)
EXTENDS PaperAccount, PaperVenue, Backtest, TotalsProofs

-------------------------------------------------------------------------------
(* Numbers *)

LEMMA CeilDivIs ==
  ASSUME NEW n \in Nat, NEW d \in Nat \ {0}
  PROVE  /\ CeilDiv(n, d) \in Nat
         /\ \A q \in Int : n <= q * d <=> CeilDiv(n, d) <= q
<1> DEFINE m == (-n) \div d
<1>1. m \in Int /\ m * d <= -n /\ -n < (m + 1) * d
  OBVIOUS
<1>2. m <= 0
  <2>1. ASSUME m >= 1 PROVE FALSE
    <3>1. m * d >= d
      BY <1>1, <2>1
    <3>2. QED
      BY <3>1, <1>1
  <2>2. QED
    BY <2>1, <1>1
<1>3. ASSUME NEW q \in Int, n <= q * d PROVE -m <= q
  <2>1. ASSUME -q >= m + 1 PROVE FALSE
    <3>1. (-q) * d >= (m + 1) * d
      BY <1>1, <2>1
    <3>2. QED
      BY <3>1, <1>1, <1>3
  <2>2. QED
    BY <2>1, <1>1
<1>4. ASSUME NEW q \in Int, -m <= q PROVE n <= q * d
  <2>1. q * d >= (-m) * d
    BY <1>1, <1>4
  <2>2. QED
    BY <2>1, <1>1
<1>5. QED
  BY <1>1, <1>2, <1>3, <1>4 DEF CeilDiv

(* A rounded fee never falls when the amount grows.                        *)
LEMMA FeeIs ==
  /\ \A g \in Nat : Fee(g) \in Nat
  /\ \A g, h \in Nat : g <= h => Fee(g) <= Fee(h)
<1>1. BpsDen \in Nat \ {0} /\ FeeBps \in Nat
  BY RatesAssumption
<1>2. \A g \in Nat : g * FeeBps \in Nat
  BY <1>1
<1>3. \A g \in Nat : Fee(g) \in Nat
  BY <1>1, <1>2, CeilDivIs DEF Fee
<1>4. ASSUME NEW g \in Nat, NEW h \in Nat, g <= h PROVE Fee(g) <= Fee(h)
  <2>1. g * FeeBps <= h * FeeBps
    BY <1>1, <1>4
  <2>2. h * FeeBps <= Fee(h) * BpsDen
    BY <1>1, <1>2, <1>3, CeilDivIs DEF Fee
  <2>3. g * FeeBps <= Fee(h) * BpsDen
    BY <2>1, <2>2, <1>1, <1>2, <1>3
  <2>4. QED
    BY <2>3, <1>1, <1>2, <1>3, CeilDivIs DEF Fee
<1>5. QED
  BY <1>3, <1>4

LEMMA DebitIs ==
  ASSUME NEW side, NEW g \in Nat
  PROVE  Debit(side, g) \in Nat /\ Debit(side, g) >= Fee(g)
         /\ Debit(side, g) = (IF side = "buy" THEN g + Fee(g) ELSE Fee(g))
BY FeeIs DEF Debit

LEMMA TimesGrows ==
  ASSUME NEW a \in Nat, NEW b \in Nat, a <= b, NEW p \in Nat
  PROVE  a * p \in Nat /\ b * p \in Nat /\ a * p <= b * p
OBVIOUS

(* The search's answer is allowed, or nothing, and not exceeded.           *)
LEMMA LargestIs ==
  ASSUME NEW n \in Nat, NEW S \in SUBSET (0..n)
  PROVE  /\ Largest(S) \in S \cup {0} /\ Largest(S) \in 0..n
         /\ \A m \in S : m <= Largest(S)
<1> DEFINE T == {n - m : m \in S \cup {0}}
<1>1. PICK t \in T : \A u \in T : t <= u
  <2>1. T \in SUBSET Nat /\ n \in T
    OBVIOUS
  <2>2. QED
    BY <2>1, LeastExists
<1>2. PICK a \in S \cup {0} : t = n - a
  BY <1>1
<1>3. \A m \in S : m <= a
  <2>1. ASSUME NEW m \in S PROVE m <= a
    <3>1. n - m \in T
      OBVIOUS
    <3>2. n - a <= n - m
      BY <3>1, <1>1, <1>2
    <3>3. QED
      BY <3>2
  <2>2. QED
    BY <2>1
<1>4. \E k \in S \cup {0} : \A m \in S : m <= k
  BY <1>3
<1>5. Largest(S) \in S \cup {0} /\ \A m \in S : m <= Largest(S)
  BY <1>4 DEF Largest
<1>6. S \cup {0} \subseteq 0..n
  OBVIOUS
<1>7. QED
  BY <1>5, <1>6

(* Halving finds the largest size when every smaller size is allowed too.  *)
LEMMA BisectIs ==
  ASSUME NEW high \in Nat, NEW allowed, NEW a \in 0..high,
         \A n \in 1..high : n \in allowed <=> n <= a
  PROVE  Bisect(high, allowed) = a
<1> DEFINE Spans == (0..high) \X (0..high)
           Mid(s) == (s[1] + s[2] + 1) \div 2
           Step(f, s) ==
             IF s[1] >= s[2] THEN s[1]
             ELSE IF Mid(s) \in allowed THEN f[<<Mid(s), s[2]>>] ELSE f[<<s[1], Mid(s) - 1>>]
           Is(f) == f = [s \in Spans |-> Step(f, s)]
           Answer(s) == IF s[1] >= s[2] \/ a <= s[1] THEN s[1] ELSE IF a >= s[2] THEN s[2] ELSE a
           g == [s \in Spans |-> Answer(s)]
           F == CHOOSE f : Is(f)
<1>1. Bisect(high, allowed) = F[<<0, high>>]
  BY DEF Bisect
<1>2. ASSUME NEW s \in Spans, s[1] < s[2]
      PROVE  /\ Mid(s) \in Int /\ s[1] < Mid(s) /\ Mid(s) <= s[2]
             /\ Mid(s) \in allowed <=> Mid(s) <= a
             /\ <<Mid(s), s[2]>> \in Spans /\ <<s[1], Mid(s) - 1>> \in Spans
  <2>1. PICK l \in 0..high, h \in 0..high : s = <<l, h>>
    OBVIOUS
  <2>2. PICK m : m = (l + h + 1) \div 2
    OBVIOUS
  <2>3. l < h
    BY <1>2, <2>1
  <2>4. m \in Int /\ l < m /\ m <= h
    BY <2>2, <2>3
  <2>5. m \in 1..high /\ m \in 0..high /\ m - 1 \in 0..high
    BY <2>4
  <2>6. Mid(s) = m /\ s[1] = l /\ s[2] = h
    BY <2>1, <2>2
  <2> HIDE DEF Mid
  <2>7. QED
    BY <2>4, <2>5, <2>6
<1>3. \A s \in Spans : s[1] \in 0..high /\ s[2] \in 0..high
  OBVIOUS
<1> HIDE DEF Mid, Spans
<1>4. Is(g)
  <2>1. ASSUME NEW s \in Spans PROVE Answer(s) = Step(g, s)
    <3>1. CASE s[1] >= s[2]
      BY <3>1
    <3>2. CASE ~(s[1] >= s[2])
      <4>1. PICK m, l, h, p, q : m = Mid(s) /\ l = s[1] /\ h = s[2] /\ p = <<m, h>> /\ q = <<l, m - 1>>
        OBVIOUS
      <4>2. l \in Int /\ h \in Int /\ l < h /\ a \in Int
        BY <1>3, <3>2, <4>1
      <4>3. m \in Int /\ l < m /\ m <= h /\ (m \in allowed <=> m <= a) /\ p \in Spans /\ q \in Spans
        BY <1>2, <4>1, <4>2
      <4>4. g[p] = Answer(p) /\ g[q] = Answer(q)
        BY <4>3
      <4>5. p[1] = m /\ p[2] = h /\ q[1] = l /\ q[2] = m - 1
        BY <4>1
      <4>6. Step(g, s) = IF m \in allowed THEN Answer(p) ELSE Answer(q)
        BY <4>1, <4>2, <4>4
      <4>7. CASE m <= a
        <5>1. Answer(p) = Answer(s)
          BY <4>1, <4>2, <4>3, <4>5, <4>7
        <5> HIDE DEF Answer, g, Step
        <5>2. QED
          BY <4>3, <4>6, <4>7, <5>1
      <4>8. CASE ~(m <= a)
        <5>1. Answer(q) = Answer(s)
          BY <4>1, <4>2, <4>3, <4>5, <4>8
        <5> HIDE DEF Answer, g, Step
        <5>2. QED
          BY <4>3, <4>6, <4>8, <5>1
      <4>9. QED
        BY <4>7, <4>8
    <3>3. QED
      BY <3>1, <3>2
  <2>2. g = [s \in Spans |-> Answer(s)]
    OBVIOUS
  <2> HIDE DEF Answer, g, Step
  <2>3. g = [s \in Spans |-> Step(g, s)]
    BY <2>1, <2>2
  <2>4. QED
    BY <2>3
<1>5. Is(F)
  <2> HIDE DEF Is, g
  <2>1. QED
    BY <1>4
<1> HIDE DEF F, g
<1>6. \A s \in Spans : F[s] = Step(F, s)
  BY <1>5
<1> HIDE DEF Step, Is
\* What is allowed lies between the bounds until they meet.
<1> DEFINE Good(s) == s \in Spans /\ s[1] <= a /\ a <= s[2]
           T == {d \in Nat : \E s \in Spans : Good(s) /\ s[2] - s[1] = d /\ F[s] # a}
<1>7. T = {}
  <2>1. SUFFICES ASSUME T # {} PROVE FALSE
    OBVIOUS
  <2>2. PICK d \in T : \A y \in T : d <= y
    <3>1. T \in SUBSET Nat
      OBVIOUS
    <3>2. QED
      BY <2>1, <3>1, LeastExists
  <2>3. PICK s \in Spans : Good(s) /\ s[2] - s[1] = d /\ F[s] # a
    BY <2>2
  <2>4. PICK m, l, h, p, q : m = Mid(s) /\ l = s[1] /\ h = s[2] /\ p = <<m, h>> /\ q = <<l, m - 1>>
    OBVIOUS
  <2>5. l \in Int /\ h \in Int /\ l <= a /\ a <= h /\ a \in Int /\ d = h - l
    BY <1>3, <2>3, <2>4
  <2>6. CASE l >= h
    <3>1. F[s] = l
      BY <1>6, <2>3, <2>4, <2>6 DEF Step
    <3>2. QED
      BY <3>1, <2>3, <2>5, <2>6
  <2>7. CASE ~(l >= h)
    <3>1. m \in Int /\ l < m /\ m <= h /\ (m \in allowed <=> m <= a) /\ p \in Spans /\ q \in Spans
      BY <1>2, <2>3, <2>4, <2>5, <2>7
    <3>2. p[1] = m /\ p[2] = h /\ q[1] = l /\ q[2] = m - 1
      BY <2>4
    <3>3. F[s] = IF m \in allowed THEN F[p] ELSE F[q]
      BY <1>6, <2>3, <2>4, <2>7 DEF Step
    <3>4. CASE m <= a
      <4>1. h - m \in Nat /\ h - m < d /\ Good(p)
        BY <2>5, <3>1, <3>2, <3>4
      <4>2. h - m \notin T
        BY <2>2, <4>1
      <4>3. F[p] = a
        BY <3>1, <3>2, <4>1, <4>2
      <4>4. QED
        BY <2>3, <3>1, <3>3, <3>4, <4>3
    <3>5. CASE ~(m <= a)
      <4>1. m - 1 - l \in Nat /\ m - 1 - l < d /\ Good(q)
        BY <2>5, <3>1, <3>2, <3>5
      <4>2. m - 1 - l \notin T
        BY <2>2, <4>1
      <4>3. F[q] = a
        BY <3>1, <3>2, <4>1, <4>2
      <4>4. QED
        BY <2>3, <3>1, <3>3, <3>5, <4>3
    <3>6. QED
      BY <3>4, <3>5
  <2>8. QED
    BY <2>6, <2>7
<1>8. PICK s : s = <<0, high>>
  OBVIOUS
<1>9. Good(s) /\ s[2] - s[1] = high /\ high \in Nat /\ s \in Spans
  BY <1>8 DEF Spans
<1>10. F[s] = a
  BY <1>7, <1>9
<1>11. QED
  BY <1>1, <1>8, <1>10

-------------------------------------------------------------------------------
(* The shape of a ledger *)

Statuses == {"submitted", "rejected", "filled", "expired", "cancelled"}
Partial(S, T) == UNION {[D -> T] : D \in SUBSET S}

OrderType ==
  [intent : Intents, instrument : Instruments, side : Sides, token : Nat, expires : Int,
   approved : Nat, maxDebit : Nat, target : Nat, status : Statuses, submitted : Int,
   filled : Nat, gross : Nat, debit : Nat]

CursorType == [sequence : Int, event : Int, received : Int]

PortfolioType ==
  [cash : Int, equity : Int, exposure : Partial(Instruments, Nat),
   quantity : Partial(Instruments, Nat), realized : Int, peak : Int, openOrders : Nat,
   reconciled : BOOLEAN, asOf : Int]

LedgerType ==
  [cash : Int, holdings : Partial(Instruments, HoldingType), realized : Int, fees : Int,
   orders : Seq(OrderType), books : Partial(Instruments, CursorType),
   healthy : Partial(Instruments, BOOLEAN), asOf : Int, sealed : BOOLEAN, peak : Int,
   initial : PortfolioType]

BookType ==
  [instrument : Instruments, bids : Seq(LevelType) \ {<<>>}, asks : Seq(LevelType),
   resync : BOOLEAN, sequence : Int, event : Int, received : Int]

(* What is promised on either side, and what is not.                       *)
Sells(L, k) == {i \in OpenOrders(L) : L.orders[i].side = "sell" /\ L.orders[i].instrument = k}
Due(L) == [i \in OpenOrders(L) |-> L.orders[i].maxDebit - L.orders[i].debit]
Left(L, k) == [i \in Sells(L, k) |-> L.orders[i].target - L.orders[i].filled]
Slack(L) == L.cash - Total(Due(L))
Spare(L, k) == Held(L, k) - Total(Left(L, k))
Worth(L) == L.cash + Basis(L) - L.realized

InBounds(o) == o.filled <= o.target /\ o.gross <= o.approved /\ o.debit <= o.maxDebit

Solvent(L) ==
  /\ \A i \in DOMAIN L.orders : InBounds(L.orders[i])
  /\ Slack(L) >= 0
  /\ \A k \in Instruments : Spare(L, k) >= 0

SameOrder(o, p) ==
  /\ p.intent = o.intent /\ p.instrument = o.instrument /\ p.side = o.side
  /\ p.token = o.token /\ p.expires = o.expires /\ p.approved = o.approved
  /\ p.maxDebit = o.maxDebit /\ p.target = o.target /\ p.submitted = o.submitted

SameOrders(L, M) ==
  /\ DOMAIN M.orders = DOMAIN L.orders
  /\ \A i \in DOMAIN L.orders : SameOrder(L.orders[i], M.orders[i])

(* What a market event may make of a ledger.                               *)
Kept(L, M) ==
  /\ M \in LedgerType /\ Solvent(M)
  /\ SameOrders(L, M)
  /\ M.initial = L.initial
  /\ Slack(L) <= Slack(M)
  /\ \A k \in Instruments : Spare(L, k) <= Spare(M, k)
  /\ Worth(M) = Worth(L)

-------------------------------------------------------------------------------
(* Reading a ledger *)

LEMMA OrdersAre ==
  ASSUME NEW L \in LedgerType
  PROVE  /\ L.orders \in Seq(OrderType) /\ Len(L.orders) \in Nat
         /\ DOMAIN L.orders = 1..Len(L.orders) /\ IsFiniteSet(DOMAIN L.orders)
         /\ \A i \in DOMAIN L.orders : L.orders[i] \in OrderType
<1>1. L.orders \in Seq(OrderType)
  BY DEF LedgerType
<1>2. DOMAIN L.orders = 1..Len(L.orders) /\ Len(L.orders) \in Nat
  BY <1>1
<1>3. IsFiniteSet(DOMAIN L.orders)
  BY <1>2, FS_Interval
<1>4. QED
  BY <1>1, <1>2, <1>3

LEMMA HoldingsAre ==
  ASSUME NEW L \in LedgerType
  PROVE  /\ DOMAIN L.holdings \in SUBSET Instruments
         /\ L.holdings \in [DOMAIN L.holdings -> HoldingType]
         /\ \A k \in DOMAIN L.holdings : L.holdings[k] \in HoldingType
         /\ \A k \in Instruments : Held(L, k) \in Nat
<1>1. L.holdings \in Partial(Instruments, HoldingType)
  BY DEF LedgerType
<1>2. PICK D \in SUBSET Instruments : L.holdings \in [D -> HoldingType]
  BY <1>1 DEF Partial
<1>3. \A k \in DOMAIN L.holdings : L.holdings[k].quantity \in Nat
  BY <1>2 DEF HoldingType
<1>4. QED
  BY <1>2, <1>3 DEF Held

LEMMA DuesAre ==
  ASSUME NEW L \in LedgerType, \A i \in DOMAIN L.orders : InBounds(L.orders[i])
  PROVE  /\ OpenOrders(L) \subseteq DOMAIN L.orders /\ IsFiniteSet(OpenOrders(L))
         /\ Due(L) \in [OpenOrders(L) -> Nat] /\ Total(Due(L)) \in Nat
         /\ \A k : /\ Sells(L, k) \subseteq DOMAIN L.orders /\ IsFiniteSet(Sells(L, k))
                   /\ Left(L, k) \in [Sells(L, k) -> Nat] /\ Total(Left(L, k)) \in Nat
<1>1. IsFiniteSet(OpenOrders(L)) /\ OpenOrders(L) \subseteq DOMAIN L.orders
  BY OrdersAre, FS_Subset DEF OpenOrders
<1>2. \A i \in DOMAIN L.orders : /\ L.orders[i].maxDebit - L.orders[i].debit \in Nat
                                 /\ L.orders[i].target - L.orders[i].filled \in Nat
  <2>1. \A i \in DOMAIN L.orders : /\ L.orders[i].maxDebit \in Nat /\ L.orders[i].debit \in Nat
                                   /\ L.orders[i].target \in Nat /\ L.orders[i].filled \in Nat
    BY OrdersAre DEF OrderType
  <2>2. QED
    BY <2>1 DEF InBounds
<1>3. Due(L) \in [OpenOrders(L) -> Nat]
  BY <1>1, <1>2 DEF Due
<1>4. \A k : IsFiniteSet(Sells(L, k)) /\ Sells(L, k) \subseteq DOMAIN L.orders
  BY <1>1, FS_Subset DEF Sells
<1>5. \A k : Left(L, k) \in [Sells(L, k) -> Nat]
  BY <1>4, <1>2 DEF Left
<1>6. \A k : Total(Left(L, k)) \in Nat
  BY <1>4, <1>5, UnitsFinite
<1>7. QED
  BY <1>1, <1>3, <1>4, <1>5, <1>6, UnitsFinite

-------------------------------------------------------------------------------
(* Booking a fill *)

LEMMA HoldingIs ==
  ASSUME NEW L \in LedgerType, NEW book \in BookType
  PROVE  /\ Holding(L, book) \in HoldingType
         /\ Holding(L, book).quantity = Held(L, book.instrument)
         /\ book.instrument \in DOMAIN L.holdings =>
              Holding(L, book).basis = L.holdings[book.instrument].basis
         /\ book.instrument \notin DOMAIN L.holdings => Holding(L, book).basis = 0
<1>1. book.event \in Int /\ book.bids[1] \in LevelType
  BY DEF BookType
<1>2. book.bids[1].price \in Nat
  BY <1>1 DEF LevelType
<1>3. QED
  BY <1>1, <1>2, HoldingsAre DEF Holding, HoldingType, Held

\* The cost of a part is part of the cost.
LEMMA SoldBasisIs ==
  ASSUME NEW h \in HoldingType, NEW q \in Nat \ {0}, q <= h.quantity
  PROVE  SoldBasis(h, q) \in 0..h.basis
<1>1. h.basis \in Nat /\ h.quantity \in Nat \ {0}
  BY DEF HoldingType
<1> DEFINE b == h.basis
           n == h.quantity
<1>2. b \in Nat /\ n \in Nat \ {0} /\ q <= n
  BY <1>1
<1> HIDE DEF b, n
<1>3. b * q \in Nat /\ b * q <= b * n
  BY <1>2
<1>4. (b * q) \div n \in 0..b
  <2> DEFINE m == (b * q) \div n
  <2>1. m \in Int /\ m * n <= b * q /\ b * q < (m + 1) * n
    BY <1>2, <1>3
  <2>2. m <= b
    <3>1. ASSUME m >= b + 1 PROVE FALSE
      <4>1. m * n >= (b + 1) * n
        BY <1>2, <2>1, <3>1
      <4>2. QED
        BY <4>1, <1>2, <1>3, <2>1
    <3>2. QED
      BY <3>1, <1>2, <2>1
  <2>3. m >= 0
    <3>1. ASSUME m + 1 <= 0 PROVE FALSE
      <4>1. (m + 1) * n <= 0
        BY <1>2, <2>1, <3>1
      <4>2. QED
        BY <4>1, <1>2, <1>3, <2>1
    <3>2. QED
      BY <3>1, <2>1
  <2>4. QED
    BY <2>1, <2>2, <2>3
<1>5. QED
  BY <1>4 DEF SoldBasis, b, n

Traded(side, before, after, q, g) ==
  IF side = "buy" THEN after.quantity = before.quantity + q /\ after.basis = before.basis + g
  ELSE after.quantity = before.quantity - q /\ after.basis = before.basis - SoldBasis(before, q)

LEMMA BookedIs ==
  ASSUME NEW L \in LedgerType, NEW i \in DOMAIN L.orders, NEW book \in BookType,
         NEW q \in Nat \ {0}, NEW g \in Nat,
         L.orders[i].side = "sell" => q <= Held(L, book.instrument)
  PROVE  LET o == L.orders[i]
             h == Holding(L, book)
             M == Book(L, i, book, q, g)
         IN  /\ M \in LedgerType
             /\ M.cash = L.cash + Proceeds(o.side, g)
             /\ M.realized = L.realized + Profit(o.side, h, q, g)
             /\ M.orders = [L.orders EXCEPT ![i] = Charged(o, q, g)]
             /\ Charged(o, q, g) \in OrderType
             /\ DOMAIN M.holdings = DOMAIN L.holdings \cup {book.instrument}
             /\ \A k \in DOMAIN L.holdings \ {book.instrument} : M.holdings[k] = L.holdings[k]
             /\ Traded(o.side, h, M.holdings[book.instrument], q, g)
             /\ M.books = L.books /\ M.healthy = L.healthy /\ M.sealed = L.sealed
             /\ M.asOf = L.asOf /\ M.initial = L.initial
<1> DEFINE o == L.orders[i]
           h == Holding(L, book)
           k == book.instrument
           after == IF o.side = "buy" THEN Bought(h, q, g) ELSE Sold(h, q)
           M == Book(L, i, book, q, g)
           row == [after EXCEPT !.markTime = book.event]
<1>1. o \in OrderType /\ Debit(o.side, g) \in Nat /\ Fee(g) \in Nat
  BY OrdersAre, DebitIs, FeeIs
<1>2. Charged(o, q, g) \in OrderType
  <2> DEFINE a == o.filled + q
             b == o.gross + g
             c == o.debit + Debit(o.side, g)
  <2>1. a \in Nat /\ b \in Nat /\ c \in Nat
    BY <1>1 DEF OrderType
  <2>2. Charged(o, q, g) = [o EXCEPT !.filled = a, !.gross = b, !.debit = c]
    BY DEF Charged
  <2> HIDE DEF o, a, b, c
  <2>3. QED
    BY <1>1, <2>1, <2>2 DEF OrderType
<1>3. h \in HoldingType /\ k \in Instruments /\ book.event \in Int
  BY HoldingIs DEF BookType
<1>4. o.side # "buy" => q <= h.quantity /\ SoldBasis(h, q) \in 0..h.basis
  <2>1. o.side \in Sides
    BY <1>1 DEF OrderType
  <2>2. o.side # "buy" => q <= h.quantity
    BY <2>1, HoldingIs DEF Sides
  <2>3. QED
    BY <2>2, <1>3, SoldBasisIs
<1>5. row \in HoldingType /\ Traded(o.side, h, row, q, g)
  <2> DEFINE time == book.event
  <2>1. CASE o.side = "buy"
    <3> DEFINE a == h.quantity + q
               b == h.basis + g
    <3>1. a \in Nat /\ b \in Nat
      BY <1>3 DEF HoldingType
    <3>2. row = [[h EXCEPT !.quantity = a, !.basis = b] EXCEPT !.markTime = time]
      BY <2>1 DEF Bought
    <3> HIDE DEF h, row, time, a, b
    <3>3. row \in HoldingType /\ row.quantity = a /\ row.basis = b
      BY <1>3, <3>1, <3>2 DEF HoldingType, time
    <3>4. QED
      BY <2>1, <3>3 DEF Traded, a, b
  <2>2. CASE o.side # "buy"
    <3> DEFINE a == h.quantity - q
               b == h.basis - SoldBasis(h, q)
    <3>1. a \in Nat /\ b \in Nat
      BY <1>3, <1>4, <2>2 DEF HoldingType
    <3>2. row = [[h EXCEPT !.quantity = a, !.basis = b] EXCEPT !.markTime = time]
      BY <2>2 DEF Sold
    <3> HIDE DEF h, row, time, a, b
    <3>3. row \in HoldingType /\ row.quantity = a /\ row.basis = b
      BY <1>3, <3>1, <3>2 DEF HoldingType, time
    <3>4. QED
      BY <2>2, <3>3 DEF Traded, a, b
  <2>3. QED
    BY <2>1, <2>2
<1>6. M = [L EXCEPT !.cash = L.cash + Proceeds(o.side, g), !.holdings = Put(L.holdings, k, row),
                    !.realized = L.realized + Profit(o.side, h, q, g), !.fees = L.fees + Fee(g),
                    !.orders = [L.orders EXCEPT ![i] = Charged(o, q, g)]]
  BY DEF Book, LedgerType
<1>7. LET H == Put(L.holdings, k, row)
      IN  /\ DOMAIN H = DOMAIN L.holdings \cup {k}
          /\ H[k] = row
          /\ \A j \in DOMAIN L.holdings \ {k} : H[j] = L.holdings[j]
          /\ H \in [DOMAIN L.holdings \cup {k} -> HoldingType]
  <2> HIDE DEF k, row
  <2>1. QED
    BY <1>5, HoldingsAre DEF Put
<1>8. Put(L.holdings, k, row) \in Partial(Instruments, HoldingType)
  <2> HIDE DEF k, row
  <2>1. QED
    BY <1>3, <1>7, HoldingsAre DEF Partial
<1>9. Proceeds(o.side, g) \in Int /\ Profit(o.side, h, q, g) \in Int
  BY <1>1, <1>4, <1>3 DEF Proceeds, Profit, HoldingType
<1>10. [L.orders EXCEPT ![i] = Charged(o, q, g)] \in Seq(OrderType)
  BY <1>2, OrdersAre
<1>11. L.fees + Fee(g) \in Int /\ L.cash + Proceeds(o.side, g) \in Int
       /\ L.realized + Profit(o.side, h, q, g) \in Int
  BY <1>1, <1>9 DEF LedgerType
<1> DEFINE c == L.cash + Proceeds(o.side, g)
           H == Put(L.holdings, k, row)
           p == L.realized + Profit(o.side, h, q, g)
           f == L.fees + Fee(g)
           O == [L.orders EXCEPT ![i] = Charged(o, q, g)]
<1>12. M = [L EXCEPT !.cash = c, !.holdings = H, !.realized = p, !.fees = f, !.orders = O]
  BY <1>6
<1> HIDE DEF M, h, row, c, H, p, f, O
<1>13. M \in LedgerType
  BY <1>8, <1>10, <1>11, <1>12 DEF LedgerType, c, H, p, f, O
<1>14. /\ M.cash = c /\ M.holdings = H /\ M.realized = p /\ M.orders = O
       /\ M.books = L.books /\ M.healthy = L.healthy /\ M.sealed = L.sealed
       /\ M.asOf = L.asOf /\ M.initial = L.initial
  BY <1>12 DEF LedgerType
<1>15. QED
  BY <1>2, <1>5, <1>7, <1>13, <1>14 DEF c, H, p, O, M, h

LEMMA BookKeeps ==
  ASSUME NEW L \in LedgerType, Solvent(L), NEW i \in OpenOrders(L), NEW book \in BookType,
         L.orders[i].instrument = book.instrument, NEW q \in Nat \ {0}, NEW g \in Nat,
         q <= L.orders[i].target - L.orders[i].filled,
         g <= L.orders[i].approved - L.orders[i].gross,
         Debit(L.orders[i].side, g) <= L.orders[i].maxDebit - L.orders[i].debit
  PROVE  /\ Bookable(L, Holding(L, book), L.orders[i].side, q, g)
         /\ Kept(L, Book(L, i, book, q, g))
<1> DEFINE o == L.orders[i]
           k == book.instrument
           d == Debit(o.side, g)
           h == Holding(L, book)
           M == Book(L, i, book, q, g)
<1>1. \A j \in DOMAIN L.orders : InBounds(L.orders[j])
  BY DEF Solvent
<1>2. i \in DOMAIN L.orders /\ o \in OrderType /\ k \in Instruments /\ o.instrument = k
  BY OrdersAre DEF OpenOrders, BookType
<1>3. d \in Nat /\ Fee(g) \in Nat /\ d = (IF o.side = "buy" THEN g + Fee(g) ELSE Fee(g))
  BY DebitIs, FeeIs
<1>4. /\ IsFiniteSet(OpenOrders(L)) /\ Due(L) \in [OpenOrders(L) -> Nat] /\ Total(Due(L)) \in Nat
      /\ \A j : IsFiniteSet(Sells(L, j)) /\ Left(L, j) \in [Sells(L, j) -> Nat]
                /\ Total(Left(L, j)) \in Nat
  BY <1>1, DuesAre
<1>5. L.cash \in Int /\ L.realized \in Int /\ \A j \in Instruments : Held(L, j) \in Nat
  BY HoldingsAre DEF LedgerType
<1>6. d <= Total(Due(L)) /\ d <= L.cash
  <2>1. d <= Due(L)[i]
    BY DEF Due
  <2>2. Due(L)[i] <= Total(Due(L))
    BY <1>4, TotalPart
  <2>3. Total(Due(L)) <= L.cash
    BY <1>4, <1>5 DEF Solvent, Slack
  <2>4. Due(L)[i] \in Nat
    BY <1>4
  <2>5. QED
    BY <2>1, <2>2, <2>3, <2>4, <1>3, <1>4, <1>5
<1>7. o.side # "buy" => o.side = "sell" /\ q <= Held(L, k)
  <2>1. SUFFICES ASSUME o.side = "sell" PROVE q <= Held(L, k)
    BY <1>2 DEF OrderType, Sides
  <2>2. i \in Sells(L, k)
    BY <2>1, <1>2 DEF Sells
  <2>3. q <= Left(L, k)[i]
    BY <2>2 DEF Left
  <2>4. Left(L, k)[i] <= Total(Left(L, k)) /\ Left(L, k)[i] \in Nat
    BY <2>2, <1>4, TotalPart
  <2>5. Total(Left(L, k)) <= Held(L, k)
    BY <1>2, <1>4, <1>5 DEF Solvent, Spare
  <2>6. QED
    BY <2>3, <2>4, <2>5, <1>2, <1>4, <1>5
<1>8. Bookable(L, h, o.side, q, g)
  <2>1. h.quantity = Held(L, k) /\ Held(L, k) \in Nat
    BY <1>2, <1>5, HoldingIs
  <2>2. o.side # "buy" => d = Fee(g)
    BY <1>3
  <2>3. QED
    BY <1>6, <1>7, <2>1, <2>2 DEF Bookable
<1> DEFINE p == Charged(o, q, g)
<1>9. /\ M \in LedgerType
      /\ M.cash = L.cash + Proceeds(o.side, g)
      /\ M.realized = L.realized + Profit(o.side, h, q, g)
      /\ M.orders = [L.orders EXCEPT ![i] = p]
      /\ p \in OrderType
      /\ DOMAIN M.holdings = DOMAIN L.holdings \cup {k}
      /\ \A j \in DOMAIN L.holdings \ {k} : M.holdings[j] = L.holdings[j]
      /\ M.initial = L.initial
  BY <1>2, <1>7, BookedIs
<1>10. Traded(o.side, h, M.holdings[k], q, g)
  BY <1>2, <1>7, BookedIs
<1>11. /\ SameOrder(o, p) /\ p.status = o.status /\ InBounds(p)
       /\ p.filled = o.filled + q /\ p.debit = o.debit + d
  <2>1. /\ SameOrder(o, p) /\ p.status = o.status
        /\ p.filled = o.filled + q /\ p.debit = o.debit + d /\ p.gross = o.gross + g
    BY <1>2 DEF OrderType, Charged, SameOrder
  <2>2. InBounds(o)
    BY <1>1, <1>2
  <2> HIDE DEF o, p, d
  <2>3. g <= o.approved - o.gross /\ d <= o.maxDebit - o.debit /\ q <= o.target - o.filled
    BY DEF o, d
  <2>4. QED
    BY <2>1, <2>2, <2>3, <1>2, <1>3 DEF InBounds, OrderType, SameOrder
<1> HIDE DEF p, M, h
<1>12. DOMAIN M.orders = DOMAIN L.orders /\ M.orders[i] = p
       /\ \A j \in DOMAIN L.orders \ {i} : M.orders[j] = L.orders[j]
  BY <1>2, <1>9
<1>13. SameOrders(L, M) /\ \A j \in DOMAIN M.orders : InBounds(M.orders[j])
  <2>1. \A j \in DOMAIN L.orders : SameOrder(L.orders[j], L.orders[j])
    BY DEF SameOrder
  <2>2. QED
    BY <2>1, <1>1, <1>11, <1>12 DEF SameOrders
<1>14. OpenOrders(M) = OpenOrders(L) /\ \A j : Sells(M, j) = Sells(L, j)
  BY <1>11, <1>12 DEF OpenOrders, Sells, SameOrder
<1>15. Total(Due(M)) = Total(Due(L)) - d
  <2>1. Due(M) \in [OpenOrders(L) -> Nat]
    BY <1>9, <1>13, <1>14, DuesAre
  <2>2. \A j \in OpenOrders(L) \ {i} : Due(M)[j] = Due(L)[j]
    BY <1>12, <1>14 DEF Due, OpenOrders
  <2>3. Total(Due(M)) = Total(Due(L)) + Due(M)[i] - Due(L)[i]
    BY <2>1, <2>2, <1>4, TotalUpdate
  <2>4. Due(M)[i] = Due(L)[i] - d
    <3>1. Due(M)[i] = p.maxDebit - p.debit /\ Due(L)[i] = o.maxDebit - o.debit
      BY <1>12, <1>14 DEF Due
    <3>2. QED
      BY <3>1, <1>2, <1>3, <1>11 DEF OrderType, SameOrder
  <2>5. Due(L)[i] \in Nat
    BY <1>4
  <2>6. QED
    BY <2>3, <2>4, <2>5, <1>3, <1>4
<1>16. Slack(L) <= Slack(M)
  <2>1. Proceeds(o.side, g) >= -d /\ Proceeds(o.side, g) \in Int
    BY <1>3 DEF Proceeds
  <2>2. QED
    BY <2>1, <1>3, <1>4, <1>5, <1>9, <1>15 DEF Slack
<1>17. \A j \in Instruments \ {k} : Held(M, j) = Held(L, j) /\ Left(M, j) = Left(L, j)
  <2>1. \A j \in Instruments \ {k} : Held(M, j) = Held(L, j)
    BY <1>9 DEF Held
  <2>2. ASSUME NEW j \in Instruments \ {k} PROVE Left(M, j) = Left(L, j)
    <3>1. i \notin Sells(L, j)
      BY <1>2 DEF Sells
    <3>2. \A n \in Sells(L, j) : M.orders[n] = L.orders[n]
      BY <3>1, <1>12 DEF Sells, OpenOrders
    <3>3. QED
      BY <3>2, <1>14 DEF Left
  <2>3. QED
    BY <2>1, <2>2
<1>18. Held(M, k) = (IF o.side = "buy" THEN Held(L, k) + q ELSE Held(L, k) - q)
  <2>1. h.quantity = Held(L, k) /\ Held(M, k) = M.holdings[k].quantity
    BY <1>9, HoldingIs DEF Held, h
  <2>2. QED
    BY <2>1, <1>10 DEF Traded
<1>19. Spare(L, k) <= Spare(M, k)
  <2>1. CASE o.side = "buy"
    <3>1. i \notin Sells(L, k)
      BY <2>1 DEF Sells
    <3>2. \A n \in Sells(L, k) : M.orders[n] = L.orders[n]
      BY <3>1, <1>12 DEF Sells, OpenOrders
    <3>3. Left(M, k) = Left(L, k)
      BY <3>2, <1>14 DEF Left
    <3>4. QED
      BY <2>1, <3>3, <1>2, <1>4, <1>5, <1>18 DEF Spare
  <2>2. CASE o.side # "buy"
    <3>1. i \in Sells(L, k)
      BY <2>2, <1>2, <1>7 DEF Sells
    <3>2. Left(M, k) \in [Sells(L, k) -> Nat]
      BY <1>9, <1>13, <1>14, DuesAre
    <3>3. \A n \in Sells(L, k) \ {i} : Left(M, k)[n] = Left(L, k)[n]
      BY <1>12, <1>14 DEF Left, Sells, OpenOrders
    <3>4. Total(Left(M, k)) = Total(Left(L, k)) + Left(M, k)[i] - Left(L, k)[i]
      BY <3>1, <3>2, <3>3, <1>4, TotalUpdate
    <3>5. Left(M, k)[i] = Left(L, k)[i] - q
      <4>1. Left(M, k)[i] = p.target - p.filled /\ Left(L, k)[i] = o.target - o.filled
        BY <3>1, <1>12, <1>14 DEF Left
      <4>2. QED
        BY <4>1, <1>2, <1>11 DEF OrderType, SameOrder
    <3>6. Left(L, k)[i] \in Nat
      BY <3>1, <1>4
    <3>7. QED
      BY <2>2, <3>4, <3>5, <3>6, <1>2, <1>4, <1>5, <1>18 DEF Spare
  <2>3. QED
    BY <2>1, <2>2
<1>20. \A j \in Instruments : Spare(L, j) <= Spare(M, j) /\ Spare(M, j) \in Int
                              /\ Spare(L, j) \in Int
  <2>1. \A j \in Instruments : Held(M, j) \in Nat /\ Total(Left(M, j)) \in Nat
    BY <1>9, <1>13, HoldingsAre, DuesAre
  <2>2. \A j \in Instruments : Spare(M, j) \in Int /\ Spare(L, j) \in Int
    BY <2>1, <1>4, <1>5 DEF Spare
  <2>3. QED
    BY <2>2, <1>17, <1>19 DEF Spare
<1>21. Slack(M) \in Int /\ Slack(L) \in Int
  <2>1. M.cash \in Int /\ Total(Due(M)) \in Nat
    BY <1>9, <1>13, DuesAre DEF LedgerType
  <2>2. QED
    BY <2>1, <1>4, <1>5 DEF Slack
<1>22. Solvent(M)
  BY <1>13, <1>16, <1>20, <1>21 DEF Solvent
<1>23. Worth(M) = Worth(L)
  <2> DEFINE B == [j \in DOMAIN L.holdings |-> L.holdings[j].basis]
             C == [j \in DOMAIN M.holdings |-> M.holdings[j].basis]
  <2>1. IsFiniteSet(DOMAIN L.holdings) /\ B \in [DOMAIN L.holdings -> Nat]
        /\ C \in [DOMAIN M.holdings -> Nat]
    <3>1. \A j \in DOMAIN L.holdings : L.holdings[j].basis \in Nat
      BY HoldingsAre DEF HoldingType
    <3>2. \A j \in DOMAIN M.holdings : M.holdings[j].basis \in Nat
      BY <1>9, HoldingsAre DEF HoldingType
    <3>3. IsFiniteSet(DOMAIN L.holdings)
      BY TradingAssumption, HoldingsAre, FS_Subset
    <3>4. QED
      BY <3>1, <3>2, <3>3
  <2>2. Basis(L) = Total(B) /\ Basis(M) = Total(C) /\ Total(B) \in Nat
    BY <2>1, UnitsFinite DEF Basis
  <2>3. C[k] = M.holdings[k].basis /\ C[k] \in Nat
    BY <1>9, <2>1
  <2>4. Total(C) = Total(B) + C[k] - h.basis /\ h.basis \in Nat
    <3>1. CASE k \in DOMAIN L.holdings
      <4>1. DOMAIN M.holdings = DOMAIN L.holdings
        BY <3>1, <1>9
      <4>2. \A j \in DOMAIN L.holdings \ {k} : C[j] = B[j]
        BY <1>9, <4>1
      <4>3. h.basis = B[k] /\ B[k] \in Nat
        BY <3>1, <2>1, HoldingIs DEF h
      <4> HIDE DEF B, C
      <4>4. Total(C) = Total(B) + C[k] - B[k]
        BY <3>1, <4>1, <4>2, <2>1, TotalUpdate
      <4>5. QED
        BY <4>3, <4>4
    <3>2. CASE k \notin DOMAIN L.holdings
      <4>1. \A j \in DOMAIN L.holdings : C[j] = B[j]
        BY <3>2, <1>9
      <4>2. h.basis = 0
        BY <3>2, HoldingIs DEF h
      <4>3. C \in [DOMAIN L.holdings \cup {k} -> Nat]
        BY <2>1, <1>9
      <4> HIDE DEF B, C
      <4>4. Total(C) = Total(B) + C[k]
        BY <3>2, <4>1, <4>3, <2>1, TotalAdd
      <4>5. QED
        BY <4>2, <4>4, <2>2, <2>3
    <3>3. QED
      BY <3>1, <3>2
  <2> HIDE DEF B, C, d
  <2>5. CASE o.side = "buy"
    <3>1. C[k] = h.basis + g /\ Proceeds(o.side, g) = -(g + Fee(g))
          /\ Profit(o.side, h, q, g) = -Fee(g)
      BY <2>5, <2>3, <1>3, <1>10 DEF Traded, Proceeds, Profit, Debit
    <3>2. QED
      BY <3>1, <2>2, <2>3, <2>4, <1>3, <1>5, <1>9 DEF Worth
  <2>6. CASE o.side # "buy"
    <3>1. SoldBasis(h, q) \in Int
      <4>1. h \in HoldingType /\ q <= h.quantity
        BY <1>7, <2>6, HoldingIs DEF h
      <4>2. QED
        BY <4>1, SoldBasisIs
    <3>2. C[k] = h.basis - SoldBasis(h, q) /\ Proceeds(o.side, g) = g - Fee(g)
          /\ Profit(o.side, h, q, g) = g - SoldBasis(h, q) - Fee(g)
      BY <2>6, <2>3, <1>3, <1>7, <1>10 DEF Traded, Proceeds, Profit, Debit
    <3>3. QED
      BY <3>1, <3>2, <2>2, <2>3, <2>4, <1>3, <1>5, <1>9 DEF Worth
  <2>7. QED
    BY <2>5, <2>6
<1>24. QED
  BY <1>8, <1>9, <1>13, <1>16, <1>20, <1>22, <1>23 DEF Kept, h, M

-------------------------------------------------------------------------------
(* Filling one order *)

LEMMA KeptIsReflexive ==
  ASSUME NEW L \in LedgerType, Solvent(L)
  PROVE  Kept(L, L)
<1>1. Slack(L) \in Int /\ \A k \in Instruments : Spare(L, k) \in Int
  BY DuesAre, HoldingsAre DEF Solvent, Slack, Spare, LedgerType
<1>2. SameOrders(L, L)
  BY DEF SameOrders, SameOrder
<1>3. QED
  BY <1>1, <1>2 DEF Kept

LEMMA KeptIsTransitive ==
  ASSUME NEW L \in LedgerType, Solvent(L), NEW M, Kept(L, M), NEW N, Kept(M, N)
  PROVE  Kept(L, N)
<1>1. M \in LedgerType /\ N \in LedgerType /\ Solvent(M) /\ Solvent(N)
  BY DEF Kept
<1>2. \A A \in {L, M, N} : Slack(A) \in Int /\ \A k \in Instruments : Spare(A, k) \in Int
  <2>1. ASSUME NEW A \in {L, M, N} PROVE Slack(A) \in Int /\ \A k \in Instruments : Spare(A, k) \in Int
    <3>1. A \in LedgerType /\ \A i \in DOMAIN A.orders : InBounds(A.orders[i])
      BY <1>1 DEF Solvent
    <3>2. Slack(A) \in Int
      <4>1. A.cash \in Int
        BY <3>1 DEF LedgerType
      <4>2. QED
        BY <3>1, <4>1, DuesAre DEF Slack
    <3>3. \A k \in Instruments : Spare(A, k) \in Int
      BY <3>1, DuesAre, HoldingsAre DEF Spare
    <3>4. QED
      BY <3>2, <3>3
  <2>2. QED
    BY <2>1
<1>3. SameOrders(L, N)
  BY DEF Kept, SameOrders, SameOrder
<1>4. Slack(L) <= Slack(N) /\ \A k \in Instruments : Spare(L, k) <= Spare(N, k)
  BY <1>2 DEF Kept
<1>5. QED
  BY <1>1, <1>3, <1>4 DEF Kept

Stages == {"ledger", "depth", "broken"}

(* One order may be filled further; everything else about the others stands.  *)
FilledOnly(i, s, t) ==
  /\ DOMAIN t = Stages /\ t.broken = FALSE
  /\ Kept(s.ledger, t.ledger)
  /\ t.ledger.books = s.ledger.books /\ t.ledger.healthy = s.ledger.healthy
  /\ \A j \in DOMAIN s.ledger.orders \ {i} : t.ledger.orders[j] = s.ledger.orders[j]
  /\ t.ledger.orders[i].status = s.ledger.orders[i].status

LEMMA FillPriceIs ==
  ASSUME NEW side, NEW raw \in Nat
  PROVE  FillPrice(side, raw) \in Int
<1>1. BpsDen + SlipBps \in Nat /\ BpsDen - SlipBps \in Nat /\ BpsDen \in Nat \ {0} /\ Tick \in Nat \ {0}
  BY RatesAssumption
<1>2. raw * (BpsDen + SlipBps) \in Nat /\ raw * (BpsDen - SlipBps) \in Nat /\ BpsDen * Tick \in Nat \ {0}
  BY <1>1
<1>3. CeilDiv(raw * (BpsDen + SlipBps), BpsDen * Tick) \in Nat
  BY <1>2, CeilDivIs
<1>4. (raw * (BpsDen - SlipBps)) \div (BpsDen * Tick) \in Int
  BY <1>2
<1>5. QED
  BY <1>1, <1>3, <1>4 DEF FillPrice

(* A fill is a number of lots that the order, the depth and the permit allow.  *)
LEMMA FillQuantityIs ==
  ASSUME NEW o \in OrderType, o.filled <= o.target, NEW price, NEW depth
  PROVE  LET q == FillQuantity(o, price, depth)
         IN  /\ q \in Nat /\ q <= o.target - o.filled
             /\ q # 0 => q * price <= o.approved - o.gross
                         /\ Debit(o.side, q * price) <= o.maxDebit - o.debit
<1> DEFINE lots == FillableLots(o, price, depth)
           left == o.target - o.filled
           n == Largest(lots)
<1>1. left \in Nat /\ Lot \in Nat \ {0}
  BY LedgerAssumption DEF OrderType
<1>2. left \div Lot \in Nat /\ Lot * (left \div Lot) <= left
  <2> HIDE DEF left
  <2>1. left \div Lot \in Int /\ Lot * (left \div Lot) <= left /\ left < Lot * (left \div Lot) + Lot
    BY <1>1
  <2>2. left \div Lot >= 0
    <3> DEFINE m == left \div Lot
    <3>1. ASSUME m + 1 <= 0 PROVE FALSE
      <4>1. Lot * (m + 1) <= 0
        BY <1>1, <2>1, <3>1
      <4>2. QED
        BY <4>1, <1>1, <2>1
    <3>2. QED
      BY <3>1, <2>1
  <2>3. QED
    BY <2>1, <2>2
<1>3. lots \in SUBSET (0..(left \div Lot))
  BY DEF FillableLots
<1>4. n \in lots \cup {0} /\ n \in 0..(left \div Lot)
  BY <1>2, <1>3, LargestIs
<1>5. Lot * n \in Nat /\ Lot * n <= left
  <2> DEFINE m == left \div Lot
  <2>1. n \in Nat /\ m \in Nat /\ n <= m
    BY <1>2, <1>4
  <2> HIDE DEF n, m
  <2>2. Lot * n <= Lot * m
    BY <2>1, <1>1
  <2>3. Lot * n \in Nat /\ Lot * m \in Nat
    BY <2>1, <1>1
  <2>4. Lot * m <= left
    BY <1>2 DEF m
  <2> HIDE DEF left
  <2>5. QED
    BY <2>2, <2>3, <2>4, <1>1
<1>6. Lot * n # 0 => Fits(o, price, n * Lot)
  <2>1. n # 0 => Fits(o, price, n * Lot)
    BY <1>4 DEF FillableLots
  <2>2. QED
    BY <2>1, <1>1
<1>7. n * Lot = Lot * n
  BY <1>1, <1>2, <1>4
<1>8. FillQuantity(o, price, depth) = Lot * n
  BY DEF FillQuantity
<1> HIDE DEF n, lots, left
<1>9. QED
  BY <1>5, <1>6, <1>7, <1>8 DEF Fits, left

LEMMA FillLevelKeeps ==
  ASSUME NEW s, DOMAIN s = Stages, s.broken = FALSE, s.ledger \in LedgerType, Solvent(s.ledger),
         NEW i \in OpenOrders(s.ledger), NEW book \in BookType,
         s.ledger.orders[i].instrument = book.instrument,
         NEW n \in DOMAIN Levels(s.ledger.orders[i].side, book)
  PROVE  FilledOnly(i, s, FillLevel(s, i, book, n))
<1> DEFINE L == s.ledger
           o == L.orders[i]
           price == FillPrice(o.side, Levels(o.side, book)[n].price)
           q == FillQuantity(o, price, s.depth[o.side][n])
           M == Book(L, i, book, q, q * price)
           t == FillLevel(s, i, book, n)
<1>1. i \in DOMAIN L.orders /\ o \in OrderType /\ o.filled <= o.target
  BY OrdersAre DEF OpenOrders, Solvent, InBounds
<1>2. price \in Int
  <2>1. Levels(o.side, book) \in Seq(LevelType)
    BY DEF Levels, BookType
  <2>2. Levels(o.side, book)[n] \in LevelType
    BY <2>1
  <2>3. QED
    BY <2>2, FillPriceIs DEF LevelType
<1>3. /\ q \in Nat /\ q <= o.target - o.filled
      /\ q # 0 => q * price <= o.approved - o.gross
                  /\ Debit(o.side, q * price) <= o.maxDebit - o.debit
  BY <1>1, FillQuantityIs
<1> DEFINE g == q * price
<1>4. t = IF s.broken \/ o.filled = o.target \/ price <= 0 \/ q = 0 THEN s
          ELSE IF Bookable(L, Holding(L, book), o.side, q, g)
          THEN [s EXCEPT !.ledger = M, !.depth[o.side][n] = @ - q]
          ELSE [s EXCEPT !.broken = TRUE]
  BY DEF FillLevel
<1>5. L \in LedgerType /\ Solvent(L) /\ L = s.ledger /\ i \in OpenOrders(L)
      /\ o.instrument = book.instrument
  OBVIOUS
<1> HIDE DEF L, price, q, g, t
<1>6. CASE o.filled = o.target \/ price <= 0 \/ q = 0
  <2>1. t = s
    BY <1>4, <1>6
  <2>2. Kept(L, L)
    BY <1>5, KeptIsReflexive
  <2>3. QED
    BY <2>1, <2>2, <1>5 DEF FilledOnly, t
<1>7. CASE ~(o.filled = o.target \/ price <= 0 \/ q = 0)
  <2>1. q \in Nat \ {0} /\ g \in Nat
    BY <1>2, <1>3, <1>7 DEF g
  <2>2. g <= o.approved - o.gross /\ Debit(o.side, g) <= o.maxDebit - o.debit
    BY <1>3, <2>1 DEF g
  <2>3. Bookable(L, Holding(L, book), o.side, q, g) /\ Kept(L, Book(L, i, book, q, g))
    BY <1>3, <1>5, <2>1, <2>2, BookKeeps
  <2>4. M = Book(L, i, book, q, g)
    BY DEF g
  <2>5. t = [s EXCEPT !.ledger = M, !.depth[o.side][n] = @ - q]
    BY <1>4, <1>7, <2>3
  <2> HIDE DEF M
  <2>6. DOMAIN t = Stages /\ t.broken = FALSE /\ t.ledger = M
    BY <2>5 DEF Stages
  <2>7. o.side = "sell" => q <= Held(L, book.instrument)
    <3>1. Held(L, book.instrument) = Holding(L, book).quantity
      BY <1>5, HoldingIs
    <3>2. QED
      BY <2>3, <3>1 DEF Bookable
  <2>8. /\ M.books = L.books /\ M.healthy = L.healthy
        /\ M.orders = [L.orders EXCEPT ![i] = Charged(o, q, g)]
    BY <1>1, <1>5, <2>1, <2>4, <2>7, BookedIs
  <2>9. Charged(o, q, g).status = o.status
    BY <1>1 DEF Charged, OrderType
  <2>10. \A j \in DOMAIN L.orders \ {i} : M.orders[j] = L.orders[j]
    BY <1>1, <2>8
  <2>11. M.orders[i].status = o.status
    BY <1>1, <2>8, <2>9
  <2>12. QED
    BY <1>5, <2>3, <2>4, <2>6, <2>8, <2>10, <2>11 DEF FilledOnly, t
<1>8. QED
  BY <1>6, <1>7

LEMMA LevelledIs ==
  ASSUME NEW s, NEW i, NEW book, NEW N \in Nat, N = Len(Levels(s.ledger.orders[i].side, book))
  PROVE  LET f == Levelled(s, i, book)
         IN  f[0] = s /\ \A n \in 1..N : f[n] = FillLevel(f[n - 1], i, book, n)
<1> DEFINE Is(f, m) ==
             f = [n \in 0..m |-> IF n = 0 THEN s ELSE FillLevel(f[n - 1], i, book, n)]
           T == {m \in 0..N : ~\E f : Is(f, m)}
<1>1. T = {}
  <2>1. SUFFICES ASSUME T # {} PROVE FALSE
    OBVIOUS
  <2>2. PICK m \in T : \A y \in T : m <= y
    <3> HIDE DEF Is
    <3>1. T \in SUBSET Nat
      OBVIOUS
    <3>2. QED
      BY <2>1, <3>1, LeastExists
  <2>3. CASE m = 0
    <3> DEFINE g == [n \in 0..0 |-> s]
    <3>1. Is(g, 0)
      OBVIOUS
    <3>2. QED
      BY <2>2, <2>3, <3>1
  <2>4. CASE m # 0
    <3>1. m - 1 \in 0..N /\ m - 1 \notin T
      <4> HIDE DEF Is
      <4>1. QED
        BY <2>2, <2>4
    <3>2. PICK f : Is(f, m - 1)
      BY <3>1
    <3> DEFINE g == [n \in 0..m |-> IF n = m THEN FillLevel(f[m - 1], i, book, m) ELSE f[n]]
    <3>3. Is(g, m)
      BY <2>4, <3>2
    <3>4. QED
      BY <2>2, <3>3
  <2>5. QED
    BY <2>3, <2>4
<1>2. \E f : Is(f, N)
  BY <1>1
<1>3. Is(Levelled(s, i, book), N)
  BY <1>2 DEF Levelled
<1>4. QED
  BY <1>3

-------------------------------------------------------------------------------
(* Closing orders *)

Closed(o, p) == \E status \in Statuses \ {"submitted"} : p = [o EXCEPT !.status = status]

(* Nothing moves but marks, times and the status of orders that close.     *)
LEMMA ClosingKeeps ==
  ASSUME NEW L \in LedgerType, Solvent(L), NEW M \in LedgerType,
         M.cash = L.cash, M.realized = L.realized, M.initial = L.initial, Basis(M) = Basis(L),
         \A k \in Instruments : Held(M, k) = Held(L, k),
         DOMAIN M.orders = DOMAIN L.orders,
         \A i \in DOMAIN L.orders :
           M.orders[i] = L.orders[i] \/ Closed(L.orders[i], M.orders[i])
  PROVE  Kept(L, M)
<1>1. \A i \in DOMAIN L.orders :
        /\ SameOrder(L.orders[i], M.orders[i])
        /\ M.orders[i].filled = L.orders[i].filled /\ M.orders[i].gross = L.orders[i].gross
        /\ M.orders[i].debit = L.orders[i].debit
        /\ M.orders[i].status = "submitted" => L.orders[i].status = "submitted"
  <2>1. SUFFICES ASSUME NEW i \in DOMAIN L.orders
                 PROVE  LET o == L.orders[i]
                            p == M.orders[i]
                        IN  /\ SameOrder(o, p) /\ p.filled = o.filled /\ p.gross = o.gross
                            /\ p.debit = o.debit
                            /\ p.status = "submitted" => o.status = "submitted"
    OBVIOUS
  <2>2. L.orders[i] \in OrderType
    BY OrdersAre
  <2>3. CASE M.orders[i] = L.orders[i]
    BY <2>3 DEF SameOrder
  <2>4. CASE Closed(L.orders[i], M.orders[i])
    <3>1. PICK status \in Statuses \ {"submitted"} :
            M.orders[i] = [L.orders[i] EXCEPT !.status = status]
      BY <2>4 DEF Closed
    <3>2. QED
      BY <2>2, <3>1 DEF SameOrder, OrderType
  <2>5. QED
    BY <2>3, <2>4
<1>2. SameOrders(L, M)
  BY <1>1 DEF SameOrders
<1>3. \A i \in DOMAIN L.orders : InBounds(L.orders[i])
  BY DEF Solvent
<1>4. \A i \in DOMAIN M.orders : InBounds(M.orders[i])
  BY <1>1, <1>3 DEF InBounds, SameOrder
<1>5. OpenOrders(M) \subseteq OpenOrders(L) /\ \A k : Sells(M, k) \subseteq Sells(L, k)
  BY <1>1 DEF OpenOrders, Sells, SameOrder
<1>6. \A i \in OpenOrders(M) : Due(M)[i] <= Due(L)[i]
  <2>1. \A i \in OpenOrders(M) : Due(M)[i] = Due(L)[i]
    BY <1>1, <1>5 DEF Due, OpenOrders, SameOrder
  <2>2. \A i \in OpenOrders(M) : Due(L)[i] \in Nat
    BY <1>3, <1>5, DuesAre
  <2>3. QED
    BY <2>1, <2>2
<1>7. Total(Due(M)) <= Total(Due(L)) /\ Total(Due(M)) \in Nat /\ Total(Due(L)) \in Nat
  <2>1. /\ IsFiniteSet(OpenOrders(L)) /\ Due(L) \in [OpenOrders(L) -> Nat]
        /\ Due(M) \in [OpenOrders(M) -> Nat]
    BY <1>3, <1>4, DuesAre
  <2>2. Total(Due(M)) <= Total(Due(L))
    BY <2>1, <1>5, <1>6, TotalMonotone
  <2>3. QED
    BY <2>2, <1>3, <1>4, DuesAre
<1>8. \A k : Total(Left(M, k)) <= Total(Left(L, k)) /\ Total(Left(M, k)) \in Nat
             /\ Total(Left(L, k)) \in Nat
  <2>1. ASSUME NEW k PROVE Total(Left(M, k)) <= Total(Left(L, k))
    <3>1. /\ IsFiniteSet(Sells(L, k)) /\ Left(L, k) \in [Sells(L, k) -> Nat]
          /\ Left(M, k) \in [Sells(M, k) -> Nat] /\ Sells(M, k) \subseteq Sells(L, k)
      BY <1>3, <1>4, <1>5, DuesAre
    <3>2. \A i \in Sells(M, k) : Left(M, k)[i] = Left(L, k)[i]
      BY <1>1, <1>5 DEF Left, Sells, OpenOrders, SameOrder
    <3>3. \A i \in Sells(M, k) : Left(M, k)[i] <= Left(L, k)[i]
      BY <3>1, <3>2
    <3>4. QED
      BY <3>1, <3>3, TotalMonotone
  <2>2. QED
    BY <2>1, <1>3, <1>4, DuesAre
<1>9. L.cash \in Int /\ \A k \in Instruments : Held(L, k) \in Nat
  BY HoldingsAre DEF LedgerType
<1>10. Slack(L) <= Slack(M) /\ Slack(M) >= 0
  <2>1. Slack(L) <= Slack(M)
    BY <1>7, <1>9 DEF Slack
  <2>2. QED
    BY <2>1, <1>7, <1>9 DEF Slack, Solvent
<1>11. \A k \in Instruments : Spare(L, k) <= Spare(M, k) /\ Spare(M, k) >= 0
  <2>1. ASSUME NEW k \in Instruments PROVE Spare(L, k) <= Spare(M, k) /\ Spare(M, k) >= 0
    <3>1. Spare(L, k) = Held(L, k) - Total(Left(L, k))
          /\ Spare(M, k) = Held(L, k) - Total(Left(M, k)) /\ Spare(L, k) >= 0
      BY DEF Spare, Solvent
    <3>2. QED
      BY <3>1, <1>8, <1>9
  <2>2. QED
    BY <2>1
<1>12. Worth(M) = Worth(L)
  BY DEF Worth
<1>13. QED
  BY <1>2, <1>4, <1>10, <1>11, <1>12 DEF Kept, Solvent

ClosedAs(L, M, i, status, sealed) ==
  M = [L EXCEPT !.sealed = sealed,
                !.orders = [L.orders EXCEPT ![i] = [L.orders[i] EXCEPT !.status = status]]]

LEMMA CloseKeeps ==
  ASSUME NEW L \in LedgerType, Solvent(L), NEW i \in DOMAIN L.orders,
         NEW status \in Statuses \ {"submitted"}, NEW sealed \in BOOLEAN, NEW M, ClosedAs(L, M, i, status, sealed)
  PROVE  /\ Kept(L, M) /\ M.books = L.books /\ M.healthy = L.healthy
         /\ M.orders[i].status = status /\ M.orders[i].filled = L.orders[i].filled
         /\ \A j \in DOMAIN L.orders \ {i} : M.orders[j] = L.orders[j]
<1> DEFINE p == [L.orders[i] EXCEPT !.status = status]
           O == [L.orders EXCEPT ![i] = p]
<1>1. L.orders[i] \in OrderType /\ L.orders \in Seq(OrderType)
  BY OrdersAre
<1>2. p \in OrderType /\ p.status = status /\ p.filled = L.orders[i].filled
  BY <1>1 DEF OrderType
<1>3. O \in Seq(OrderType)
  BY <1>1, <1>2
<1>4. M = [L EXCEPT !.sealed = sealed, !.orders = O]
  BY DEF ClosedAs
<1>5. DOMAIN O = DOMAIN L.orders
      /\ \A j \in DOMAIN L.orders : O[j] = L.orders[j] \/ Closed(L.orders[j], O[j])
  BY DEF Closed
<1> HIDE DEF O
<1>6. M \in LedgerType
  BY <1>3, <1>4 DEF LedgerType
<1>7. /\ M.cash = L.cash /\ M.realized = L.realized /\ M.initial = L.initial
      /\ M.holdings = L.holdings /\ M.books = L.books /\ M.healthy = L.healthy /\ M.orders = O
  BY <1>4 DEF LedgerType
<1>8. Basis(M) = Basis(L) /\ \A k \in Instruments : Held(M, k) = Held(L, k)
  BY <1>7 DEF Basis, Held
<1>9. Kept(L, M)
  BY <1>5, <1>6, <1>7, <1>8, ClosingKeeps
<1>10. QED
  BY <1>2, <1>7, <1>9 DEF O

(* One order may be filled or closed; what stays open is not touched.      *)
SettledOnly(i, s, t) ==
  /\ DOMAIN t = Stages /\ t.broken = FALSE
  /\ Kept(s.ledger, t.ledger)
  /\ t.ledger.books = s.ledger.books /\ t.ledger.healthy = s.ledger.healthy
  /\ \A j \in DOMAIN s.ledger.orders \ {i} : t.ledger.orders[j] = s.ledger.orders[j]
  /\ t.ledger.orders[i].status = "submitted" => t.ledger.orders[i] = s.ledger.orders[i]

LEMMA LevelsKeep ==
  ASSUME NEW s, DOMAIN s = Stages, s.broken = FALSE, s.ledger \in LedgerType, Solvent(s.ledger),
         NEW i \in OpenOrders(s.ledger), NEW book \in BookType,
         s.ledger.orders[i].instrument = book.instrument,
         NEW N \in Nat, N = Len(Levels(s.ledger.orders[i].side, book))
  PROVE  FilledOnly(i, s, Levelled(s, i, book)[N])
<1> DEFINE f == Levelled(s, i, book)
           T == {n \in 0..N : ~FilledOnly(i, s, f[n])}
<1>1. f[0] = s /\ \A n \in 1..N : f[n] = FillLevel(f[n - 1], i, book, n)
  BY LevelledIs
<1>2. FilledOnly(i, s, s)
  BY KeptIsReflexive DEF FilledOnly
<1>3. i \in DOMAIN s.ledger.orders
  BY DEF OpenOrders
<1>4. DOMAIN Levels(s.ledger.orders[i].side, book) = 1..N
  BY DEF Levels, BookType
<1> HIDE DEF f
<1>5. ASSUME NEW n \in 1..N, FilledOnly(i, s, f[n - 1]) PROVE FilledOnly(i, s, f[n])
  <2>1. PICK t : t = f[n - 1]
    OBVIOUS
  <2>2. DOMAIN t = Stages /\ t.broken = FALSE /\ Kept(s.ledger, t.ledger)
        /\ t.ledger \in LedgerType /\ Solvent(t.ledger)
    BY <1>5, <2>1 DEF FilledOnly, Kept
  <2>3. DOMAIN t.ledger.orders = DOMAIN s.ledger.orders
        /\ SameOrder(s.ledger.orders[i], t.ledger.orders[i])
        /\ t.ledger.orders[i].status = s.ledger.orders[i].status
    BY <1>3, <1>5, <2>1, <2>2 DEF Kept, SameOrders, FilledOnly
  <2>4. i \in OpenOrders(t.ledger) /\ t.ledger.orders[i].instrument = book.instrument
        /\ n \in DOMAIN Levels(t.ledger.orders[i].side, book)
    BY <1>3, <1>4, <2>3 DEF OpenOrders, SameOrder
  <2>5. FilledOnly(i, t, f[n])
    BY <1>1, <2>1, <2>2, <2>4, FillLevelKeeps
  <2>6. Kept(s.ledger, f[n].ledger)
    BY <2>2, <2>5, KeptIsTransitive DEF FilledOnly
  <2>7. QED
    BY <1>5, <2>1, <2>3, <2>5, <2>6 DEF FilledOnly
<1>6. T = {}
  <2>1. SUFFICES ASSUME T # {} PROVE FALSE
    OBVIOUS
  <2>2. T \in SUBSET Nat
    OBVIOUS
  <2>3. PICK m \in T : \A y \in T : m <= y
    BY <2>1, <2>2, LeastExists
  <2>4. m \in 1..N /\ m - 1 \in 0..N /\ m - 1 \notin T
    BY <1>1, <1>2, <2>3
  <2>5. QED
    BY <1>5, <2>3, <2>4
<1>7. QED
  BY <1>6 DEF f

LEMMA ExecuteKeeps ==
  ASSUME NEW s, DOMAIN s = Stages, s.broken = FALSE, s.ledger \in LedgerType, Solvent(s.ledger),
         NEW i \in OpenOrders(s.ledger), NEW book \in BookType,
         s.ledger.orders[i].instrument = book.instrument
  PROVE  SettledOnly(i, s, Execute(s, i, book))
<1> DEFINE N == Len(Levels(s.ledger.orders[i].side, book))
           t == Levelled(s, i, book)[N]
           status == IF t.ledger.orders[i].filled = t.ledger.orders[i].target
                     THEN "filled" ELSE "cancelled"
           M == [t.ledger EXCEPT !.orders[i].status = status]
           u == Execute(s, i, book)
<1>1. N \in Nat
  BY DEF Levels, BookType
<1>2. FilledOnly(i, s, t)
  BY <1>1, LevelsKeep
<1>3. u = [t EXCEPT !.ledger.orders[i].status = status]
  BY DEF Execute
<1>4. status \in Statuses \ {"submitted"}
  BY DEF Statuses
<1>5. i \in DOMAIN s.ledger.orders
  BY DEF OpenOrders
<1> HIDE DEF t, status, u, N
<1>6. DOMAIN t = Stages /\ t.broken = FALSE /\ t.ledger \in LedgerType /\ Solvent(t.ledger)
      /\ Kept(s.ledger, t.ledger) /\ DOMAIN t.ledger.orders = DOMAIN s.ledger.orders
  BY <1>2 DEF FilledOnly, Kept, SameOrders
<1>7. DOMAIN u = Stages /\ u.broken = FALSE /\ u.ledger = M
  BY <1>3, <1>6 DEF Stages
<1>8. ClosedAs(t.ledger, M, i, status, t.ledger.sealed) /\ t.ledger.sealed \in BOOLEAN
  BY <1>6 DEF LedgerType, ClosedAs
<1> HIDE DEF M
<1>9. /\ Kept(t.ledger, M) /\ M.books = t.ledger.books /\ M.healthy = t.ledger.healthy
      /\ M.orders[i].status = status
      /\ \A j \in DOMAIN t.ledger.orders \ {i} : M.orders[j] = t.ledger.orders[j]
  BY <1>4, <1>5, <1>6, <1>8, CloseKeeps
<1>10. Kept(s.ledger, M)
  BY <1>6, <1>9, KeptIsTransitive
<1>11. \A j \in DOMAIN s.ledger.orders \ {i} : M.orders[j] = s.ledger.orders[j]
  BY <1>2, <1>6, <1>9 DEF FilledOnly
<1>12. QED
  BY <1>2, <1>4, <1>7, <1>9, <1>10, <1>11 DEF SettledOnly, FilledOnly, u

(* What lets an order be filled.                                           *)
Fillable(L, o, book, at, blocked) ==
  /\ o.status = "submitted" /\ o.instrument = book.instrument
  /\ ~(at >= o.expires) /\ Ready(o, book)
  /\ o.intent \notin blocked
  /\ L.healthy[book.instrument]
  /\ ~(at - book.event > FillAge)

Justified(L, M, i, book, at, blocked) ==
  Fillable(L, L.orders[i], book, at, blocked) \/ M.orders[i].filled = L.orders[i].filled

LEMMA SettleKeeps ==
  ASSUME NEW s, DOMAIN s = Stages, s.broken = FALSE, s.ledger \in LedgerType, Solvent(s.ledger),
         NEW i \in DOMAIN s.ledger.orders, NEW book \in BookType, NEW at, NEW blocked
  PROVE  /\ SettledOnly(i, s, Settle(s, i, book, at, blocked))
         /\ Justified(s.ledger, Settle(s, i, book, at, blocked).ledger, i, book, at, blocked)
<1> DEFINE L == s.ledger
           o == L.orders[i]
           t == Settle(s, i, book, at, blocked)
           r == [s EXCEPT !.ledger.sealed = TRUE]
           expired == [s EXCEPT !.ledger.orders[i].status = "expired"]
           cancelled == [r EXCEPT !.ledger.orders[i].status = "cancelled"]
<1>1. \/ t = s
      \/ t = expired
      \/ t = cancelled
      \/ t = Execute(r, i, book) /\ Fillable(L, o, book, at, blocked)
  BY DEF Settle, Fillable
<1>2. o \in OrderType
  BY OrdersAre
<1>3. CASE t = s
  <2>1. SettledOnly(i, s, s)
    BY KeptIsReflexive DEF SettledOnly
  <2>2. QED
    BY <1>3, <2>1 DEF Justified
<1>4. ASSUME NEW sealed \in BOOLEAN, NEW status \in Statuses \ {"submitted"}, DOMAIN t = Stages,
             t.broken = FALSE,
             ClosedAs(L, t.ledger, i, status, sealed)
      PROVE  SettledOnly(i, s, t) /\ t.ledger.orders[i].filled = o.filled
  <2> HIDE DEF t
  <2>1. Kept(L, t.ledger) /\ t.ledger.books = L.books /\ t.ledger.healthy = L.healthy
        /\ t.ledger.orders[i].status = status /\ t.ledger.orders[i].filled = o.filled
        /\ \A j \in DOMAIN L.orders \ {i} : t.ledger.orders[j] = L.orders[j]
    BY <1>4, CloseKeeps
  <2>2. QED
    BY <1>4, <2>1 DEF SettledOnly
<1>5. CASE t = expired
  <2> DEFINE p == [o EXCEPT !.status = "expired"]
  <2>1. DOMAIN t = Stages /\ t.broken = FALSE
        /\ t.ledger = [L EXCEPT !.orders = [L.orders EXCEPT ![i] = p]]
    BY <1>5 DEF Stages, LedgerType
  <2> DEFINE O == [L.orders EXCEPT ![i] = p]
  <2>2. [L EXCEPT !.orders = O] = [L EXCEPT !.sealed = L.sealed, !.orders = O]
        /\ L.sealed \in BOOLEAN
    <3> HIDE DEF L, O
    <3>1. L \in LedgerType
      BY DEF L
    <3>2. QED
      BY <3>1 DEF LedgerType
  <2>3. ClosedAs(L, t.ledger, i, "expired", L.sealed)
    BY <2>1, <2>2 DEF ClosedAs
  <2> HIDE DEF t
  <2>4. QED
    BY <2>1, <2>2, <2>3, <1>4 DEF Statuses, Justified, t
<1>6. CASE t = cancelled
  <2> DEFINE p == [o EXCEPT !.status = "cancelled"]
  <2>1. DOMAIN t = Stages /\ t.broken = FALSE
        /\ t.ledger = [L EXCEPT !.sealed = TRUE, !.orders = [L.orders EXCEPT ![i] = p]]
    BY <1>6 DEF Stages, LedgerType
  <2>2. ClosedAs(L, t.ledger, i, "cancelled", TRUE)
    BY <2>1 DEF ClosedAs
  <2> HIDE DEF t
  <2>3. QED
    BY <2>1, <2>2, <1>4 DEF Statuses, Justified, t
<1>7. CASE t = Execute(r, i, book) /\ Fillable(L, o, book, at, blocked)
  <2> DEFINE M == [L EXCEPT !.sealed = TRUE]
  <2>1. DOMAIN r = Stages /\ r.broken = FALSE /\ r.ledger = M
    BY DEF Stages
  <2>2. M \in LedgerType /\ M.orders = L.orders /\ M.books = L.books /\ M.healthy = L.healthy
        /\ M.cash = L.cash /\ M.realized = L.realized /\ M.holdings = L.holdings
        /\ M.initial = L.initial
    BY DEF LedgerType
  <2> HIDE DEF r, M, t
  <2>3. Basis(M) = Basis(L) /\ \A k \in Instruments : Held(M, k) = Held(L, k)
    BY <2>2 DEF Basis, Held
  <2>4. Kept(L, M)
    BY <2>2, <2>3, ClosingKeeps
  <2>5. i \in OpenOrders(M) /\ M.orders[i].instrument = book.instrument
    BY <1>7, <2>2 DEF Fillable, OpenOrders
  <2>6. SettledOnly(i, r, t)
    BY <1>7, <2>1, <2>2, <2>4, <2>5, ExecuteKeeps DEF Kept
  <2>7. Kept(L, t.ledger)
    BY <2>1, <2>4, <2>6, KeptIsTransitive DEF SettledOnly
  <2>8. QED
    BY <1>7, <2>1, <2>2, <2>6, <2>7 DEF SettledOnly, Justified, t
<1>8. QED
  BY <1>1, <1>3, <1>5, <1>6, <1>7 DEF Justified

-------------------------------------------------------------------------------
(* A market event *)

LEMMA SnapshotIs ==
  ASSUME NEW L \in LedgerType
  PROVE  /\ Snapshot(L) \in PortfolioType
         /\ DOMAIN Snapshot(L).quantity = Positions(L)
         /\ \A k \in Positions(L) : Snapshot(L).quantity[k] = Held(L, k)
<1>1. Positions(L) \in SUBSET Instruments /\ IsFiniteSet(Positions(L))
  BY HoldingsAre, TradingAssumption, FS_Subset DEF Positions
<1>2. \A k \in Positions(L) : /\ L.holdings[k].quantity \in Nat /\ ValueOf(L, k) \in Nat
                              /\ Held(L, k) = L.holdings[k].quantity
  BY HoldingsAre DEF Positions, HoldingType, ValueOf, Held
<1> DEFINE V == [k \in Positions(L) |-> ValueOf(L, k)]
           Q == [k \in Positions(L) |-> L.holdings[k].quantity]
<1>3. V \in [Positions(L) -> Nat] /\ Q \in [Positions(L) -> Nat]
  BY <1>2
<1>4. V \in Partial(Instruments, Nat) /\ Q \in Partial(Instruments, Nat)
  BY <1>1, <1>3 DEF Partial
<1>5. Equity(L) \in Int
  BY <1>1, <1>3, UnitsFinite DEF Equity, LedgerType
<1>6. Cardinality(OpenOrders(L)) \in Nat
  BY OrdersAre, FS_Subset, FS_CardinalityType DEF OpenOrders
<1>7. Reconciled(L) \in BOOLEAN
  BY DEF Reconciled
<1> HIDE DEF V, Q
<1> DEFINE p == IF Equity(L) > L.peak THEN Equity(L) ELSE L.peak
<1>8. Snapshot(L) = [cash |-> L.cash, equity |-> Equity(L), exposure |-> V, quantity |-> Q,
                     realized |-> L.realized, peak |-> p,
                     openOrders |-> Cardinality(OpenOrders(L)), reconciled |-> Reconciled(L),
                     asOf |-> L.asOf]
  BY DEF Snapshot, V, Q
<1>9. p \in Int
  BY <1>5 DEF LedgerType
<1> HIDE DEF p
<1>10. Snapshot(L) \in PortfolioType
  BY <1>4, <1>5, <1>6, <1>7, <1>8, <1>9 DEF PortfolioType, LedgerType
<1>11. QED
  BY <1>2, <1>8, <1>10 DEF Q

LEMMA TimeIs ==
  ASSUME NEW L \in LedgerType, NEW at \in Int
  PROVE  LET M == [L EXCEPT !.asOf = at]
         IN  /\ M \in LedgerType /\ M.asOf = at
             /\ \A f \in DOMAIN L \ {"asOf"} : M[f] = L[f]
             /\ M.orders = L.orders /\ M.holdings = L.holdings /\ M.cash = L.cash
             /\ M.realized = L.realized /\ M.initial = L.initial /\ M.sealed = L.sealed
             /\ M.books = L.books /\ M.healthy = L.healthy
BY DEF LedgerType

(* Stamping a ledger changes its time and its peak.                        *)
LEMMA StampedIs ==
  ASSUME NEW L \in LedgerType, NEW at \in Int
  PROVE  LET M == Stamped(L, at)
         IN  /\ M \in LedgerType /\ M.asOf = at
             /\ M.orders = L.orders /\ M.holdings = L.holdings /\ M.cash = L.cash
             /\ M.realized = L.realized /\ M.initial = L.initial /\ M.sealed = L.sealed
             /\ M.books = L.books /\ M.healthy = L.healthy
<1> DEFINE N == [L EXCEPT !.asOf = at]
           p == Snapshot(N).peak
           M == Stamped(L, at)
<1>1. N \in LedgerType
  BY TimeIs
<1>2. p \in Int
  BY <1>1, SnapshotIs DEF PortfolioType
<1>3. M = [N EXCEPT !.peak = p]
  BY DEF Stamped
<1> HIDE DEF p
<1>4. M = [L EXCEPT !.asOf = at, !.peak = p]
  BY <1>3
<1> HIDE DEF M, N
<1>5. QED
  BY <1>2, <1>4 DEF LedgerType, M

(* The same orders, holdings and cash are the same money.                  *)
LEMMA SameMoneyKeeps ==
  ASSUME NEW L \in LedgerType, Solvent(L), NEW M \in LedgerType, M.orders = L.orders,
         M.holdings = L.holdings, M.cash = L.cash, M.realized = L.realized, M.initial = L.initial
  PROVE  Kept(L, M)
<1>1. Basis(M) = Basis(L) /\ \A k \in Instruments : Held(M, k) = Held(L, k)
  BY DEF Basis, Held
<1>2. QED
  BY <1>1, ClosingKeeps

LEMMA PutIs ==
  ASSUME NEW S, NEW T, NEW f \in Partial(S, T), NEW k \in S, NEW v \in T
  PROVE  /\ Put(f, k, v) \in Partial(S, T)
         /\ DOMAIN Put(f, k, v) = DOMAIN f \cup {k} /\ Put(f, k, v)[k] = v
         /\ \A j \in DOMAIN f \ {k} : Put(f, k, v)[j] = f[j]
<1>1. PICK D \in SUBSET S : f \in [D -> T]
  BY DEF Partial
<1>2. D \cup {k} \in SUBSET S /\ Put(f, k, v) \in [D \cup {k} -> T]
  BY <1>1 DEF Put
<1>3. QED
  BY <1>1, <1>2 DEF Partial, Put

LEMMA ObservedIs ==
  ASSUME NEW L \in LedgerType, Solvent(L), NEW book \in BookType, NEW at
  PROVE  LET M == Observed(L, book, at)
         IN  /\ Kept(L, M) /\ M.orders = L.orders
             /\ M.books[book.instrument].event = book.event
<1> DEFINE k == book.instrument
           cursor == [sequence |-> book.sequence, event |-> book.event, received |-> book.received]
           ok == Healthy(L, book, at)
           h == [L.holdings[k] EXCEPT !.mark = book.bids[1].price, !.markTime = book.event]
           B == Put(L.books, k, cursor)
           G == Put(L.healthy, k, ok)
           H == IF ok /\ k \in DOMAIN L.holdings
                THEN [L.holdings EXCEPT ![k].mark = book.bids[1].price, ![k].markTime = book.event]
                ELSE L.holdings
           M == Observed(L, book, at)
<1>1. k \in Instruments /\ book.event \in Int /\ book.bids[1].price \in Nat
  <2>1. book.bids[1] \in LevelType
    BY DEF BookType
  <2>2. QED
    BY <2>1 DEF BookType, LevelType
<1>2. B \in Partial(Instruments, CursorType) /\ B[k].event = book.event
  <2>1. cursor \in CursorType /\ cursor.event = book.event
    BY DEF BookType, CursorType
  <2>2. L.books \in Partial(Instruments, CursorType)
    BY DEF LedgerType
  <2> HIDE DEF cursor, k
  <2>3. B \in Partial(Instruments, CursorType)
    BY <1>1, <2>1, <2>2, PutIs
  <2>4. B[k] = cursor
    BY DEF Put
  <2>5. QED
    BY <2>1, <2>3, <2>4
<1>3. G \in Partial(Instruments, BOOLEAN)
  <2>1. ok \in BOOLEAN
    BY DEF Healthy
  <2>2. L.healthy \in Partial(Instruments, BOOLEAN)
    BY DEF LedgerType
  <2> HIDE DEF ok, k
  <2>3. QED
    BY <1>1, <2>1, <2>2, PutIs
<1>4. /\ H \in Partial(Instruments, HoldingType) /\ DOMAIN H = DOMAIN L.holdings
      /\ \A j \in DOMAIN L.holdings : /\ H[j].quantity = L.holdings[j].quantity
                                      /\ H[j].basis = L.holdings[j].basis
  <2>1. CASE ok /\ k \in DOMAIN L.holdings
    <3>1. L.holdings[k] \in HoldingType
      BY <2>1, HoldingsAre
    <3>2. h \in HoldingType /\ h.quantity = L.holdings[k].quantity /\ h.basis = L.holdings[k].basis
      BY <1>1, <3>1 DEF HoldingType
    <3>3. H = [L.holdings EXCEPT ![k] = h]
      BY <2>1
    <3> HIDE DEF H, h, k, ok
    <3>4. QED
      BY <2>1, <3>2, <3>3, HoldingsAre DEF Partial
  <2>2. CASE ~(ok /\ k \in DOMAIN L.holdings)
    <3>1. H = L.holdings
      BY <2>2
    <3>2. QED
      BY <3>1 DEF LedgerType
  <2>3. QED
    BY <2>1, <2>2
<1>5. M = [L EXCEPT !.books = B, !.healthy = G, !.holdings = H]
  BY DEF Observed
<1> HIDE DEF B, G, H, M
<1>6. M \in LedgerType
  BY <1>2, <1>3, <1>4, <1>5 DEF LedgerType
<1>7. /\ M.books = B /\ M.holdings = H /\ M.orders = L.orders /\ M.cash = L.cash
      /\ M.realized = L.realized /\ M.initial = L.initial
  BY <1>5 DEF LedgerType
<1>8. Basis(M) = Basis(L) /\ \A j \in Instruments : Held(M, j) = Held(L, j)
  BY <1>4, <1>7 DEF Basis, Held
<1>9. Kept(L, M)
  BY <1>6, <1>7, <1>8, ClosingKeeps
<1>10. QED
  BY <1>2, <1>7, <1>9 DEF M

LEMMA SettledInTurnIs ==
  ASSUME NEW L, NEW book, NEW at, NEW blocked, NEW N \in Nat, N = Len(L.orders)
  PROVE  LET f == SettledInTurn(L, book, at, blocked)
         IN  f[0] = Begun(L, book, at)
             /\ \A n \in 1..N : f[n] = Settle(f[n - 1], n, book, at, blocked)
<1> DEFINE Is(f, m) ==
             f = [n \in 0..m |-> IF n = 0 THEN Begun(L, book, at)
                                 ELSE Settle(f[n - 1], n, book, at, blocked)]
           T == {m \in 0..N : ~\E f : Is(f, m)}
<1>1. T = {}
  <2>1. SUFFICES ASSUME T # {} PROVE FALSE
    OBVIOUS
  <2>2. PICK m \in T : \A y \in T : m <= y
    <3> HIDE DEF Is
    <3>1. T \in SUBSET Nat
      OBVIOUS
    <3>2. QED
      BY <2>1, <3>1, LeastExists
  <2>3. CASE m = 0
    <3> DEFINE g == [n \in 0..0 |-> Begun(L, book, at)]
    <3>1. Is(g, 0)
      OBVIOUS
    <3>2. QED
      BY <2>2, <2>3, <3>1
  <2>4. CASE m # 0
    <3>1. m - 1 \in 0..N /\ m - 1 \notin T
      <4> HIDE DEF Is
      <4>1. QED
        BY <2>2, <2>4
    <3>2. PICK f : Is(f, m - 1)
      BY <3>1
    <3> DEFINE g == [n \in 0..m |-> IF n = m THEN Settle(f[m - 1], m, book, at, blocked) ELSE f[n]]
    <3>3. Is(g, m)
      BY <2>4, <3>2
    <3>4. QED
      BY <2>2, <3>3
  <2>5. QED
    BY <2>3, <2>4
<1>2. \E f : Is(f, N)
  BY <1>1
<1>3. Is(SettledInTurn(L, book, at, blocked), N)
  BY <1>2 DEF SettledInTurn
<1>4. QED
  BY <1>3

(* What is over stays as it ended.                                         *)
Final(L, M) ==
  \A i \in DOMAIN L.orders :
    L.orders[i].status # "submitted" => i \in DOMAIN M.orders /\ M.orders[i] = L.orders[i]

LEMMA SettleLeaves ==
  ASSUME NEW s, NEW i, s.ledger.orders[i].status # "submitted", NEW book, NEW at, NEW blocked
  PROVE  Settle(s, i, book, at, blocked) = s
BY DEF Settle

(* Nothing fails, and an order is filled only where every condition holds. *)
Settles(L, book, at, blocked, m) ==
  /\ m.broken = FALSE /\ Kept(L, m.ledger) /\ m.ledger.asOf = at /\ Final(L, m.ledger)
  /\ m.ledger.books[book.instrument].event = book.event
  /\ \A i \in DOMAIN L.orders :
       /\ m.ledger.orders[i].status = "submitted" => m.ledger.orders[i] = L.orders[i]
       /\ \/ Fillable(m.ledger, L.orders[i], book, at, blocked)
          \/ m.ledger.orders[i].filled = L.orders[i].filled

LEMMA MarketIs ==
  ASSUME NEW L \in LedgerType, Solvent(L), NEW book \in BookType, NEW at \in Int, NEW blocked
  PROVE  Settles(L, book, at, blocked, Market(L, book, at, blocked))
<1> DEFINE N == Len(L.orders)
           f == SettledInTurn(L, book, at, blocked)
           B == Observed(L, book, at)
           Turned(n, t) ==
             /\ DOMAIN t = Stages /\ t.broken = FALSE /\ Kept(B, t.ledger)
             /\ t.ledger.books = B.books /\ t.ledger.healthy = B.healthy /\ Final(L, t.ledger)
             /\ \A i \in DOMAIN L.orders : i > n => t.ledger.orders[i] = L.orders[i]
             /\ \A i \in DOMAIN L.orders :
                  /\ t.ledger.orders[i].status = "submitted" => t.ledger.orders[i] = L.orders[i]
                  /\ \/ Fillable(B, L.orders[i], book, at, blocked)
                     \/ t.ledger.orders[i].filled = L.orders[i].filled
           T == {n \in 0..N : ~Turned(n, f[n])}
<1>1. N \in Nat /\ DOMAIN L.orders = 1..N
  BY OrdersAre
<1>2. /\ f[0] = Begun(L, book, at)
      /\ \A n \in 1..N : f[n] = Settle(f[n - 1], n, book, at, blocked)
  BY <1>1, SettledInTurnIs
<1>3. /\ B \in LedgerType /\ Solvent(B) /\ Kept(L, B) /\ B.orders = L.orders
      /\ B.books[book.instrument].event = book.event
  BY ObservedIs DEF Kept
<1> HIDE DEF f, B, N
<1>4. Turned(0, f[0])
  <2>1. DOMAIN f[0] = Stages /\ f[0].broken = FALSE /\ f[0].ledger = B
    BY <1>2 DEF Begun, Stages, B
  <2>2. Kept(B, B)
    BY <1>3, KeptIsReflexive
  <2>3. Final(L, B)
    BY <1>3 DEF Final
  <2>4. QED
    BY <2>1, <2>2, <2>3, <1>3
<1>5. ASSUME NEW n \in 1..N, Turned(n - 1, f[n - 1]) PROVE Turned(n, f[n])
  <2>1. PICK s : s = f[n - 1]
    OBVIOUS
  <2>2. DOMAIN s = Stages /\ s.broken = FALSE /\ Kept(B, s.ledger)
        /\ s.ledger \in LedgerType /\ Solvent(s.ledger)
        /\ DOMAIN s.ledger.orders = 1..N
    BY <1>1, <1>3, <1>5, <2>1 DEF Kept, SameOrders
  <2>3. PICK t : t = Settle(s, n, book, at, blocked)
    OBVIOUS
  <2>4. f[n] = t
    BY <1>2, <2>1, <2>3
  <2>5. /\ SettledOnly(n, s, t)
        /\ \/ Fillable(s.ledger, s.ledger.orders[n], book, at, blocked)
           \/ t.ledger.orders[n].filled = s.ledger.orders[n].filled
    <3> HIDE DEF Turned
    <3>1. n \in DOMAIN s.ledger.orders
      BY <2>2
    <3> HIDE DEF T
    <3>2. SettledOnly(n, s, Settle(s, n, book, at, blocked))
      BY <2>2, <3>1, SettleKeeps
    <3>3. Justified(s.ledger, Settle(s, n, book, at, blocked).ledger, n, book, at, blocked)
      BY <2>2, <3>1, SettleKeeps
    <3>4. QED
      BY <2>3, <3>2, <3>3 DEF Justified
  <2>6. Kept(B, t.ledger)
    BY <1>3, <2>2, <2>5, KeptIsTransitive DEF SettledOnly
  <2>7. s.ledger.orders[n] = L.orders[n]
    BY <1>1, <1>5, <2>1
  <2>8. s.ledger.healthy = B.healthy
    BY <1>5, <2>1
  <2>9. Fillable(s.ledger, L.orders[n], book, at, blocked)
          => Fillable(B, L.orders[n], book, at, blocked)
    BY <2>8 DEF Fillable
  <2>10. \A i \in DOMAIN L.orders : i > n => t.ledger.orders[i] = L.orders[i]
    <3>1. \A i \in DOMAIN L.orders : i > n => i > n - 1 /\ i # n
      BY <1>1
    <3>2. QED
      BY <3>1, <1>1, <1>5, <2>1, <2>2, <2>5 DEF SettledOnly
  <2>11. ASSUME NEW i \in DOMAIN L.orders
         PROVE /\ t.ledger.orders[i].status = "submitted" => t.ledger.orders[i] = L.orders[i]
               /\ \/ Fillable(B, L.orders[i], book, at, blocked)
                  \/ t.ledger.orders[i].filled = L.orders[i].filled
    <3>1. CASE i = n
      BY <3>1, <2>5, <2>7, <2>9 DEF SettledOnly
    <3>2. CASE i # n
      <4>1. t.ledger.orders[i] = s.ledger.orders[i]
        BY <3>2, <1>1, <2>2, <2>5 DEF SettledOnly
      <4>2. QED
        BY <4>1, <1>5, <2>1
    <3>3. QED
      BY <3>1, <3>2
  <2>12. Final(L, t.ledger)
    <3>1. DOMAIN t.ledger.orders = DOMAIN s.ledger.orders /\ Final(L, s.ledger)
      BY <1>5, <2>1, <2>5 DEF SettledOnly, Kept, SameOrders
    <3>2. ASSUME NEW i \in DOMAIN L.orders, L.orders[i].status # "submitted"
          PROVE  i \in DOMAIN t.ledger.orders /\ t.ledger.orders[i] = L.orders[i]
      <4>1. i \in DOMAIN s.ledger.orders /\ s.ledger.orders[i] = L.orders[i]
        BY <3>1, <3>2 DEF Final
      <4>2. CASE i = n
        <5>1. t = s
          BY <4>1, <4>2, <3>2, <2>3, SettleLeaves
        <5>2. QED
          BY <4>1, <5>1
      <4>3. CASE i # n
        BY <4>1, <4>3, <3>1, <2>5 DEF SettledOnly
      <4>4. QED
        BY <4>2, <4>3
    <3>3. QED
      BY <3>2 DEF Final
  <2>13. QED
    BY <1>5, <2>1, <2>4, <2>5, <2>6, <2>10, <2>11, <2>12 DEF SettledOnly
<1>6. T = {}
  <2> HIDE DEF Turned
  <2>1. SUFFICES ASSUME T # {} PROVE FALSE
    OBVIOUS
  <2>2. T \in SUBSET Nat
    OBVIOUS
  <2>3. PICK m \in T : \A y \in T : m <= y
    BY <2>1, <2>2, LeastExists
  <2>4. m \in 1..N /\ m - 1 \in 0..N /\ m - 1 \notin T
    BY <1>1, <1>4, <2>3
  <2>5. QED
    BY <1>5, <2>3, <2>4
<1>7. PICK t : t = f[N]
  OBVIOUS
<1>8. Turned(N, t)
  BY <1>1, <1>6, <1>7
<1> DEFINE M == Stamped(t.ledger, at)
<1>9. t.ledger \in LedgerType /\ Solvent(t.ledger)
  BY <1>8 DEF Kept
<1>10. /\ M \in LedgerType /\ M.asOf = at /\ M.orders = t.ledger.orders
       /\ M.holdings = t.ledger.holdings /\ M.cash = t.ledger.cash
       /\ M.realized = t.ledger.realized /\ M.initial = t.ledger.initial
       /\ M.books = t.ledger.books /\ M.healthy = t.ledger.healthy
  BY <1>9, StampedIs
<1>11. Market(L, book, at, blocked).ledger = M /\ Market(L, book, at, blocked).broken = FALSE
  BY <1>7, <1>8 DEF Market, f, N
<1> HIDE DEF M
<1>12. Kept(L, M)
  <2>1. Kept(t.ledger, M)
    BY <1>9, <1>10, SameMoneyKeeps
  <2>2. Kept(B, M)
    BY <1>3, <1>8, <2>1, KeptIsTransitive
  <2>3. QED
    BY <1>3, <2>2, KeptIsTransitive
<1>13. \A i \in DOMAIN L.orders :
         Fillable(B, L.orders[i], book, at, blocked) => Fillable(M, L.orders[i], book, at, blocked)
  BY <1>8, <1>10 DEF Fillable
<1>14. Final(L, M)
  BY <1>8, <1>10 DEF Final
<1>15. QED
  BY <1>3, <1>8, <1>10, <1>11, <1>12, <1>13, <1>14 DEF Settles

-------------------------------------------------------------------------------
(* The session's verdicts *)

EntryType ==
  [request : Requests, approved : Nat, quantity : Nat, debit : Nat, cost : Nat, expires : Int,
   token : Nat, terminal : BOOLEAN, issued : BOOLEAN]

SessionType == [portfolio : PortfolioType, controls : ControlType, entries : Seq(EntryType)]

LEMMA EntriesAre ==
  ASSUME NEW S \in SessionType
  PROVE  /\ S.entries \in Seq(EntryType) /\ Len(S.entries) \in Nat
         /\ DOMAIN S.entries = 1..Len(S.entries) /\ IsFiniteSet(DOMAIN S.entries)
         /\ \A i \in DOMAIN S.entries : S.entries[i] \in EntryType
<1>1. S.entries \in Seq(EntryType)
  BY DEF SessionType
<1>2. DOMAIN S.entries = 1..Len(S.entries) /\ Len(S.entries) \in Nat
  BY <1>1
<1>3. IsFiniteSet(DOMAIN S.entries)
  <2>1. PICK n \in Nat : n = Len(S.entries)
    BY <1>2
  <2>2. n \in Int /\ 1 \in Int
    OBVIOUS
  <2>3. IsFiniteSet(1..n)
    BY <2>2, FS_Interval
  <2>4. QED
    BY <1>2, <2>1, <2>3
<1>4. QED
  BY <1>1, <1>2, <1>3

LEMMA RequestsAre ==
  ASSUME NEW r \in Requests
  PROVE  /\ r.instrument \in Instruments /\ r.side \in Sides /\ r.intent \in Intents
         /\ r.notional \in Nat /\ r.bid \in Nat /\ r.ask \in Nat /\ r.size \in Nat
         /\ r.expires \in Int /\ r.observed \in Int /\ Quote(r) \in Nat
BY TradingAssumption DEF Intents, Quote

LEMMA WorstPriceIs ==
  ASSUME NEW side, NEW quote \in Nat
  PROVE  WorstPrice(side, quote) \in Int
<1>1. BpsDen + SlipBps \in Nat /\ BpsDen - SlipBps \in Nat /\ BpsDen \in Nat \ {0}
  BY RatesAssumption
<1>2. quote * (BpsDen + SlipBps) \in Nat /\ quote * (BpsDen - SlipBps) \in Nat
  BY <1>1
<1>3. CeilDiv(quote * (BpsDen + SlipBps), BpsDen) \in Nat
  BY <1>1, <1>2, CeilDivIs
<1>4. (quote * (BpsDen - SlipBps)) \div BpsDen \in Int
  BY <1>1, <1>2
<1>5. QED
  BY <1>3, <1>4 DEF WorstPrice

LEMMA QuantityIs ==
  ASSUME NEW r \in Requests, WorstPrice(r.side, Quote(r)) > 0, NEW amount \in Nat
  PROVE  Quantity(r, amount) \in Nat
<1> DEFINE p == WorstPrice(r.side, Quote(r))
<1>1. p \in Nat \ {0}
  BY RequestsAre, WorstPriceIs
<1> HIDE DEF p
<1>2. amount \div p \in Nat
  <2> DEFINE m == amount \div p
  <2>1. m \in Int /\ m * p <= amount /\ amount < (m + 1) * p
    BY <1>1
  <2>2. ASSUME m + 1 <= 0 PROVE FALSE
    <3>1. (m + 1) * p <= 0
      BY <1>1, <2>1, <2>2
    <3>2. QED
      BY <3>1, <1>1, <2>1
  <2>3. QED
    BY <2>1, <2>2
<1>3. CeilDiv(amount, p) \in Nat
  BY <1>1, CeilDivIs
<1>4. QED
  BY <1>2, <1>3 DEF Quantity, p

(* An approval names an amount that breaks no limit, now.                  *)
LEMMA ApprovedIs ==
  ASSUME NEW S, NEW r \in Requests, NEW at
  PROVE  LET amount == Approved(S, r, at)
         IN  /\ amount \in Nat
             /\ amount # 0 =>
                  /\ Permitted(S, r, at)
                  /\ WorstPrice(r.side, Quote(r)) > 0
                  /\ Quantity(r, amount) \in Nat \ {0}
                  /\ Acceptable(S, Available(S, r.intent), r, amount)
<1> DEFINE A == Available(S, r.intent)
           steps == AcceptableSteps(S, A, r)
           n == Largest(steps)
           most == r.notional \div Increment
           amount == Approved(S, r, at)
<1>1. Increment \in Nat \ {0} /\ r.notional \in Nat
  BY RiskAssumption, RequestsAre
<1>2. most \in Nat
  BY <1>1
<1>3. steps \in SUBSET (0..most)
  BY DEF AcceptableSteps
<1>4. n \in steps \cup {0} /\ n \in Nat
  BY <1>2, <1>3, LargestIs
<1>5. Increment * n \in Nat /\ n * Increment = Increment * n
  BY <1>1, <1>4
<1>6. n \in steps => Acceptable(S, A, r, n * Increment)
  BY DEF AcceptableSteps
<1> HIDE DEF A, n, most
<1>7. Approvable(S, A, r) \in {0, Increment * n}
      /\ (Approvable(S, A, r) # 0 => /\ Approvable(S, A, r) = Increment * n /\ Increment * n > 0
                                     /\ Quantity(r, Increment * n) > 0)
  BY DEF Approvable, n
<1>8. amount \in Nat /\ (amount # 0 => amount = Approvable(S, A, r) /\ Permitted(S, r, at)
                                       /\ WorstPrice(r.side, Quote(r)) > 0)
  BY <1>5, <1>7 DEF Approved, A
<1>9. ASSUME amount # 0
      PROVE  Quantity(r, amount) \in Nat \ {0} /\ Acceptable(S, A, r, amount)
  <2>1. amount = Increment * n /\ amount > 0 /\ Quantity(r, amount) > 0
    BY <1>7, <1>8, <1>9
  <2>2. n # 0
    BY <1>1, <2>1
  <2>3. Acceptable(S, A, r, amount)
    BY <1>4, <1>5, <1>6, <2>1, <2>2
  <2>4. Quantity(r, amount) \in Nat
    BY <1>8, <1>9, QuantityIs
  <2>5. QED
    BY <2>1, <2>3, <2>4
<1>10. QED
  BY <1>8, <1>9 DEF A

(* What an entry with an approval holds.                                   *)
EntryIsSound(e) ==
  /\ e.issued => e.approved # 0
  /\ e.debit = IF e.approved = 0 THEN 0 ELSE Debit(e.request.side, e.approved)
  /\ e.cost = IF e.approved = 0 THEN 0 ELSE Fee(e.approved)

LEMMA EarliestIs ==
  ASSUME NEW a \in Int, NEW b \in Int, NEW c \in Int, NEW d \in Int
  PROVE  /\ Earliest({a, b, c, d}) \in Int
         /\ \A t \in {a, b, c, d} : Earliest({a, b, c, d}) <= t
<1> DEFINE T == {a, b, c, d}
<1>1. \E t \in T : \A u \in T : t <= u
  <2>1. PICK x \in {a, b} : x <= a /\ x <= b
    OBVIOUS
  <2>2. PICK y \in {c, d} : y <= c /\ y <= d
    OBVIOUS
  <2>3. PICK z \in {x, y} : z <= x /\ z <= y
    OBVIOUS
  <2>4. QED
    BY <2>1, <2>2, <2>3
<1>2. Earliest(T) \in T /\ \A u \in T : Earliest(T) <= u
  BY <1>1 DEF Earliest
<1>3. QED
  BY <1>2

LEMMA NewEntryIs ==
  ASSUME NEW S \in SessionType, NEW r \in Requests, NEW at \in Int,
         NEW e, e = NewEntry(S, r, Approved(S, r, at), at)
  PROVE  /\ e \in EntryType /\ EntryIsSound(e)
         /\ e.request = r /\ e.approved = Approved(S, r, at) /\ ~e.issued /\ ~e.terminal
         /\ e.approved # 0 => e.quantity = Quantity(r, e.approved)
<1> DEFINE a == Approved(S, r, at)
           q == IF a = 0 THEN 0 ELSE Quantity(r, a)
           d == IF a = 0 THEN 0 ELSE Debit(r.side, a)
           c == IF a = 0 THEN 0 ELSE Fee(a)
           x == Earliest({r.expires, S.controls.validUntil, S.controls.leaseExpires, at + ApprovalAge})
<1>1. a \in Nat /\ (a # 0 => Quantity(r, a) \in Nat)
  BY ApprovedIs
<1>2. q \in Nat /\ d \in Nat /\ c \in Nat
  BY <1>1, DebitIs, FeeIs
<1>3. S.controls.token \in Nat /\ S.controls.validUntil \in Int /\ S.controls.leaseExpires \in Int
  BY DEF SessionType, ControlType
<1>4. at + ApprovalAge \in Int
  BY RiskAssumption
<1>5. x \in Int
  BY <1>3, <1>4, RequestsAre, EarliestIs
<1>6. e = [request |-> r, approved |-> a, quantity |-> q, debit |-> d, cost |-> c, expires |-> x,
           token |-> S.controls.token, terminal |-> FALSE, issued |-> FALSE]
  BY DEF NewEntry
<1> DEFINE token == S.controls.token
<1> HIDE DEF a, q, d, c, x, token
<1>7. e \in EntryType
  BY <1>1, <1>2, <1>3, <1>5, <1>6 DEF EntryType, token
<1>8. EntryIsSound(e)
  BY <1>6 DEF EntryIsSound, d, c
<1>9. QED
  BY <1>6, <1>7, <1>8 DEF a, q

LEMMA EvaluateIs ==
  ASSUME NEW S \in SessionType, NEW r \in Requests, NEW at \in Int,
         NEW n \in Nat, n = Len(S.entries), NEW T, T = Evaluate(S, r, at)
  PROVE  /\ T \in SessionType /\ T.portfolio = S.portfolio /\ T.controls = S.controls
         /\ Len(T.entries) = n + 1 /\ DOMAIN T.entries = 1..(n + 1)
         /\ DOMAIN S.entries = 1..n /\ \A i \in 1..n : T.entries[i] = S.entries[i]
         /\ T.entries[n + 1] = NewEntry(S, r, Approved(S, r, at), at)
<1> DEFINE e == NewEntry(S, r, Approved(S, r, at), at)
<1>1. e \in EntryType
  BY NewEntryIs
<1>2. T = [S EXCEPT !.entries = Append(S.entries, e)]
  BY DEF Evaluate, SessionType
<1> HIDE DEF e
<1>3. Append(S.entries, e) \in Seq(EntryType) /\ S.entries \in Seq(EntryType)
  BY <1>1, EntriesAre
<1>4. T \in SessionType /\ T.portfolio = S.portfolio /\ T.controls = S.controls
      /\ T.entries = Append(S.entries, e)
  BY <1>2, <1>3 DEF SessionType
<1>5. QED
  BY <1>1, <1>3, <1>4 DEF e

SameEntry(e, f) ==
  /\ f.request = e.request /\ f.approved = e.approved /\ f.quantity = e.quantity
  /\ f.debit = e.debit /\ f.cost = e.cost /\ f.expires = e.expires /\ f.token = e.token

HandedOff(S, i, issues, T) ==
  /\ T \in SessionType /\ T.portfolio = S.portfolio /\ T.controls = S.controls
  /\ DOMAIN T.entries = DOMAIN S.entries
  /\ \A j \in DOMAIN S.entries \ {i} : T.entries[j] = S.entries[j]
  /\ T.entries[i].issued <=> (S.entries[i].issued \/ issues)
  /\ SameEntry(S.entries[i], T.entries[i])

LEMMA HandoffIs ==
  ASSUME NEW S \in SessionType, NEW i \in DOMAIN S.entries, NEW token, NEW at
  PROVE  HandedOff(S, i, Issues(S, i, token, at), Handoff(S, i, token, at))
<1> DEFINE e == S.entries[i]
           a == e.terminal \/ Consumes(S, i, token)
           b == e.issued \/ Issues(S, i, token, at)
           f == [e EXCEPT !.terminal = a, !.issued = b]
           E == [S.entries EXCEPT ![i] = f]
           T == Handoff(S, i, token, at)
<1>1. e \in EntryType /\ S.entries \in Seq(EntryType)
  BY EntriesAre
<1>2. a \in BOOLEAN /\ b \in BOOLEAN
  OBVIOUS
<1>3. f \in EntryType /\ f.terminal = a /\ f.issued = b /\ SameEntry(e, f)
  <2> HIDE DEF e, a, b
  <2>1. QED
    BY <1>1, <1>2 DEF EntryType, SameEntry
<1>4. E \in Seq(EntryType) /\ Len(E) = Len(S.entries) /\ DOMAIN E = DOMAIN S.entries
  <2> HIDE DEF f
  <2>1. QED
    BY <1>1, <1>3
<1>5. T = [S EXCEPT !.entries = E]
  BY DEF Handoff, SessionType
<1>6. T \in SessionType /\ T.portfolio = S.portfolio /\ T.controls = S.controls /\ T.entries = E
  <2> HIDE DEF E
  <2>1. QED
    BY <1>4, <1>5 DEF SessionType
<1>7. T.entries[i] = f /\ \A j \in DOMAIN S.entries \ {i} : T.entries[j] = S.entries[j]
  BY <1>6
<1> HIDE DEF E, f, T
<1>8. HandedOff(S, i, Issues(S, i, token, at), T)
  BY <1>3, <1>4, <1>6, <1>7 DEF HandedOff
<1>9. QED
  BY <1>8 DEF T

-------------------------------------------------------------------------------
(* Submitting an order *)

PermitType ==
  [intent : Intents, instrument : Instruments, side : Sides, portfolio : PortfolioType,
   token : Nat, approved : Nat, quantity : Nat, debit : Nat, approvedAt : Int, expires : Int]

Untouched(L) == \A i \in OpenOrders(L) : L.orders[i].filled = 0

SoldBy(o, k) == IF o.side = "sell" /\ o.instrument = k THEN o.target ELSE 0

LEMMA TargetIs ==
  ASSUME NEW permit \in PermitType
  PROVE  Target(permit) \in Nat /\ Target(permit) <= permit.quantity
<1> DEFINE q == permit.quantity
           m == q \div Lot
<1>1. q \in Nat /\ Lot \in Nat \ {0}
  BY LedgerAssumption DEF PermitType
<1> HIDE DEF q
<1>2. m \in Int /\ m * Lot <= q /\ q < (m + 1) * Lot
  BY <1>1
<1>3. ASSUME m + 1 <= 0 PROVE FALSE
  <2>1. (m + 1) * Lot <= 0
    BY <1>1, <1>2, <1>3
  <2>2. QED
    BY <2>1, <1>1, <1>2
<1>4. m \in Nat
  BY <1>2, <1>3
<1>5. m * Lot \in Nat
  BY <1>1, <1>4
<1>6. QED
  BY <1>2, <1>5 DEF Target, q

LEMMA NewOrderIs ==
  ASSUME NEW permit \in PermitType, NEW at \in Int
  PROVE  LET o == NewOrder(permit, at)
         IN  /\ o \in OrderType /\ InBounds(o)
             /\ o.intent = permit.intent /\ o.instrument = permit.instrument /\ o.side = permit.side
             /\ o.token = permit.token /\ o.approved = permit.approved /\ o.maxDebit = permit.debit
             /\ o.target = Target(permit) /\ o.filled = 0 /\ o.debit = 0
<1> DEFINE t == Target(permit)
           st == IF t <= 0 \/ permit.approved < MinNotional THEN "rejected" ELSE "submitted"
           o == NewOrder(permit, at)
<1>1. t \in Nat
  BY TargetIs
<1>2. st \in Statuses
  BY DEF Statuses
<1>3. o = [intent |-> permit.intent, instrument |-> permit.instrument, side |-> permit.side,
           token |-> permit.token, expires |-> permit.expires, approved |-> permit.approved,
           maxDebit |-> permit.debit, target |-> t, status |-> st, submitted |-> at,
           filled |-> 0, gross |-> 0, debit |-> 0]
  BY DEF NewOrder
<1> HIDE DEF t, st, o
<1>4. o \in OrderType
  BY <1>1, <1>2, <1>3 DEF OrderType, PermitType
<1>5. InBounds(o)
  BY <1>1, <1>3 DEF InBounds, PermitType
<1>6. QED
  BY <1>3, <1>4, <1>5 DEF o, t

(* A new order promises no more than was free.                             *)
LEMMA SubmitIs ==
  ASSUME NEW L \in LedgerType, Solvent(L), Untouched(L), NEW permit \in PermitType, NEW at \in Int,
         Submittable(L, permit, at), NEW o, o = NewOrder(permit, at),
         NEW M, M = Submit(L, permit, at)
  PROVE  /\ M \in LedgerType /\ Solvent(M) /\ Untouched(M)
         /\ M.orders = Append(L.orders, o)
         /\ Slack(M) >= Slack(L) - o.maxDebit
         /\ \A k \in Instruments : Spare(M, k) >= Spare(L, k) - SoldBy(o, k)
         /\ Worth(M) = Worth(L) /\ M.initial = L.initial /\ M.asOf = at
<1> DEFINE N == [L EXCEPT !.orders = Append(L.orders, o)]
           n == Len(L.orders) + 1
<1>1. o \in OrderType /\ InBounds(o) /\ o.filled = 0 /\ o.debit = 0 /\ o.side = permit.side
      /\ o.instrument = permit.instrument /\ o.maxDebit = permit.debit /\ o.target = Target(permit)
      /\ o.maxDebit \in Nat /\ o.target \in Nat
  BY NewOrderIs DEF OrderType
<1>2. L.orders \in Seq(OrderType) /\ Len(L.orders) \in Nat /\ DOMAIN L.orders = 1..Len(L.orders)
  BY OrdersAre
<1>3. /\ Append(L.orders, o) \in Seq(OrderType)
      /\ DOMAIN Append(L.orders, o) = (DOMAIN L.orders) \cup {n} /\ n \notin DOMAIN L.orders
      /\ Append(L.orders, o)[n] = o
      /\ \A i \in DOMAIN L.orders : Append(L.orders, o)[i] = L.orders[i]
  BY <1>1, <1>2
<1>4. N \in LedgerType
  BY <1>3 DEF LedgerType
<1>5. M = Stamped(N, at)
  BY DEF Submit, LedgerType
<1> HIDE DEF N
<1>6. /\ M \in LedgerType /\ M.asOf = at /\ M.orders = N.orders /\ M.holdings = N.holdings
      /\ M.cash = N.cash /\ M.realized = N.realized /\ M.initial = N.initial
  BY <1>4, <1>5, StampedIs
<1>7. /\ M.orders = Append(L.orders, o) /\ M.holdings = L.holdings /\ M.cash = L.cash
      /\ M.realized = L.realized /\ M.initial = L.initial
  BY <1>6 DEF N, LedgerType
<1> HIDE DEF n
<1>8. \A i \in DOMAIN M.orders : InBounds(M.orders[i])
  BY <1>1, <1>3, <1>7 DEF Solvent
<1>9. \A i \in DOMAIN L.orders : InBounds(L.orders[i])
  BY DEF Solvent
<1>10. OpenOrders(M) = OpenOrders(L) \cup (IF o.status = "submitted" THEN {n} ELSE {})
  BY <1>3, <1>7 DEF OpenOrders
<1>11. Untouched(M)
  BY <1>1, <1>3, <1>7, <1>10 DEF Untouched, OpenOrders
<1>12. /\ IsFiniteSet(OpenOrders(L)) /\ Due(L) \in [OpenOrders(L) -> Nat] /\ Total(Due(L)) \in Nat
       /\ Due(M) \in [OpenOrders(M) -> Nat] /\ Total(Due(M)) \in Nat /\ n \notin OpenOrders(L)
       /\ \A k : /\ IsFiniteSet(Sells(L, k)) /\ Left(L, k) \in [Sells(L, k) -> Nat]
                 /\ Left(M, k) \in [Sells(M, k) -> Nat] /\ n \notin Sells(L, k)
                 /\ Total(Left(L, k)) \in Nat /\ Total(Left(M, k)) \in Nat
  <2>1. /\ OpenOrders(L) \subseteq DOMAIN L.orders /\ IsFiniteSet(OpenOrders(L))
        /\ Due(L) \in [OpenOrders(L) -> Nat] /\ Total(Due(L)) \in Nat
        /\ \A k : /\ Sells(L, k) \subseteq DOMAIN L.orders /\ IsFiniteSet(Sells(L, k))
                  /\ Left(L, k) \in [Sells(L, k) -> Nat] /\ Total(Left(L, k)) \in Nat
    BY <1>9, DuesAre
  <2>2. /\ Due(M) \in [OpenOrders(M) -> Nat] /\ Total(Due(M)) \in Nat
        /\ \A k : Left(M, k) \in [Sells(M, k) -> Nat] /\ Total(Left(M, k)) \in Nat
    BY <1>6, <1>8, DuesAre
  <2>3. n \notin OpenOrders(L) /\ \A k : n \notin Sells(L, k)
    BY <1>3, <2>1
  <2>4. QED
    BY <2>1, <2>2, <2>3
<1>13. \A i \in OpenOrders(L) : Due(M)[i] = Due(L)[i]
  BY <1>3, <1>7, <1>10 DEF Due, OpenOrders
<1>14. \/ o.status # "submitted" /\ Total(Due(M)) = Total(Due(L))
       \/ o.status = "submitted" /\ Total(Due(M)) = Total(Due(L)) + o.maxDebit
  <2>1. CASE o.status # "submitted"
    <3>1. Due(M) = Due(L)
      BY <2>1, <1>10, <1>12, <1>13
    <3>2. QED
      BY <2>1, <3>1
  <2>2. CASE o.status = "submitted"
    <3>1. OpenOrders(M) = OpenOrders(L) \cup {n}
      BY <2>2, <1>10
    <3>2. Total(Due(M)) = Total(Due(L)) + Due(M)[n]
      BY <3>1, <1>12, <1>13, TotalAdd
    <3>3. Due(M)[n] = o.maxDebit
      BY <3>1, <1>1, <1>3, <1>7 DEF Due
    <3>4. QED
      BY <2>2, <3>2, <3>3
  <2>3. QED
    BY <2>1, <2>2
<1>15. L.cash \in Int /\ \A k \in Instruments : Held(L, k) \in Nat /\ Held(M, k) = Held(L, k)
  BY <1>7, HoldingsAre DEF LedgerType, Held
<1>16. Reserved(L) = Total(Due(L))
  BY DEF Reserved, Due
<1>17. Slack(M) >= Slack(L) - o.maxDebit /\ Slack(M) >= 0
  <2>1. o.maxDebit <= L.cash - Total(Due(L))
    BY <1>1, <1>12, <1>15, <1>16 DEF Submittable
  <2>2. Slack(L) = L.cash - Total(Due(L)) /\ Slack(M) = L.cash - Total(Due(M))
    BY <1>7 DEF Slack
  <2>3. QED
    BY <2>1, <2>2, <1>1, <1>12, <1>14, <1>15
<1>18. ASSUME NEW k \in Instruments
       PROVE  Spare(M, k) >= Spare(L, k) - SoldBy(o, k) /\ Spare(M, k) >= 0
  <2>1. Sells(M, k) = Sells(L, k) \cup
          (IF o.status = "submitted" /\ o.side = "sell" /\ o.instrument = k THEN {n} ELSE {})
    BY <1>3, <1>7, <1>10 DEF Sells, OpenOrders
  <2>2. \A i \in Sells(L, k) : Left(M, k)[i] = Left(L, k)[i]
    BY <1>3, <1>7, <2>1 DEF Left, Sells, OpenOrders
  <2>3. Spare(L, k) = Held(L, k) - Total(Left(L, k)) /\ Spare(M, k) = Held(L, k) - Total(Left(M, k))
        /\ Spare(L, k) >= 0
    BY <1>15 DEF Spare, Solvent
  <2>4. SoldBy(o, k) \in Nat
    BY <1>1 DEF SoldBy
  <2>5. CASE ~(o.status = "submitted" /\ o.side = "sell" /\ o.instrument = k)
    <3>1. Left(M, k) = Left(L, k)
      BY <2>1, <2>2, <2>5, <1>12
    <3>2. QED
      BY <2>3, <2>4, <3>1, <1>12, <1>15
  <2>6. CASE o.status = "submitted" /\ o.side = "sell" /\ o.instrument = k
    <3>1. Sells(M, k) = Sells(L, k) \cup {n}
      BY <2>1, <2>6
    <3>2. Total(Left(M, k)) = Total(Left(L, k)) + Left(M, k)[n]
      <4>1. PICK f, g, S : f = Left(L, k) /\ g = Left(M, k) /\ S = Sells(L, k)
        OBVIOUS
      <4>2. IsFiniteSet(S) /\ n \notin S /\ f \in [S -> Nat] /\ g \in [S \cup {n} -> Nat]
            /\ \A j \in S : g[j] = f[j]
        BY <1>12, <2>2, <3>1, <4>1
      <4>3. Total(g) = Total(f) + g[n]
        BY <4>2, TotalAdd
      <4>4. QED
        BY <4>1, <4>3
    <3>3. Left(M, k)[n] = o.target /\ SoldBy(o, k) = o.target
      BY <3>1, <2>6, <1>1, <1>3, <1>7 DEF Left, SoldBy
    <3>4. OpenSells(L, k) = Total(Left(L, k))
      <4>1. \A i \in Sells(L, k) : Left(L, k)[i] = L.orders[i].target
        <5>1. \A i \in Sells(L, k) : i \in DOMAIN L.orders /\ L.orders[i].filled = 0
          BY DEF Sells, Untouched, OpenOrders
        <5>2. \A i \in DOMAIN L.orders : L.orders[i].target \in Nat
          BY OrdersAre DEF OrderType
        <5>3. QED
          BY <5>1, <5>2 DEF Left
      <4>2. Left(L, k) = [i \in Sells(L, k) |-> L.orders[i].target]
        BY <4>1 DEF Left
      <4>3. QED
        BY <4>2 DEF OpenSells, Sells
    <3>5. o.target <= Held(L, k) - Total(Left(L, k))
      BY <2>6, <3>4, <1>1 DEF Submittable
    <3>6. QED
      BY <2>3, <3>2, <3>3, <3>5, <1>1, <1>12, <1>15
  <2>7. QED
    BY <2>5, <2>6
<1>19. Worth(M) = Worth(L)
  BY <1>7 DEF Worth, Basis
<1>20. QED
  BY <1>6, <1>7, <1>8, <1>11, <1>17, <1>18, <1>19 DEF Solvent

-------------------------------------------------------------------------------
(* The session and the ledger together *)

Owned(P, k) == IF k \in DOMAIN P.quantity THEN P.quantity[k] ELSE 0

Debits(L) == [i \in DOMAIN L.orders |-> L.orders[i].maxDebit]

SellOrders(L, k) == {i \in DOMAIN L.orders : L.orders[i].side = "sell" /\ L.orders[i].instrument = k}

SellTargets(L, k) == [i \in SellOrders(L, k) |-> L.orders[i].target]

(* An order has the entry that issued it behind it.                        *)
Backs(e, o) ==
  /\ e.issued
  /\ e.request.intent = o.intent /\ e.request.instrument = o.instrument /\ e.request.side = o.side
  /\ e.approved = o.approved /\ e.debit = o.maxDebit /\ o.target <= e.quantity

(* Whatever has been filled since, at least what the generation began with, less everything
   its orders may take, is still free.                                                     *)
Covered(L) ==
  /\ Slack(L) >= L.initial.cash - Total(Debits(L))
  /\ \A k \in Instruments : Spare(L, k) >= Owned(L.initial, k) - Total(SellTargets(L, k))

Sound(L) ==
  /\ L \in LedgerType /\ Solvent(L) /\ Untouched(L) /\ Covered(L)
  /\ \A i, j \in DOMAIN L.orders : L.orders[i].intent = L.orders[j].intent => i = j

Entered(S, I, D) ==
  /\ S \in SessionType
  /\ \A i \in DOMAIN S.entries : /\ EntryIsSound(S.entries[i])
                                 /\ S.entries[i].request.intent \in I
                                 /\ S.entries[i].request.decision \in D
  /\ \A i, j \in DOMAIN S.entries :
       \/ i = j
       \/ /\ S.entries[i].request.intent # S.entries[j].request.intent
          /\ S.entries[i].request.decision # S.entries[j].request.decision

Backed(L, S) ==
  /\ S.portfolio = L.initial
  /\ \A i \in DOMAIN L.orders : \E j \in DOMAIN S.entries : Backs(S.entries[j], L.orders[i])

Link(L, S, I, D) == Sound(L) /\ Entered(S, I, D) /\ Backed(L, S)

IInv ==
  /\ now \in Int /\ ledger.asOf <= now
  /\ Link(ledger, risk, intents, decisions)
  /\ Worth(ledger) = Worth(InitialLedger)
  /\ placed \in [DecisionIds -> Nat]
  /\ \A d \in DecisionIds : placed[d] <= 1 /\ (placed[d] = 1 => d \in decisions)

LEMMA SellTargetsAre ==
  ASSUME NEW L \in LedgerType
  PROVE  /\ Debits(L) \in [DOMAIN L.orders -> Nat] /\ Total(Debits(L)) \in Nat
         /\ \A k : /\ IsFiniteSet(SellOrders(L, k)) /\ SellOrders(L, k) \subseteq DOMAIN L.orders
                   /\ SellTargets(L, k) \in [SellOrders(L, k) -> Nat]
                   /\ Total(SellTargets(L, k)) \in Nat
<1>1. \A i \in DOMAIN L.orders : L.orders[i].maxDebit \in Nat /\ L.orders[i].target \in Nat
  BY OrdersAre DEF OrderType
<1>2. IsFiniteSet(DOMAIN L.orders)
  BY OrdersAre
<1>3. Debits(L) \in [DOMAIN L.orders -> Nat] /\ Total(Debits(L)) \in Nat
  <2>1. Debits(L) \in [DOMAIN L.orders -> Nat]
    BY <1>1 DEF Debits
  <2>2. QED
    BY <2>1, <1>2, UnitsFinite
<1>4. ASSUME NEW k
      PROVE  /\ IsFiniteSet(SellOrders(L, k)) /\ SellOrders(L, k) \subseteq DOMAIN L.orders
             /\ SellTargets(L, k) \in [SellOrders(L, k) -> Nat]
             /\ Total(SellTargets(L, k)) \in Nat
  <2>1. IsFiniteSet(SellOrders(L, k)) /\ SellOrders(L, k) \subseteq DOMAIN L.orders
    BY <1>2, FS_Subset DEF SellOrders
  <2>2. SellTargets(L, k) \in [SellOrders(L, k) -> Nat]
    BY <1>1, <2>1 DEF SellTargets
  <2>3. QED
    BY <2>1, <2>2, UnitsFinite
<1>5. QED
  BY <1>3, <1>4

(* The same orders, with more free than before, are still covered.         *)
LEMMA CoveredStays ==
  ASSUME NEW L \in LedgerType, Sound(L), NEW M, Kept(L, M), Untouched(M)
  PROVE  Sound(M)
<1>1. SameOrders(L, M) /\ M \in LedgerType /\ Solvent(M) /\ M.initial = L.initial
  BY DEF Kept
<1>2. DOMAIN M.orders = DOMAIN L.orders
      /\ \A i \in DOMAIN L.orders : /\ M.orders[i].intent = L.orders[i].intent
                                    /\ M.orders[i].maxDebit = L.orders[i].maxDebit
                                    /\ M.orders[i].target = L.orders[i].target
                                    /\ M.orders[i].side = L.orders[i].side
                                    /\ M.orders[i].instrument = L.orders[i].instrument
  BY <1>1 DEF SameOrders, SameOrder
<1>3. Debits(M) = Debits(L)
  BY <1>2 DEF Debits
<1>4. \A k : SellOrders(M, k) = SellOrders(L, k)
  BY <1>2 DEF SellOrders
<1>5. \A k : SellTargets(M, k) = SellTargets(L, k)
  BY <1>2, <1>4 DEF SellTargets, SellOrders
<1>6. /\ Slack(L) \in Int /\ Slack(M) \in Int
      /\ \A k \in Instruments : Spare(L, k) \in Int /\ Spare(M, k) \in Int /\ Owned(L.initial, k) \in Int
  <2>1. Total(Due(L)) \in Nat /\ Total(Due(M)) \in Nat /\ L.cash \in Int /\ M.cash \in Int
        /\ \A k : Total(Left(L, k)) \in Nat /\ Total(Left(M, k)) \in Nat
    BY <1>1, DuesAre DEF Sound, Solvent, LedgerType
  <2>2. \A k \in Instruments : Held(L, k) \in Nat /\ Held(M, k) \in Nat
    BY <1>1, HoldingsAre
  <2>3. \A k \in Instruments : Owned(L.initial, k) \in Int
    <3>1. L.initial.quantity \in Partial(Instruments, Nat)
      BY DEF LedgerType, PortfolioType
    <3>2. QED
      BY <3>1 DEF Owned, Partial
  <2>4. QED
    BY <2>1, <2>2, <2>3 DEF Slack, Spare
<1>7. Total(Debits(L)) \in Nat /\ \A k : Total(SellTargets(L, k)) \in Nat
  BY SellTargetsAre
<1>8. L.initial.cash \in Int
  BY DEF LedgerType, PortfolioType
<1>9. Covered(M)
  <2>1. Slack(M) >= L.initial.cash - Total(Debits(L))
    BY <1>6, <1>7, <1>8 DEF Kept, Sound, Covered
  <2>2. \A k \in Instruments : Spare(M, k) >= Owned(L.initial, k) - Total(SellTargets(L, k))
    BY <1>6, <1>7 DEF Kept, Sound, Covered
  <2>3. QED
    BY <2>1, <2>2, <1>1, <1>3, <1>5 DEF Covered
<1>10. QED
  BY <1>1, <1>2, <1>9 DEF Sound

LEMMA BackingStays ==
  ASSUME NEW L, NEW M, NEW S, Backed(L, S), SameOrders(L, M), M.initial = L.initial
  PROVE  Backed(M, S)
<1>1. DOMAIN M.orders = DOMAIN L.orders
      /\ \A i \in DOMAIN L.orders : SameOrder(L.orders[i], M.orders[i])
  BY DEF SameOrders
<1>2. ASSUME NEW i \in DOMAIN L.orders
      PROVE  \E j \in DOMAIN S.entries : Backs(S.entries[j], M.orders[i])
  <2>1. PICK j \in DOMAIN S.entries : Backs(S.entries[j], L.orders[i])
    BY DEF Backed
  <2>2. Backs(S.entries[j], M.orders[i])
    BY <1>1, <2>1 DEF Backs, SameOrder
  <2>3. QED
    BY <2>2
<1>3. QED
  BY <1>1, <1>2 DEF Backed

-------------------------------------------------------------------------------
(* What the session issues, the ledger takes *)

SellEntries(S, held, k) ==
  {i \in held : S.entries[i].request.instrument = k /\ S.entries[i].request.side = "sell"}

DebitsHeld(S, held) == [i \in held |-> S.entries[i].debit]
QuantitiesHeld(S, held) == [i \in held |-> S.entries[i].quantity]

LEMMA AvailableIs ==
  ASSUME NEW S, NEW x, NEW k
  PROVE  LET A == Available(S, x)
             held == Reserving(S, x)
         IN  /\ A.cash = S.portfolio.cash - Total(DebitsHeld(S, held))
             /\ Free(A, k) = IF k \in DOMAIN S.portfolio.quantity
                  THEN S.portfolio.quantity[k]
                         - Total(QuantitiesHeld(S, SellEntries(S, held, k)))
                  ELSE 0
<1> DEFINE A == Available(S, x)
           held == Reserving(S, x)
           free == [j \in DOMAIN S.portfolio.quantity |-> FreeQuantity(S, held, j)]
<1>1. A.cash = S.portfolio.cash - Sum(S, held, LAMBDA e : e.debit) /\ A.free = free
  BY DEF Available
<1>2. Sum(S, held, LAMBDA e : e.debit) = Total(DebitsHeld(S, held))
  BY DEF Sum, DebitsHeld
<1>3. Free(A, k) = IF k \in DOMAIN S.portfolio.quantity THEN FreeQuantity(S, held, k) ELSE 0
  BY <1>1 DEF Free
<1>4. k \in DOMAIN S.portfolio.quantity =>
        FreeQuantity(S, held, k)
          = S.portfolio.quantity[k] - Sum(S, SellEntries(S, held, k), LAMBDA e : e.quantity)
  BY DEF FreeQuantity, SellEntries
<1>5. Sum(S, SellEntries(S, held, k), LAMBDA e : e.quantity)
        = Total(QuantitiesHeld(S, SellEntries(S, held, k)))
  BY DEF Sum, QuantitiesHeld
<1>6. QED
  BY <1>1, <1>2, <1>3, <1>4, <1>5

(* Each order has an entry of its own behind it, which holds a reservation. *)
Behind(L, S, held, h) ==
  /\ h \in [DOMAIN L.orders -> held]
  /\ \A i, j \in DOMAIN L.orders : h[i] = h[j] => i = j
  /\ \A i \in DOMAIN L.orders : Backs(S.entries[h[i]], L.orders[i])

LEMMA EntriesBehind ==
  ASSUME NEW L, NEW S, NEW I, NEW D, Link(L, S, I, D), NEW x, x \notin I
  PROVE  \E h : Behind(L, S, Reserving(S, x), h)
<1> DEFINE held == Reserving(S, x)
           h == [i \in DOMAIN L.orders |-> CHOOSE j \in DOMAIN S.entries : Backs(S.entries[j], L.orders[i])]
<1>1. L \in LedgerType /\ S \in SessionType
      /\ \A i, j \in DOMAIN L.orders : L.orders[i].intent = L.orders[j].intent => i = j
  BY DEF Link, Sound, Entered
<1>2. \A i \in DOMAIN L.orders : h[i] \in DOMAIN S.entries /\ Backs(S.entries[h[i]], L.orders[i])
  <2>1. \A i \in DOMAIN L.orders : \E j \in DOMAIN S.entries : Backs(S.entries[j], L.orders[i])
    BY DEF Link, Backed
  <2> HIDE DEF Backs
  <2>2. QED
    BY <2>1
<1> HIDE DEF h
<1>3. \A i, j \in DOMAIN L.orders : h[i] = h[j] => i = j
  BY <1>1, <1>2 DEF Backs
<1>4. \A i \in DOMAIN L.orders : h[i] \in held
  <2>1. \A i \in DOMAIN L.orders : /\ S.entries[h[i]].approved \in Nat
                                   /\ S.entries[h[i]].approved # 0
                                   /\ S.entries[h[i]].request.intent \in I
    BY <1>1, <1>2, EntriesAre DEF Link, Entered, Backs, EntryIsSound, EntryType
  <2>2. QED
    BY <1>2, <2>1 DEF Reserving
<1>5. h \in [DOMAIN L.orders -> held]
  BY <1>4 DEF h
<1> HIDE DEF held
<1>6. Behind(L, S, held, h)
  BY <1>2, <1>3, <1>5 DEF Behind
<1>7. QED
  BY <1>6 DEF held

(* The orders take no more than the entries reserve.                       *)
LEMMA ReservationsCover ==
  ASSUME NEW L, NEW S, NEW I, NEW D, Link(L, S, I, D), NEW x, x \notin I, NEW k
  PROVE  /\ Total(Debits(L)) <= Total(DebitsHeld(S, Reserving(S, x)))
         /\ Total(DebitsHeld(S, Reserving(S, x))) \in Nat
         /\ Total(SellTargets(L, k))
              <= Total(QuantitiesHeld(S, SellEntries(S, Reserving(S, x), k)))
         /\ Total(QuantitiesHeld(S, SellEntries(S, Reserving(S, x), k))) \in Nat
<1> DEFINE held == Reserving(S, x)
           sells == SellEntries(S, held, k)
<1>1. L \in LedgerType /\ S \in SessionType
  BY DEF Link, Sound, Entered
<1>2. PICK h : Behind(L, S, held, h)
  BY EntriesBehind
<1> DEFINE hs == [i \in SellOrders(L, k) |-> h[i]]
<1>3. \A i, j \in DOMAIN L.orders : h[i] = h[j] => i = j
  BY <1>2 DEF Behind
<1>4. \A i \in DOMAIN L.orders : h[i] \in held /\ Backs(S.entries[h[i]], L.orders[i])
  BY <1>2 DEF Behind
<1>5. IsFiniteSet(held) /\ held \subseteq DOMAIN S.entries
      /\ IsFiniteSet(sells) /\ sells \subseteq held
  <2>1. held \subseteq DOMAIN S.entries /\ sells \subseteq held
    BY DEF Reserving, SellEntries
  <2>2. QED
    BY <1>1, <2>1, EntriesAre, FS_Subset
<1>6. \A i \in DOMAIN S.entries : S.entries[i].debit \in Nat /\ S.entries[i].quantity \in Nat
  BY <1>1, EntriesAre DEF EntryType
<1>7. DebitsHeld(S, held) \in [held -> Nat] /\ QuantitiesHeld(S, sells) \in [sells -> Nat]
  BY <1>5, <1>6 DEF DebitsHeld, QuantitiesHeld
<1>8. Debits(L) \in [DOMAIN L.orders -> Nat] /\ SellTargets(L, k) \in [SellOrders(L, k) -> Nat]
      /\ SellOrders(L, k) \subseteq DOMAIN L.orders
  BY <1>1, SellTargetsAre
<1>9. Total(Debits(L)) <= Total(DebitsHeld(S, held))
  <2>1. PICK f, g, t, p : f = Debits(L) /\ g = DebitsHeld(S, held) /\ t = DOMAIN L.orders /\ p = h
    OBVIOUS
  <2>2. h \in [DOMAIN L.orders -> held]
    BY <1>2 DEF Behind
  <2>3. \A i \in DOMAIN L.orders : f[i] <= g[h[i]]
    BY <1>4, <1>5, <1>6, <2>1 DEF Debits, DebitsHeld, Backs
  <2>4. Total(f) <= Total(g)
    <3> HIDE DEF held
    <3>1. /\ f \in [t -> Nat] /\ g \in [held -> Nat] /\ p \in [t -> held]
          /\ \A i, j \in t : p[i] = p[j] => i = j
          /\ \A i \in t : f[i] <= g[p[i]]
      BY <1>3, <1>7, <1>8, <2>1, <2>2, <2>3
    <3>2. QED
      BY <1>5, <3>1, TotalInjection
  <2>5. QED
    BY <2>1, <2>4
<1>10. Total(SellTargets(L, k)) <= Total(QuantitiesHeld(S, sells))
  <2>1. PICK f, g, t : f = SellTargets(L, k) /\ g = QuantitiesHeld(S, sells) /\ t = SellOrders(L, k)
    OBVIOUS
  <2>2. \A i \in t : /\ i \in DOMAIN L.orders /\ h[i] \in sells
                     /\ f[i] <= g[h[i]]
    BY <1>4, <1>5, <1>6, <2>1 DEF SellTargets, SellOrders, QuantitiesHeld, SellEntries, Backs
  <2>3. hs \in [t -> sells] /\ \A i \in t : hs[i] = h[i]
    BY <2>1, <2>2
  <2>4. PICK p : p = hs
    OBVIOUS
  <2>5. /\ f \in [t -> Nat] /\ g \in [sells -> Nat] /\ p \in [t -> sells]
        /\ \A i, j \in t : p[i] = p[j] => i = j
        /\ \A i \in t : f[i] <= g[p[i]]
    BY <1>3, <1>7, <1>8, <2>1, <2>2, <2>3, <2>4
  <2> HIDE DEF sells
  <2>6. Total(f) <= Total(g)
    BY <1>5, <2>5, TotalInjection
  <2>7. QED
    BY <2>1, <2>6
<1>11. QED
  BY <1>5, <1>7, <1>9, <1>10, UnitsFinite

LEMMA PermitIs ==
  ASSUME NEW S \in SessionType, NEW i \in DOMAIN S.entries, NEW token \in Nat, NEW at \in Int,
         NEW e, e = S.entries[i], NEW permit, permit = Permit(S, i, token, at)
  PROVE  /\ permit \in PermitType
         /\ permit.intent = e.request.intent /\ permit.instrument = e.request.instrument
         /\ permit.side = e.request.side /\ permit.portfolio = S.portfolio
         /\ permit.approved = e.approved /\ permit.quantity = e.quantity
         /\ permit.debit = e.debit /\ permit.approvedAt = at /\ permit.expires = e.expires
<1> DEFINE r == e.request
<1>1. e \in EntryType /\ S.portfolio \in PortfolioType
  BY EntriesAre DEF SessionType
<1>2. r \in Requests /\ e.approved \in Nat /\ e.quantity \in Nat /\ e.debit \in Nat /\ e.expires \in Int
  BY <1>1 DEF EntryType
<1>3. r.intent \in Intents /\ r.instrument \in Instruments /\ r.side \in Sides
  BY <1>2, RequestsAre
<1>4. permit = [intent |-> r.intent, instrument |-> r.instrument, side |-> r.side,
                portfolio |-> S.portfolio, token |-> token, approved |-> e.approved,
                quantity |-> e.quantity, debit |-> e.debit, approvedAt |-> at, expires |-> e.expires]
  BY DEF Permit
<1> HIDE DEF r
<1>5. permit \in PermitType
  BY <1>1, <1>2, <1>3, <1>4 DEF PermitType
<1>6. QED
  BY <1>4, <1>5 DEF r

(* Money that was free in the frozen portfolio is free in the ledger.      *)
LEMMA PermitLands ==
  ASSUME NEW L, NEW S, NEW I, NEW D, Link(L, S, I, D),
         NEW r \in Requests, r.intent \notin I, NEW at \in Int, L.asOf <= at, ~L.sealed,
         NEW n \in Nat, n = Len(S.entries), NEW T, T = Evaluate(S, r, at), NEW token \in Nat,
         Issues(T, n + 1, token, at)
  PROVE  Submittable(L, Permit(T, n + 1, token, at), at)
<1> DEFINE e == T.entries[n + 1]
           A == Available(S, r.intent)
           k == r.instrument
           permit == Permit(T, n + 1, token, at)
           debits == Total(DebitsHeld(S, Reserving(S, r.intent)))
           sold == Total(QuantitiesHeld(S, SellEntries(S, Reserving(S, r.intent), k)))
<1>1. L \in LedgerType /\ S \in SessionType /\ S.portfolio = L.initial /\ Solvent(L) /\ Untouched(L)
      /\ Covered(L)
  BY DEF Link, Sound, Entered, Backed
<1>2. /\ T \in SessionType /\ T.portfolio = S.portfolio /\ n + 1 \in DOMAIN T.entries
      /\ e = NewEntry(S, r, Approved(S, r, at), at)
  BY <1>1, EvaluateIs
<1>3. /\ e \in EntryType /\ EntryIsSound(e) /\ e.request = r /\ e.approved = Approved(S, r, at)
      /\ e.approved # 0 => e.quantity = Quantity(r, e.approved)
  BY <1>1, <1>2, NewEntryIs
<1>4. e.approved > 0 /\ at < e.expires
  BY DEF Issues, Consumes
<1>5. PICK permit0 : permit0 = permit
  OBVIOUS
<1>6. /\ permit0 \in PermitType
      /\ permit0.intent = r.intent /\ permit0.instrument = k
      /\ permit0.side = r.side /\ permit0.portfolio = S.portfolio
      /\ permit0.approved = e.approved /\ permit0.quantity = e.quantity
      /\ permit0.debit = e.debit /\ permit0.approvedAt = at /\ permit0.expires = e.expires
  <2>1. PICK f : f = e
    OBVIOUS
  <2> HIDE DEF e, permit
  <2>2. f = T.entries[n + 1] /\ permit0 = Permit(T, n + 1, token, at)
    BY <2>1, <1>5 DEF e, permit
  <2>3. QED
    BY <1>2, <1>3, <2>1, <2>2, PermitIs
<1> HIDE DEF e, permit
<1>7. e.approved \in Nat \ {0} /\ e.quantity \in Nat /\ e.debit \in Nat
  BY <1>3, <1>4 DEF EntryType
<1>8. Acceptable(S, A, r, e.approved) /\ e.quantity \in Nat \ {0} /\ e.quantity = Quantity(r, e.approved)
  BY <1>3, <1>7, ApprovedIs
<1>9. e.debit = Debit(r.side, e.approved)
  BY <1>3, <1>7 DEF EntryIsSound
<1>10. k \in Instruments /\ r.side \in Sides
  BY RequestsAre
<1>11. /\ A.cash = L.initial.cash - debits
       /\ Free(A, k) = IF k \in DOMAIN L.initial.quantity THEN L.initial.quantity[k] - sold ELSE 0
  BY <1>1, AvailableIs
<1>12. /\ Total(Debits(L)) <= debits /\ debits \in Nat
       /\ Total(SellTargets(L, k)) <= sold /\ sold \in Nat
  BY ReservationsCover
<1>13. Total(Debits(L)) \in Nat /\ Total(SellTargets(L, k)) \in Nat
  BY <1>1, SellTargetsAre
<1> HIDE DEF A, debits, sold
<1>14. /\ L.cash \in Int /\ Total(Due(L)) \in Nat /\ Total(Left(L, k)) \in Nat /\ Held(L, k) \in Nat
       /\ L.initial.cash \in Int /\ Reserved(L) = Total(Due(L))
  BY <1>1, <1>10, DuesAre, HoldingsAre DEF Solvent, LedgerType, PortfolioType, Reserved, Due
<1>15. permit0.debit \in 0..(L.cash - Reserved(L))
  <2>1. e.debit <= L.initial.cash - debits
    BY <1>8, <1>9, <1>11 DEF Acceptable
  <2>2. L.cash - Total(Due(L)) >= L.initial.cash - Total(Debits(L))
    BY <1>1 DEF Covered, Slack
  <2>3. PICK d, c, due, c0, all : /\ d = e.debit /\ c = L.cash /\ due = Total(Due(L))
                                  /\ c0 = L.initial.cash /\ all = Total(Debits(L))
    OBVIOUS
  <2>4. d \in Nat /\ c \in Int /\ due \in Nat /\ c0 \in Int /\ all \in Nat
        /\ d <= c0 - debits /\ c - due >= c0 - all /\ all <= debits /\ debits \in Nat
    BY <2>1, <2>2, <2>3, <1>7, <1>12, <1>13, <1>14
  <2>5. d \in 0..(c - due)
    BY <2>4
  <2>6. QED
    BY <2>3, <2>5, <1>6, <1>14
<1>16. ASSUME r.side = "sell"
       PROVE  k \in DOMAIN L.holdings /\ Target(permit0) <= Held(L, k) - OpenSells(L, k)
  <2>1. e.quantity <= Free(A, k)
    BY <1>8, <1>16 DEF Acceptable
  <2>2. k \in DOMAIN L.initial.quantity /\ e.quantity <= L.initial.quantity[k] - sold
    BY <2>1, <1>8, <1>11
  <2>3. L.initial.quantity[k] \in Nat /\ Owned(L.initial, k) = L.initial.quantity[k]
    <3>1. L.initial.quantity \in Partial(Instruments, Nat)
      BY <1>1 DEF LedgerType, PortfolioType
    <3>2. QED
      BY <2>2, <3>1 DEF Partial, Owned
  <2>4. Spare(L, k) >= L.initial.quantity[k] - Total(SellTargets(L, k))
    BY <1>1, <1>10, <2>3 DEF Covered
  <2>5. e.quantity <= Held(L, k) - Total(Left(L, k))
    <3>1. PICK q, h, left, q0, all : /\ q = e.quantity /\ h = Held(L, k) /\ left = Total(Left(L, k))
                                     /\ q0 = L.initial.quantity[k] /\ all = Total(SellTargets(L, k))
      OBVIOUS
    <3>2. q \in Nat /\ h \in Nat /\ left \in Nat /\ q0 \in Nat /\ all \in Nat
          /\ q <= q0 - sold /\ h - left >= q0 - all /\ all <= sold /\ sold \in Nat
      BY <2>2, <2>3, <2>4, <3>1, <1>7, <1>12, <1>13, <1>14 DEF Spare
    <3>3. q <= h - left
      BY <3>2
    <3>4. QED
      BY <3>1, <3>3
  <2>6. OpenSells(L, k) = Total(Left(L, k))
    <3>1. \A i \in Sells(L, k) : Left(L, k)[i] = L.orders[i].target
      <4>1. \A i \in Sells(L, k) : i \in DOMAIN L.orders /\ L.orders[i].filled = 0
        BY <1>1 DEF Sells, Untouched, OpenOrders
      <4>2. \A i \in DOMAIN L.orders : L.orders[i].target \in Nat
        BY <1>1, OrdersAre DEF OrderType
      <4>3. QED
        BY <4>1, <4>2 DEF Left
    <3>2. Left(L, k) = [i \in Sells(L, k) |-> L.orders[i].target]
      BY <3>1 DEF Left
    <3>3. QED
      BY <3>2 DEF OpenSells, Sells
  <2>7. Target(permit0) \in Nat /\ Target(permit0) <= e.quantity
    BY <1>6, TargetIs
  <2>8. Held(L, k) > 0
    BY <2>5, <1>8, <1>14
  <2>9. k \in DOMAIN L.holdings
    BY <2>8 DEF Held
  <2>10. QED
    BY <2>5, <2>6, <2>7, <2>9, <1>7, <1>14
<1>17. \A i \in DOMAIN L.orders : L.orders[i].intent # r.intent
  <2>1. \A i \in DOMAIN L.orders : \E j \in DOMAIN S.entries : Backs(S.entries[j], L.orders[i])
    BY DEF Link, Backed
  <2>2. \A j \in DOMAIN S.entries : S.entries[j].request.intent \in I
    BY DEF Link, Entered
  <2>3. QED
    BY <2>1, <2>2 DEF Backs
<1>18. Submittable(L, permit0, at)
  BY <1>1, <1>4, <1>6, <1>10, <1>15, <1>16, <1>17 DEF Submittable
<1>19. QED
  BY <1>5, <1>18 DEF permit

-------------------------------------------------------------------------------
(* What is left to spend *)

CostsHeld(S, held) == [i \in held |-> S.entries[i].cost]
BoughtHeld(S, held) == [i \in held |-> BuyNotional(S.entries[i])]

Shown(P, k) == IF k \in DOMAIN P.exposure THEN P.exposure[k] ELSE 0

(* What an account has, less everything that is reserved.                  *)
Counted(S, held, A) ==
  /\ A.cash \in Int /\ A.equity \in Int /\ A.losses \in Int /\ A.gross \in Int /\ A.peak \in Int
  /\ \A k : Free(A, k) \in Int
  /\ IsFiniteSet(DOMAIN A.exposure) /\ A.exposure \in [DOMAIN A.exposure -> Nat]
  /\ Total(CostsHeld(S, held)) \in Nat
  /\ A.equity = S.portfolio.equity - Total(CostsHeld(S, held))
  /\ A.losses >= Total(CostsHeld(S, held))
  /\ A.gross = Total(A.exposure)
  /\ \A k \in DOMAIN A.exposure : A.exposure[k] = Exposed(S, held, k)

LEMMA HeldIs ==
  ASSUME NEW S \in SessionType, NEW held \in SUBSET DOMAIN S.entries
  PROVE  /\ IsFiniteSet(held)
         /\ CostsHeld(S, held) \in [held -> Nat] /\ Total(CostsHeld(S, held)) \in Nat
         /\ DebitsHeld(S, held) \in [held -> Nat] /\ Total(DebitsHeld(S, held)) \in Nat
         /\ QuantitiesHeld(S, held) \in [held -> Nat] /\ Total(QuantitiesHeld(S, held)) \in Nat
         /\ BoughtHeld(S, held) \in [held -> Nat] /\ Total(BoughtHeld(S, held)) \in Nat
<1>1. IsFiniteSet(held)
  BY EntriesAre, FS_Subset
<1>2. \A i \in held : /\ S.entries[i].cost \in Nat /\ S.entries[i].debit \in Nat
                      /\ S.entries[i].quantity \in Nat /\ S.entries[i].approved \in Nat
  BY EntriesAre DEF EntryType
<1>3. \A i \in held : BuyNotional(S.entries[i]) \in Nat
  BY <1>2 DEF BuyNotional
<1>4. /\ CostsHeld(S, held) \in [held -> Nat] /\ DebitsHeld(S, held) \in [held -> Nat]
      /\ QuantitiesHeld(S, held) \in [held -> Nat] /\ BoughtHeld(S, held) \in [held -> Nat]
  BY <1>2, <1>3 DEF CostsHeld, DebitsHeld, QuantitiesHeld, BoughtHeld
<1>5. QED
  BY <1>1, <1>4, UnitsFinite

LEMMA ExposedIs ==
  ASSUME NEW S \in SessionType, NEW held \in SUBSET DOMAIN S.entries, NEW k
  PROVE  LET mine == {i \in held : S.entries[i].request.instrument = k}
         IN  /\ Exposed(S, held, k) = Shown(S.portfolio, k) + Total(BoughtHeld(S, mine))
             /\ Exposed(S, held, k) \in Nat /\ Shown(S.portfolio, k) \in Nat
<1> DEFINE mine == {i \in held : S.entries[i].request.instrument = k}
<1>1. mine \in SUBSET DOMAIN S.entries
  OBVIOUS
<1>2. Total(BoughtHeld(S, mine)) \in Nat
  BY <1>1, HeldIs
<1>3. Shown(S.portfolio, k) \in Nat
  <2>1. S.portfolio.exposure \in Partial(Instruments, Nat)
    BY DEF SessionType, PortfolioType
  <2>2. QED
    BY <2>1 DEF Shown, Partial
<1>4. Sum(S, mine, BuyNotional) = Total(BoughtHeld(S, mine))
  BY DEF Sum, BoughtHeld
<1>5. Exposed(S, held, k) = Shown(S.portfolio, k) + Total(BoughtHeld(S, mine))
  BY <1>4 DEF Exposed, Shown
<1>6. QED
  BY <1>2, <1>3, <1>5

LEMMA MoneyAvailable ==
  ASSUME NEW S \in SessionType, NEW x
  PROVE  Counted(S, Reserving(S, x), Available(S, x))
<1> DEFINE A == Available(S, x)
           held == Reserving(S, x)
           bought == {S.entries[i].request.instrument : i \in {j \in held : S.entries[j].request.side = "buy"}}
           assets == DOMAIN S.portfolio.exposure \cup bought
           exposure == [k \in assets |-> Exposed(S, held, k)]
           cost == Total(CostsHeld(S, held))
           loss == IF S.portfolio.realized < 0 THEN -S.portfolio.realized ELSE 0
<1>1. held \in SUBSET DOMAIN S.entries
  BY DEF Reserving
<1>2. cost \in Nat /\ Total(DebitsHeld(S, held)) \in Nat
  BY <1>1, HeldIs
<1>3. /\ S.portfolio.cash \in Int /\ S.portfolio.equity \in Int /\ S.portfolio.realized \in Int
      /\ S.portfolio.peak \in Int /\ S.portfolio.exposure \in Partial(Instruments, Nat)
      /\ S.portfolio.quantity \in Partial(Instruments, Nat)
  BY DEF SessionType, PortfolioType
<1>4. Sum(S, held, LAMBDA e : e.cost) = cost
  BY DEF Sum, CostsHeld
<1>5. A.equity = S.portfolio.equity - cost /\ A.losses = cost + loss /\ A.peak = S.portfolio.peak
      /\ A.exposure = exposure /\ A.gross = Total(exposure)
  BY <1>4 DEF Available
<1>6. loss \in Nat
  BY <1>3
<1>7. assets \subseteq Instruments
  <2>1. \A i \in held : S.entries[i].request \in Requests
    BY <1>1, EntriesAre DEF EntryType
  <2>2. \A i \in held : S.entries[i].request.instrument \in Instruments
    BY <2>1, RequestsAre
  <2>3. DOMAIN S.portfolio.exposure \subseteq Instruments
    BY <1>3 DEF Partial
  <2>4. QED
    BY <2>2, <2>3
<1>8. IsFiniteSet(assets)
  BY <1>7, TradingAssumption, FS_Subset
<1>9. exposure \in [assets -> Nat]
  <2>1. \A k : Exposed(S, held, k) \in Nat
    BY <1>1, ExposedIs
  <2> HIDE DEF held, assets
  <2>2. QED
    BY <2>1
<1>10. Total(exposure) \in Nat
  <2> HIDE DEF exposure, assets
  <2>1. QED
    BY <1>8, <1>9, UnitsFinite
<1>11. A.cash \in Int
  <2>1. A.cash = S.portfolio.cash - Total(DebitsHeld(S, held))
    BY AvailableIs
  <2>2. QED
    BY <2>1, <1>2, <1>3
<1>12. ASSUME NEW k PROVE Free(A, k) \in Int
  <2>1. Total(QuantitiesHeld(S, SellEntries(S, held, k))) \in Nat
    <3>1. SellEntries(S, held, k) \in SUBSET DOMAIN S.entries
      BY <1>1 DEF SellEntries
    <3>2. QED
      BY <3>1, HeldIs
  <2>2. k \in DOMAIN S.portfolio.quantity => S.portfolio.quantity[k] \in Nat
    BY <1>3 DEF Partial
  <2>3. Free(A, k) = IF k \in DOMAIN S.portfolio.quantity
                  THEN S.portfolio.quantity[k]
                         - Total(QuantitiesHeld(S, SellEntries(S, held, k)))
                  ELSE 0
    BY AvailableIs
  <2>4. QED
    BY <2>1, <2>2, <2>3
<1>13. DOMAIN A.exposure = assets /\ \A k \in assets : A.exposure[k] = Exposed(S, held, k)
  BY <1>5
<1> HIDE DEF A, assets, loss, exposure, held
<1>14. A.exposure \in [assets -> Nat] /\ A.gross = Total(A.exposure) /\ A.gross \in Int
  BY <1>5, <1>9, <1>10
<1>15. A.equity \in Int /\ A.losses \in Int /\ A.losses >= cost /\ A.peak \in Int
  BY <1>2, <1>3, <1>5, <1>6
<1>16. Counted(S, held, A)
  BY <1>2, <1>5, <1>8, <1>11, <1>12, <1>13, <1>14, <1>15 DEF Counted
<1>17. QED
  BY <1>16 DEF A, held

-------------------------------------------------------------------------------
(* The limits of the policy *)

LEMMA NothingBought ==
  ASSUME NEW S, NEW held, \A i \in held : S.entries[i].request.side # "buy"
  PROVE  Total(BoughtHeld(S, held)) = 0
<1>1. PICK f : f = BoughtHeld(S, held)
  OBVIOUS
<1>2. \A i \in DOMAIN f : f[i] = 0
  BY <1>1 DEF BoughtHeld, BuyNotional
<1>3. QED
  BY <1>1, <1>2, TotalZero

(* Gross exposure is what was held and everything bought since.            *)
LEMMA GrossIs ==
  ASSUME NEW S \in SessionType, NEW x
  PROVE  Available(S, x).gross
           = Total(S.portfolio.exposure) + Total(BoughtHeld(S, Reserving(S, x)))
<1> DEFINE A == Available(S, x)
           held == Reserving(S, x)
           f == BoughtHeld(S, held)
           b == [k \in Instruments |-> Shown(S.portfolio, k)]
           p == [i \in held |-> S.entries[i].request.instrument]
           g == [k \in Instruments |-> Exposed(S, held, k)]
           mine(k) == {i \in held : S.entries[i].request.instrument = k}
<1>1. held \in SUBSET DOMAIN S.entries /\ IsFiniteSet(held) /\ f \in [held -> Nat]
  BY HeldIs DEF Reserving
<1>2. IsFiniteSet(Instruments)
  BY TradingAssumption
<1>3. S.portfolio.exposure \in Partial(Instruments, Nat)
  BY DEF SessionType, PortfolioType
<1>4. PICK E : E = S.portfolio.exposure
  OBVIOUS
<1>5. DOMAIN E \subseteq Instruments /\ E \in [DOMAIN E -> Nat]
  BY <1>3, <1>4 DEF Partial
<1>6. p \in [held -> Instruments]
  <2>1. \A i \in held : S.entries[i].request \in Requests
    BY <1>1, EntriesAre DEF EntryType
  <2>2. QED
    BY <2>1, RequestsAre
<1>7. /\ \A k : mine(k) \in SUBSET DOMAIN S.entries
      /\ \A k : /\ Exposed(S, held, k) = Shown(S.portfolio, k) + Total(BoughtHeld(S, mine(k)))
                /\ Exposed(S, held, k) \in Nat /\ Shown(S.portfolio, k) \in Nat
  BY <1>1, ExposedIs
<1>8. b \in [Instruments -> Nat] /\ g \in [Instruments -> Nat]
  <2> HIDE DEF held
  <2>1. QED
    BY <1>7
<1>9. ASSUME NEW k \in Instruments
      PROVE  g[k] = b[k] + Total([i \in {j \in held : p[j] = k} |-> f[i]])
  <2>1. {j \in held : p[j] = k} = mine(k)
    OBVIOUS
  <2>2. [i \in mine(k) |-> f[i]] = BoughtHeld(S, mine(k))
    BY DEF BoughtHeld
  <2>3. g[k] = Exposed(S, held, k) /\ b[k] = Shown(S.portfolio, k)
    OBVIOUS
  <2> HIDE DEF g, b, p, f, mine, held
  <2>4. QED
    BY <1>7, <2>1, <2>2, <2>3
<1>10. Total(g) = Total(b) + Total(f)
  <2> HIDE DEF g, b, p, f, held
  <2>1. QED
    BY <1>1, <1>2, <1>6, <1>8, <1>9, TotalGather
<1>11. Total(E) = Total(b)
  <2>1. \A k \in DOMAIN E : E[k] = b[k]
    BY <1>4, <1>5 DEF Shown
  <2>2. \A k \in Instruments \ DOMAIN E : b[k] = 0
    BY <1>4 DEF Shown
  <2> HIDE DEF b
  <2>3. QED
    BY <1>5, <1>8, <2>1, <2>2, TotalSupport
<1>12. PICK X : X = A.exposure
  OBVIOUS
<1>13. Counted(S, held, A)
  BY MoneyAvailable
<1>14. A.gross = Total(X) /\ X \in [DOMAIN X -> Nat] /\ \A k \in DOMAIN X : X[k] = Exposed(S, held, k)
  BY <1>12, <1>13 DEF Counted
<1>15. DOMAIN X = DOMAIN E \cup {S.entries[i].request.instrument : i \in {j \in held : S.entries[j].request.side = "buy"}}
  BY <1>4, <1>12 DEF Available
<1>16. DOMAIN X \subseteq Instruments
  BY <1>5, <1>6, <1>15
<1>17. ASSUME NEW k \in Instruments \ DOMAIN X PROVE g[k] = 0
  <2>1. k \notin DOMAIN E /\ \A i \in mine(k) : S.entries[i].request.side # "buy"
    BY <1>15, <1>17
  <2>2. Total(BoughtHeld(S, mine(k))) = 0
    <3> HIDE DEF mine
    <3>1. QED
      BY <1>7, <2>1, NothingBought
  <2>3. Shown(S.portfolio, k) = 0
    BY <1>4, <2>1 DEF Shown
  <2>4. g[k] = Exposed(S, held, k)
    OBVIOUS
  <2> HIDE DEF g, mine, held
  <2>5. QED
    BY <1>7, <2>2, <2>3, <2>4
<1>18. \A k \in DOMAIN X : X[k] = g[k]
  BY <1>14, <1>16
<1>19. Total(X) = Total(g)
  <2> HIDE DEF g
  <2>1. QED
    BY <1>8, <1>14, <1>16, <1>17, <1>18, TotalSupport
<1>20. QED
  BY <1>4, <1>10, <1>11, <1>14, <1>19

Commits(L) == [i \in DOMAIN L.orders |-> IF L.orders[i].side = "buy" THEN L.orders[i].approved ELSE 0]
Charges(L) == [i \in DOMAIN L.orders |-> Fee(L.orders[i].approved)]

LEMMA CommitsAre ==
  ASSUME NEW L \in LedgerType
  PROVE  /\ IsFiniteSet(DOMAIN L.orders)
         /\ Commits(L) \in [DOMAIN L.orders -> Nat] /\ Charges(L) \in [DOMAIN L.orders -> Nat]
         /\ Committed(L) = Total(Commits(L)) /\ Costs(L) = Total(Charges(L))
         /\ Committed(L) \in Nat /\ Costs(L) \in Nat
<1>1. IsFiniteSet(DOMAIN L.orders) /\ \A i \in DOMAIN L.orders : L.orders[i].approved \in Nat
  BY OrdersAre DEF OrderType
<1>2. \A i \in DOMAIN L.orders : Fee(L.orders[i].approved) \in Nat
  BY <1>1, FeeIs
<1>3. Commits(L) \in [DOMAIN L.orders -> Nat] /\ Charges(L) \in [DOMAIN L.orders -> Nat]
  BY <1>1, <1>2 DEF Commits, Charges
<1>4. Committed(L) = Total(Commits(L)) /\ Costs(L) = Total(Charges(L))
  BY DEF Committed, Commits, Costs, Charges
<1>5. QED
  BY <1>1, <1>3, <1>4, UnitsFinite

(* The orders have bought no more than the entries reserve.                *)
LEMMA CommitsCovered ==
  ASSUME NEW L, NEW S, NEW I, NEW D, Link(L, S, I, D), NEW x, x \notin I
  PROVE  /\ Committed(L) <= Total(BoughtHeld(S, Reserving(S, x)))
         /\ Costs(L) <= Total(CostsHeld(S, Reserving(S, x)))
<1>1. L \in LedgerType /\ S \in SessionType
  BY DEF Link, Sound, Entered
<1>2. PICK held : held = Reserving(S, x)
  OBVIOUS
<1>3. PICK h : Behind(L, S, held, h)
  BY <1>2, EntriesBehind
<1>4. PICK T, f, g, c, d : /\ T = DOMAIN L.orders /\ f = Commits(L) /\ c = Charges(L)
                           /\ g = BoughtHeld(S, held) /\ d = CostsHeld(S, held)
  OBVIOUS
<1>5. held \in SUBSET DOMAIN S.entries
  BY <1>2 DEF Reserving
<1>6. /\ IsFiniteSet(held) /\ f \in [T -> Nat] /\ c \in [T -> Nat]
      /\ g \in [held -> Nat] /\ d \in [held -> Nat]
  BY <1>1, <1>4, <1>5, HeldIs, CommitsAre
<1>7. h \in [T -> held] /\ \A i, j \in T : h[i] = h[j] => i = j
  BY <1>3, <1>4 DEF Behind
<1>8. ASSUME NEW i \in T PROVE f[i] <= g[h[i]] /\ c[i] <= d[h[i]]
  <2>1. PICK e : e = S.entries[h[i]]
    OBVIOUS
  <2>2. h[i] \in held /\ Backs(e, L.orders[i])
    BY <1>3, <1>4, <1>8, <2>1 DEF Behind
  <2>3. e \in EntryType /\ EntryIsSound(e)
    BY <1>5, <2>1, <2>2, EntriesAre DEF Link, Entered
  <2>4. e.cost = Fee(e.approved) /\ e.approved \in Nat
    BY <2>2, <2>3 DEF Backs, EntryIsSound, EntryType
  <2>5. g[h[i]] = BuyNotional(e) /\ d[h[i]] = e.cost
    BY <1>4, <2>1, <2>2 DEF BoughtHeld, CostsHeld
  <2>6. f[i] = (IF L.orders[i].side = "buy" THEN L.orders[i].approved ELSE 0)
        /\ c[i] = Fee(L.orders[i].approved)
    BY <1>4, <1>8 DEF Commits, Charges
  <2>7. L.orders[i].approved = e.approved /\ L.orders[i].side = e.request.side
    BY <2>2 DEF Backs
  <2>8. Fee(e.approved) \in Nat
    BY <2>4, FeeIs
  <2>9. QED
    BY <2>4, <2>5, <2>6, <2>7, <2>8 DEF BuyNotional
<1>9. Total(f) <= Total(g) /\ Total(c) <= Total(d)
  BY <1>6, <1>7, <1>8, TotalInjection
<1>10. QED
  BY <1>1, <1>2, <1>4, <1>9, CommitsAre

WithinLimits(M) ==
  /\ 100 * (Total(M.initial.exposure) + Committed(M)) <= MaxGrossPct * (M.initial.equity - Costs(M))
  /\ 100 * Costs(M) <= MaxLossPct * M.initial.equity

KeepsLimits(M) == M.orders[Len(M.orders)].side = "buy" => WithinLimits(M)

(* A buy the session accepts keeps the limits together with all that was placed before it. *)
LEMMA LimitsKept ==
  ASSUME NEW L, NEW S, NEW I, NEW D, Link(L, S, I, D), NEW r \in Requests, r.intent \notin I,
         r.side = "buy", NEW a \in Nat, Acceptable(S, Available(S, r.intent), r, a),
         NEW M \in LedgerType, M.initial = L.initial,
         NEW o, o.side = "buy", o.approved = a, M.orders = Append(L.orders, o)
  PROVE  WithinLimits(M)
<1>1. L \in LedgerType /\ S \in SessionType /\ S.portfolio = L.initial
  BY DEF Link, Sound, Entered, Backed
<1>2. PICK held, A, x : x = r.intent /\ held = Reserving(S, x) /\ A = Available(S, x)
  OBVIOUS
<1>3. Counted(S, held, A)
  BY <1>1, <1>2, MoneyAvailable
<1>4. PICK gross0, equity, cost, bought, fee, q :
        /\ gross0 = Total(L.initial.exposure) /\ equity = L.initial.equity
        /\ cost = Total(CostsHeld(S, held)) /\ bought = Total(BoughtHeld(S, held)) /\ fee = Fee(a)
        /\ q = MaxLossPct * equity
  OBVIOUS
<1>5. held \in SUBSET DOMAIN S.entries
  BY <1>2 DEF Reserving
<1>6. cost \in Nat /\ bought \in Nat /\ fee \in Nat
  BY <1>1, <1>4, <1>5, HeldIs, FeeIs
<1>7. equity \in Int /\ gross0 \in Nat
  <2>1. equity \in Int /\ L.initial.exposure \in Partial(Instruments, Nat)
    BY <1>1, <1>4 DEF LedgerType, PortfolioType
  <2>2. PICK E : E = L.initial.exposure
    OBVIOUS
  <2>3. DOMAIN E \subseteq Instruments /\ E \in [DOMAIN E -> Nat] /\ IsFiniteSet(Instruments)
    BY <2>1, <2>2, TradingAssumption DEF Partial
  <2>4. IsFiniteSet(DOMAIN E)
    BY <2>3, FS_Subset
  <2>5. QED
    BY <1>4, <2>1, <2>2, <2>3, <2>4, UnitsFinite
<1>8. /\ A.equity = equity - cost /\ A.losses >= cost /\ A.losses \in Int
      /\ A.gross = gross0 + bought
  BY <1>1, <1>2, <1>3, <1>4, GrossIs DEF Counted
<1>9. PICK losses : losses = A.losses
  OBVIOUS
<1>10. BuyAcceptable(S, A, r, a)
  BY <1>2 DEF Acceptable
<1>11. /\ A.equity - fee > 0
       /\ (losses + fee) * 100 <= q
       /\ (gross0 + bought + a) * 100 <= MaxGrossPct * (A.equity - fee)
  <2>1. LossLimit(S) = q
    BY <1>1, <1>4 DEF LossLimit
  <2>2. QED
    BY <1>4, <1>8, <1>9, <1>10, <2>1 DEF BuyAcceptable
<1>12. PICK n, C, K, c, k : /\ n = Len(L.orders) + 1 /\ C = Committed(L) /\ K = Costs(L)
                            /\ c = Committed(M) /\ k = Costs(M)
  OBVIOUS
<1>13. C \in Nat /\ K \in Nat /\ c \in Nat /\ k \in Nat /\ C <= bought /\ K <= cost
  <2>1. C <= bought /\ K <= cost
    BY <1>2, <1>4, <1>12, CommitsCovered
  <2>2. QED
    BY <1>1, <1>12, <2>1, CommitsAre
<1>14. c = C + a /\ k = K + fee
  <2>1. L.orders \in Seq(OrderType) /\ Len(L.orders) \in Nat
    BY <1>1, OrdersAre
  <2>2. PICK T : T = DOMAIN L.orders
    OBVIOUS
  <2>3. /\ DOMAIN M.orders = T \cup {n} /\ n \notin T /\ M.orders[n] = o
        /\ \A i \in T : M.orders[i] = L.orders[i]
    BY <1>12, <2>1, <2>2
  <2>4. PICK f, g, d, e : f = Commits(L) /\ g = Commits(M) /\ d = Charges(L) /\ e = Charges(M)
    OBVIOUS
  <2>5. /\ IsFiniteSet(T) /\ f \in [T -> Nat] /\ g \in [T \cup {n} -> Nat]
        /\ d \in [T -> Nat] /\ e \in [T \cup {n} -> Nat]
    BY <1>1, <2>2, <2>3, <2>4, CommitsAre
  <2>6. /\ \A i \in T : g[i] = f[i] /\ e[i] = d[i]
        /\ g[n] = a /\ e[n] = fee
    BY <1>4, <2>2, <2>3, <2>4 DEF Commits, Charges
  <2>7. Adds(T, n, f, g) /\ Adds(T, n, d, e)
    BY <2>3, <2>5, <2>6 DEF Adds
  <2>8. Total(g) = Total(f) + a /\ Total(e) = Total(d) + fee
    BY <2>6, <2>7, TotalJoins
  <2>9. QED
    BY <1>1, <1>12, <2>4, <2>8, CommitsAre
<1>15. 100 * k <= q
  <2>1. q \in Int
    <3>1. MaxLossPct \in Nat
      BY RiskAssumption
    <3>2. QED
      BY ONLY <1>4, <1>7, <3>1
  <2>2. losses \in Int /\ losses >= cost /\ (losses + fee) * 100 <= q
    BY <1>8, <1>9, <1>11
  <2>3. k <= losses + fee
    BY ONLY <2>2, <1>6, <1>13, <1>14
  <2>4. QED
    BY ONLY <2>1, <2>2, <2>3, <1>6, <1>13
<1>16. 100 * (gross0 + c) <= MaxGrossPct * (equity - k)
  <2>1. PICK u, v : u = A.equity - fee /\ v = equity - k
    OBVIOUS
  <2>2. u \in Nat /\ v \in Nat /\ u <= v
    BY <1>6, <1>7, <1>8, <1>11, <1>13, <1>14, <2>1
  <2>3. MaxGrossPct \in Nat
    BY RiskAssumption
  <2>4. u * MaxGrossPct \in Nat /\ v * MaxGrossPct \in Nat /\ u * MaxGrossPct <= v * MaxGrossPct
    BY <2>2, <2>3, TimesGrows
  <2>5. PICK y, z : y = MaxGrossPct * u /\ z = MaxGrossPct * v
    OBVIOUS
  <2>6. y = u * MaxGrossPct /\ z = v * MaxGrossPct
    BY <2>2, <2>3, <2>5
  <2>7. y \in Nat /\ z \in Nat /\ y <= z
    BY <2>4, <2>6
  <2>8. (gross0 + bought + a) * 100 <= y
    BY <1>11, <2>1, <2>5
  <2>9. 100 * (gross0 + c) <= z
    BY <1>6, <1>7, <1>13, <1>14, <2>7, <2>8
  <2>10. QED
    BY <2>1, <2>5, <2>9
<1>17. QED
  BY <1>4, <1>12, <1>15, <1>16 DEF WithinLimits

-------------------------------------------------------------------------------
(* One request *)

LEMMA LinkGrows ==
  ASSUME NEW L, NEW S, NEW I, NEW D, Link(L, S, I, D),
         NEW r \in Requests, r.intent \notin I, r.decision \notin D,
         NEW n \in Nat, n = Len(S.entries), NEW U \in SessionType, U.portfolio = S.portfolio,
         DOMAIN U.entries = 1..(n + 1), \A i \in 1..n : U.entries[i] = S.entries[i],
         NEW e, e = U.entries[n + 1], EntryIsSound(e), e.request = r
  PROVE  Link(L, U, I \cup {r.intent}, D \cup {r.decision})
<1>1. DOMAIN S.entries = 1..n
  BY EntriesAre DEF Link, Entered
<1>2. \A i \in DOMAIN U.entries : (i \in 1..n /\ U.entries[i] = S.entries[i]) \/ i = n + 1
  OBVIOUS
<1>3. \A i \in 1..n : /\ EntryIsSound(U.entries[i])
                      /\ U.entries[i].request.intent \in I
                      /\ U.entries[i].request.decision \in D
  BY <1>1 DEF Link, Entered
<1>4. Entered(U, I \cup {r.intent}, D \cup {r.decision})
  <2>1. \A i \in DOMAIN U.entries : /\ EntryIsSound(U.entries[i])
                                    /\ U.entries[i].request.intent \in I \cup {r.intent}
                                    /\ U.entries[i].request.decision \in D \cup {r.decision}
    BY <1>2, <1>3
  <2>2. \A i, j \in 1..n :
          \/ i = j
          \/ /\ U.entries[i].request.intent # U.entries[j].request.intent
             /\ U.entries[i].request.decision # U.entries[j].request.decision
    <3>1. \A i, j \in 1..n :
            \/ i = j
            \/ /\ S.entries[i].request.intent # S.entries[j].request.intent
               /\ S.entries[i].request.decision # S.entries[j].request.decision
      BY <1>1 DEF Link, Entered
    <3>2. ASSUME NEW i \in 1..n, NEW j \in 1..n, i # j
          PROVE  /\ U.entries[i].request.intent # U.entries[j].request.intent
                 /\ U.entries[i].request.decision # U.entries[j].request.decision
      <4>1. U.entries[i] = S.entries[i] /\ U.entries[j] = S.entries[j]
        OBVIOUS
      <4>2. QED
        BY <3>1, <3>2, <4>1
    <3>3. QED
      BY <3>2
  <2>3. \A i \in 1..n : U.entries[i].request.intent # r.intent /\ U.entries[i].request.decision # r.decision
    BY <1>3
  <2>4. \A i, j \in DOMAIN U.entries :
          \/ i = j
          \/ /\ U.entries[i].request.intent # U.entries[j].request.intent
             /\ U.entries[i].request.decision # U.entries[j].request.decision
    BY <1>2, <2>2, <2>3
  <2>5. QED
    BY <2>1, <2>4 DEF Entered
<1>5. Backed(L, U)
  <2>1. ASSUME NEW i \in DOMAIN L.orders PROVE \E j \in DOMAIN U.entries : Backs(U.entries[j], L.orders[i])
    <3>1. PICK j \in DOMAIN S.entries : Backs(S.entries[j], L.orders[i])
      BY DEF Link, Backed
    <3>2. j \in DOMAIN U.entries /\ U.entries[j] = S.entries[j]
      BY <1>1, <3>1
    <3>3. QED
      BY <3>1, <3>2
  <2>2. QED
    BY <2>1 DEF Link, Backed
<1>6. QED
  BY <1>4, <1>5 DEF Link

LEMMA OrderLinks ==
  ASSUME NEW L, NEW U, NEW I, NEW D, Link(L, U, I, D), NEW permit \in PermitType, NEW at \in Int,
         Submittable(L, permit, at), NEW o, o = NewOrder(permit, at), NEW M, M = Submit(L, permit, at),
         NEW j \in DOMAIN U.entries, Backs(U.entries[j], o)
  PROVE  /\ Link(M, U, I, D)
         /\ M.orders = Append(L.orders, o) /\ o.intent = permit.intent
         /\ Worth(M) = Worth(L) /\ M.initial = L.initial /\ M.asOf = at
<1> DEFINE n == Len(L.orders) + 1
<1>1. L \in LedgerType /\ Solvent(L) /\ Untouched(L)
  BY DEF Link, Sound
<1>2. /\ M \in LedgerType /\ Solvent(M) /\ Untouched(M) /\ M.orders = Append(L.orders, o)
      /\ Slack(M) >= Slack(L) - o.maxDebit
      /\ \A k \in Instruments : Spare(M, k) >= Spare(L, k) - SoldBy(o, k)
      /\ Worth(M) = Worth(L) /\ M.initial = L.initial /\ M.asOf = at
  BY <1>1, SubmitIs
<1>3. o \in OrderType /\ o.intent = permit.intent /\ o.maxDebit \in Nat /\ o.target \in Nat
  BY NewOrderIs DEF OrderType
<1>4. L.orders \in Seq(OrderType) /\ Len(L.orders) \in Nat /\ DOMAIN L.orders = 1..Len(L.orders)
      /\ IsFiniteSet(DOMAIN L.orders)
  BY <1>1, OrdersAre
<1>5. /\ DOMAIN M.orders = (DOMAIN L.orders) \cup {n} /\ n \notin DOMAIN L.orders
      /\ M.orders[n] = o /\ \A i \in DOMAIN L.orders : M.orders[i] = L.orders[i]
  BY <1>2, <1>3, <1>4
<1> HIDE DEF n
<1>6. \A i, h \in DOMAIN M.orders : M.orders[i].intent = M.orders[h].intent => i = h
  <2>1. \A i \in DOMAIN L.orders : L.orders[i].intent # o.intent
    BY <1>3 DEF Submittable
  <2>2. \A i, h \in DOMAIN L.orders : L.orders[i].intent = L.orders[h].intent => i = h
    BY DEF Link, Sound
  <2>3. QED
    BY <2>1, <2>2, <1>5
<1>7. Backed(M, U)
  <2>1. ASSUME NEW i \in DOMAIN M.orders PROVE \E h \in DOMAIN U.entries : Backs(U.entries[h], M.orders[i])
    <3>1. CASE i = n
      BY <3>1, <1>5
    <3>2. CASE i \in DOMAIN L.orders
      <4>1. \E h \in DOMAIN U.entries : Backs(U.entries[h], L.orders[i])
        BY <3>2 DEF Link, Backed
      <4>2. QED
        BY <4>1, <3>2, <1>5
    <3>3. QED
      BY <3>1, <3>2, <1>5
  <2>2. QED
    BY <2>1, <1>2 DEF Link, Backed
<1>8. /\ Debits(L) \in [DOMAIN L.orders -> Nat] /\ Total(Debits(L)) \in Nat
      /\ Debits(M) \in [DOMAIN L.orders \cup {n} -> Nat] /\ Total(Debits(M)) \in Nat
  BY <1>1, <1>2, <1>5, SellTargetsAre
<1>9. Total(Debits(M)) = Total(Debits(L)) + o.maxDebit
  <2>1. PICK f, g, T : f = Debits(L) /\ g = Debits(M) /\ T = DOMAIN L.orders
    OBVIOUS
  <2>2. /\ IsFiniteSet(T) /\ n \notin T /\ f \in [T -> Nat] /\ g \in [T \cup {n} -> Nat]
        /\ \A i \in T : g[i] = f[i]
    BY <2>1, <1>4, <1>5, <1>8 DEF Debits
  <2>3. Total(g) = Total(f) + g[n]
    <3>1. PICK h : h = n
      OBVIOUS
    <3>2. IsFiniteSet(T)
      BY <2>2
    <3>3. h \notin T
      BY <2>2, <3>1
    <3>4. f \in [T -> Nat] /\ g \in [T \cup {h} -> Nat]
      BY <2>2, <3>1
    <3>5. \A i \in T : g[i] = f[i]
      BY <2>2
    <3>6. Total(g) = Total(f) + g[h]
      BY <3>2, <3>3, <3>4, <3>5, TotalAdd
    <3>7. QED
      BY <3>1, <3>6
  <2>4. g[n] = o.maxDebit
    BY <2>1, <1>5 DEF Debits
  <2>5. QED
    BY <2>1, <2>3, <2>4
<1>10. ASSUME NEW k \in Instruments
       PROVE  Total(SellTargets(M, k)) = Total(SellTargets(L, k)) + SoldBy(o, k)
  <2>1. /\ IsFiniteSet(SellOrders(L, k)) /\ SellTargets(L, k) \in [SellOrders(L, k) -> Nat]
        /\ Total(SellTargets(L, k)) \in Nat /\ SellOrders(L, k) \subseteq DOMAIN L.orders
        /\ SellTargets(M, k) \in [SellOrders(M, k) -> Nat]
    BY <1>1, <1>2, SellTargetsAre
  <2>2. SellOrders(M, k) = SellOrders(L, k)
                             \cup (IF o.side = "sell" /\ o.instrument = k THEN {n} ELSE {})
    BY <1>5 DEF SellOrders
  <2>3. \A i \in SellOrders(L, k) : SellTargets(M, k)[i] = SellTargets(L, k)[i]
    BY <1>5, <2>1, <2>2 DEF SellTargets
  <2>4. CASE ~(o.side = "sell" /\ o.instrument = k)
    <3>1. SellTargets(M, k) = SellTargets(L, k)
      BY <2>1, <2>2, <2>3, <2>4
    <3>2. QED
      BY <2>1, <2>4, <3>1 DEF SoldBy
  <2>5. CASE o.side = "sell" /\ o.instrument = k
    <3>1. PICK f, g, T : f = SellTargets(L, k) /\ g = SellTargets(M, k) /\ T = SellOrders(L, k)
      OBVIOUS
    <3>2. /\ IsFiniteSet(T) /\ n \notin T /\ f \in [T -> Nat] /\ g \in [T \cup {n} -> Nat]
          /\ \A i \in T : g[i] = f[i]
      BY <2>1, <2>2, <2>3, <2>5, <3>1, <1>5
    <3>3. Total(g) = Total(f) + g[n]
      BY <3>2, TotalAdd
    <3>4. g[n] = o.target
      BY <3>1, <2>2, <2>5, <1>5 DEF SellTargets
    <3>5. QED
      BY <2>5, <3>1, <3>3, <3>4 DEF SoldBy
  <2>6. QED
    BY <2>4, <2>5
<1>11. Covered(M)
  <2>1. PICK c, s, t, a, b : /\ c = L.initial.cash /\ s = Slack(L) /\ t = Slack(M)
                             /\ a = Total(Debits(L)) /\ b = Total(Debits(M))
    OBVIOUS
  <2>2. c \in Int /\ s \in Int /\ t \in Int /\ a \in Nat /\ b = a + o.maxDebit
        /\ s >= c - a /\ t >= s - o.maxDebit
    <3>1. Total(Due(L)) \in Nat /\ Total(Due(M)) \in Nat
      BY <1>1, <1>2, DuesAre DEF Solvent
    <3>2. s \in Int /\ t \in Int
      <4>1. L.cash \in Int /\ M.cash \in Int
        BY <1>1, <1>2 DEF LedgerType
      <4>2. s = L.cash - Total(Due(L)) /\ t = M.cash - Total(Due(M))
        BY <2>1 DEF Slack
      <4>3. QED
        BY <3>1, <4>1, <4>2
    <3>3. c \in Int
      BY <2>1, <1>1 DEF LedgerType, PortfolioType
    <3>4. s >= c - a
      BY <2>1 DEF Link, Sound, Covered
    <3>5. QED
      BY <2>1, <3>2, <3>3, <3>4, <1>2, <1>8, <1>9
  <2>3. t >= c - b
    BY <2>2, <1>3
  <2>4. ASSUME NEW k \in Instruments
        PROVE  Spare(M, k) >= Owned(M.initial, k) - Total(SellTargets(M, k))
    <3>1. PICK q, x, y, u, v, w : /\ q = Owned(L.initial, k) /\ x = Spare(L, k) /\ y = Spare(M, k)
                                  /\ u = Total(SellTargets(L, k)) /\ v = Total(SellTargets(M, k))
                                  /\ w = SoldBy(o, k)
      OBVIOUS
    <3>2. x \in Int /\ y \in Int
      <4>1. Total(Left(L, k)) \in Nat /\ Total(Left(M, k)) \in Nat /\ Held(L, k) \in Nat /\ Held(M, k) \in Nat
        BY <1>1, <1>2, DuesAre, HoldingsAre DEF Solvent
      <4>2. QED
        BY <3>1, <4>1 DEF Spare
    <3>3. q \in Int
      <4>1. L.initial.quantity \in Partial(Instruments, Nat)
        BY <1>1 DEF LedgerType, PortfolioType
      <4>2. QED
        BY <3>1, <4>1 DEF Owned, Partial
    <3>4. w \in Nat /\ u \in Nat /\ v = u + w
      BY <3>1, <1>1, <1>3, <1>10, SellTargetsAre DEF SoldBy
    <3>5. x >= q - u /\ y >= x - w
      BY <3>1, <1>2 DEF Link, Sound, Covered
    <3>6. y >= q - v
      BY <3>2, <3>3, <3>4, <3>5
    <3>7. QED
      BY <3>1, <3>6, <1>2
  <2>5. QED
    BY <2>1, <2>3, <2>4, <1>2 DEF Covered
<1>12. Sound(M)
  BY <1>2, <1>6, <1>11 DEF Sound
<1>13. QED
  BY <1>2, <1>3, <1>7, <1>12 DEF Link

MachineFields == {"ledger", "risk", "intents", "decisions", "refused"}

(* What one request that raises nothing makes of a machine.                *)
Advanced(m, p, r, at) ==
  /\ DOMAIN p = MachineFields /\ p.refused = FALSE
  /\ Link(p.ledger, p.risk, p.intents, p.decisions)
  /\ p.intents = m.intents \cup {r.intent} /\ p.decisions = m.decisions \cup {r.decision}
  /\ p.ledger.asOf <= at /\ Worth(p.ledger) = Worth(m.ledger) /\ p.ledger.initial = m.ledger.initial
  /\ DOMAIN p.risk.entries = 1..(Len(m.risk.entries) + 1)
  /\ \A i \in 1..Len(m.risk.entries) : p.risk.entries[i] = m.risk.entries[i]
  /\ p.risk.entries[Len(m.risk.entries) + 1].request = r
  /\ \/ p.ledger = m.ledger
     \/ /\ KeepsLimits(p.ledger)
        /\ \E o : p.ledger.orders = Append(m.ledger.orders, o) /\ o.intent = r.intent

HandedOver(m, i, token, at, permit, after, both, p) ==
  /\ ~Issues(m.risk, i, token, at) => p = after
  /\ Issues(m.risk, i, token, at) /\ Submittable(m.ledger, permit, at) => p = both

LEMMA HandOverIs ==
  ASSUME NEW m, NEW i, NEW at, NEW token, token = m.risk.controls.token,
         NEW permit, permit = Permit(m.risk, i, token, at),
         NEW after, after = [m EXCEPT !.risk = Handoff(m.risk, i, token, at)],
         NEW both, both = [after EXCEPT !.ledger = Submit(after.ledger, permit, at)],
         NEW p, p = HandOver(m, i, at)
  PROVE  HandedOver(m, i, token, at, permit, after, both, p)
BY DEF HandOver, HandedOver

LEMMA PlaceIs ==
  ASSUME NEW m, DOMAIN m = MachineFields, m.refused = FALSE,
         Link(m.ledger, m.risk, m.intents, m.decisions), NEW at \in Int, m.ledger.asOf <= at,
         NEW r \in Requests, Placeable(m, r), NEW p, p = Place(m, r, at)
  PROVE  Advanced(m, p, r, at)
<1> DEFINE L == m.ledger
           S == m.risk
           n == Len(S.entries)
           I == m.intents \cup {r.intent}
           D == m.decisions \cup {r.decision}
           T == Evaluate(S, r, at)
           token == T.controls.token
           U == Handoff(T, n + 1, token, at)
           issues == Issues(T, n + 1, token, at)
           permit == Permit(T, n + 1, token, at)
           before == [m EXCEPT !.risk = T, !.intents = I, !.decisions = D]
           after == [m EXCEPT !.risk = U, !.intents = I, !.decisions = D]
           M == Submit(L, permit, at)
<1>1. p = HandOver(before, n + 1, at)
  BY DEF Place, Remember, MachineFields
<1>2. before.risk = T /\ before.ledger = L
  BY DEF MachineFields
<1>3. [before EXCEPT !.risk = Handoff(@, n + 1, token, at)] = after
  BY DEF MachineFields
<1>4. /\ ~issues => p = after
      /\ issues /\ Submittable(L, permit, at) => p = [after EXCEPT !.ledger = M]
  <2>1. PICK b : b = before
    OBVIOUS
  <2> HIDE DEF before
  <2>2. b.risk = T /\ b.ledger = L /\ [b EXCEPT !.risk = Handoff(b.risk, n + 1, token, at)] = after
        /\ after.ledger = L
    BY <1>2, <1>3, <2>1 DEF MachineFields
  <2> HIDE DEF T, U, after, L, M
  <2>3. token = b.risk.controls.token
    BY <2>2
  <2>4. PICK a, q, k, c : /\ a = after /\ q = Permit(T, n + 1, token, at) /\ k = n + 1
                          /\ c = [a EXCEPT !.ledger = Submit(a.ledger, q, at)]
    OBVIOUS
  <2>5. /\ ~Issues(T, k, token, at) => p = a
        /\ Issues(T, k, token, at) /\ Submittable(L, q, at) => p = c
    <3>1. q = Permit(b.risk, k, token, at) /\ a = [b EXCEPT !.risk = Handoff(b.risk, k, token, at)]
      BY <2>2, <2>3, <2>4
    <3>2. p = HandOver(b, k, at)
      BY <1>1, <2>1, <2>4
    <3>3. HandedOver(b, k, token, at, q, a, c, p)
      BY <2>3, <2>4, <3>1, <3>2, HandOverIs
    <3>4. QED
      BY <2>2, <3>3 DEF HandedOver
  <2>6. c = [after EXCEPT !.ledger = M]
    BY <2>2, <2>4 DEF M, permit
  <2>7. QED
    BY <2>4, <2>5, <2>6 DEF issues, permit
<1>5. /\ r.intent \notin m.intents /\ r.decision \notin m.decisions /\ ~L.sealed
      /\ L \in LedgerType /\ S \in SessionType /\ n \in Nat
  BY EntriesAre DEF Placeable, Link, Sound, Entered
<1>6. /\ T \in SessionType /\ T.portfolio = S.portfolio
      /\ DOMAIN T.entries = 1..(n + 1) /\ DOMAIN S.entries = 1..n
      /\ \A i \in 1..n : T.entries[i] = S.entries[i]
      /\ T.entries[n + 1] = NewEntry(S, r, Approved(S, r, at), at)
  BY <1>5, EvaluateIs
<1> HIDE DEF L, S, T, n
<1>7. PICK e : e = T.entries[n + 1]
  OBVIOUS
<1>8. e \in EntryType /\ EntryIsSound(e) /\ e.request = r /\ ~e.issued
  BY <1>5, <1>6, <1>7, NewEntryIs
<1>9. token \in Nat /\ n + 1 \in DOMAIN T.entries
  BY <1>5, <1>6 DEF SessionType, ControlType
<1> HIDE DEF token
<1>10. PICK f : f = U.entries[n + 1]
  OBVIOUS
<1>11. /\ U \in SessionType /\ U.portfolio = S.portfolio /\ DOMAIN U.entries = 1..(n + 1)
       /\ \A i \in 1..n : U.entries[i] = S.entries[i]
       /\ f.issued <=> issues
       /\ SameEntry(e, f)
  <2>1. PICK u : u = U
    OBVIOUS
  <2>0. PICK x : x = n + 1
    OBVIOUS
  <2>2. /\ u \in SessionType /\ u.portfolio = T.portfolio
        /\ DOMAIN u.entries = DOMAIN T.entries
        /\ \A i \in DOMAIN T.entries \ {n + 1} : u.entries[i] = T.entries[i]
        /\ u.entries[n + 1].issued <=> (T.entries[n + 1].issued \/ issues)
        /\ SameEntry(T.entries[n + 1], u.entries[n + 1])
    <3>1. x \in DOMAIN T.entries /\ u = Handoff(T, x, token, at)
      BY <1>9, <2>0, <2>1
    <3>2. HandedOff(T, x, Issues(T, x, token, at), u)
      BY <1>6, <3>1, HandoffIs
    <3>3. QED
      BY <2>0, <3>2 DEF HandedOff
  <2>3. f.issued <=> issues
    BY <1>7, <1>8, <1>10, <2>1, <2>2
  <2>4. \A i \in 1..n : i \in DOMAIN T.entries \ {n + 1}
    BY <1>5, <1>6
  <2>5. QED
    BY <1>6, <1>7, <1>10, <2>1, <2>2, <2>3, <2>4
<1>12. /\ f.request = r /\ f.approved = e.approved /\ f.quantity = e.quantity /\ f.debit = e.debit
       /\ f.cost = e.cost
  BY <1>8, <1>11 DEF SameEntry
<1>13. issues => e.approved # 0
  BY <1>7, <1>8 DEF Issues, Consumes, EntryType
<1> HIDE DEF issues, U, permit
<1>14. EntryIsSound(f)
  BY <1>8, <1>11, <1>12, <1>13 DEF EntryIsSound
<1>15. Link(L, U, I, D)
  <2>1. Link(L, S, m.intents, m.decisions)
    BY DEF L, S
  <2>2. n = Len(S.entries)
    BY DEF n
  <2>3. PICK u : u = U
    OBVIOUS
  <2>4. /\ u \in SessionType /\ u.portfolio = S.portfolio /\ DOMAIN u.entries = 1..(n + 1)
        /\ \A i \in 1..n : u.entries[i] = S.entries[i]
        /\ f = u.entries[n + 1] /\ EntryIsSound(f) /\ f.request = r
    BY <1>10, <1>11, <1>12, <1>14, <2>3
  <2>5. Link(L, u, m.intents \cup {r.intent}, m.decisions \cup {r.decision})
    BY <1>5, <2>1, <2>2, <2>4, LinkGrows
  <2>6. QED
    BY <2>3, <2>5
<1> HIDE DEF I, D
<1>16. CASE ~issues
  <2>1. p = after
    BY <1>4, <1>16
  <2>2. /\ DOMAIN p = MachineFields /\ p.refused = FALSE /\ p.ledger = L /\ p.risk = U
        /\ p.intents = I /\ p.decisions = D
    BY <2>1 DEF MachineFields, L
  <2>3. QED
    BY <2>2, <1>10, <1>11, <1>12, <1>15 DEF Advanced, L, S, n, I, D
<1>17. CASE issues
  <2>1. Submittable(L, permit, at)
    <3>1. Link(L, S, m.intents, m.decisions) /\ L.asOf <= at /\ ~L.sealed
      BY <1>5 DEF L, S
    <3>2. n = Len(S.entries) /\ T = Evaluate(S, r, at) /\ Issues(T, n + 1, token, at)
      BY <1>17 DEF n, T, issues
    <3>3. QED
      BY <1>5, <1>9, <3>1, <3>2, PermitLands DEF permit
  <2>2. permit \in PermitType /\ permit.intent = r.intent /\ permit.instrument = r.instrument
        /\ permit.side = r.side /\ permit.approved = e.approved /\ permit.quantity = e.quantity
        /\ permit.debit = e.debit
    <3>1. PICK q : q = permit
      OBVIOUS
    <3>2. q = Permit(T, n + 1, token, at)
      BY <3>1 DEF permit
    <3>3. q \in PermitType /\ q.intent = e.request.intent /\ q.instrument = e.request.instrument
          /\ q.side = e.request.side /\ q.approved = e.approved /\ q.quantity = e.quantity
          /\ q.debit = e.debit
      BY <1>6, <1>7, <1>9, <3>2, PermitIs
    <3>4. QED
      BY <1>8, <3>1, <3>3
  <2>3. PICK o : o = NewOrder(permit, at)
    OBVIOUS
  <2>4. /\ o.intent = permit.intent /\ o.instrument = permit.instrument /\ o.side = permit.side
        /\ o.approved = permit.approved /\ o.maxDebit = permit.debit /\ o.target <= permit.quantity
    BY <2>2, <2>3, NewOrderIs, TargetIs
  <2>5. Backs(U.entries[n + 1], o) /\ n + 1 \in DOMAIN U.entries
    BY <1>5, <1>10, <1>11, <1>12, <1>17, <2>2, <2>4 DEF Backs
  <2> HIDE DEF M
  <2>6. M = Submit(L, permit, at)
    BY DEF M
  <2>7. /\ Link(M, U, I, D) /\ M.orders = Append(L.orders, o) /\ o.intent = permit.intent
        /\ Worth(M) = Worth(L) /\ M.initial = L.initial /\ M.asOf = at
    BY <1>15, <2>1, <2>2, <2>3, <2>5, <2>6, OrderLinks
  <2>8. p = [m EXCEPT !.risk = U, !.intents = I, !.decisions = D, !.ledger = M]
    <3>1. after.ledger = L
      BY DEF MachineFields, L
    <3>2. p = [after EXCEPT !.ledger = M]
      BY <1>4, <1>17, <2>1
    <3>3. QED
      BY <3>2
  <2>9. /\ DOMAIN p = MachineFields /\ p.refused = FALSE /\ p.ledger = M /\ p.risk = U
        /\ p.intents = I /\ p.decisions = D
    BY <2>8 DEF MachineFields
  <2>10. \E x : M.orders = Append(L.orders, x) /\ x.intent = r.intent
    BY <2>2, <2>7
  <2>11. KeepsLimits(M)
    <3>1. M.orders[Len(M.orders)] = o
      <4>1. o \in OrderType /\ L.orders \in Seq(OrderType)
        BY <1>5, <2>2, <2>3, NewOrderIs, OrdersAre
      <4>2. QED
        BY <2>7, <4>1
    <3>2. ASSUME o.side = "buy" PROVE WithinLimits(M)
      <4>1. PICK a : a = Approved(S, r, at)
        OBVIOUS
      <4>2. a \in Nat \ {0} /\ e.approved = a
        <5>1. e.approved # 0 /\ e.approved \in Nat
          BY <1>8, <1>13, <1>17 DEF EntryType
        <5>2. e = NewEntry(S, r, Approved(S, r, at), at)
          BY <1>6, <1>7
        <5>3. e.approved = Approved(S, r, at)
          BY <1>5, <5>2, NewEntryIs
        <5>4. QED
          BY <4>1, <5>1, <5>3
      <4>3. Acceptable(S, Available(S, r.intent), r, a)
        BY <4>1, <4>2, ApprovedIs
      <4>4. r.side = "buy" /\ o.approved = a
        BY <2>2, <2>4, <3>2, <4>2
      <4>5. M \in LedgerType
        BY <2>7 DEF Link, Sound
      <4>6. Link(L, S, m.intents, m.decisions) /\ r.intent \notin m.intents
        BY <1>5 DEF L, S
      <4>7. QED
        BY <2>7, <3>2, <4>2, <4>3, <4>4, <4>5, <4>6, LimitsKept
    <3>3. QED
      BY <3>1, <3>2 DEF KeepsLimits
  <2>12. QED
    BY <2>2, <2>7, <2>9, <2>10, <2>11, <1>10, <1>11, <1>12, <1>15 DEF Advanced, L, S, n, I, D
<1>18. QED
  BY <1>16, <1>17

-------------------------------------------------------------------------------
(* An orders command *)

LEMMA PlacedInTurnIs ==
  ASSUME NEW m, NEW batch, NEW at, NEW N \in Nat, N = Len(batch)
  PROVE  LET f == PlacedInTurn(m, batch, at)
         IN  f[0] = m /\ \A n \in 1..N : f[n] = Place(f[n - 1], batch[n], at)
<1> DEFINE Is(f, k) ==
             f = [n \in 0..k |-> IF n = 0 THEN m ELSE Place(f[n - 1], batch[n], at)]
           T == {k \in 0..N : ~\E f : Is(f, k)}
<1>1. T = {}
  <2>1. SUFFICES ASSUME T # {} PROVE FALSE
    OBVIOUS
  <2>2. PICK k \in T : \A y \in T : k <= y
    <3> HIDE DEF Is
    <3>1. T \in SUBSET Nat
      OBVIOUS
    <3>2. QED
      BY <2>1, <3>1, LeastExists
  <2>3. CASE k = 0
    <3> DEFINE g == [n \in 0..0 |-> m]
    <3>1. Is(g, 0)
      OBVIOUS
    <3>2. QED
      BY <2>2, <2>3, <3>1
  <2>4. CASE k # 0
    <3>1. k - 1 \in 0..N /\ k - 1 \notin T
      <4> HIDE DEF Is
      <4>1. QED
        BY <2>2, <2>4
    <3>2. PICK f : Is(f, k - 1)
      BY <3>1
    <3> DEFINE g == [n \in 0..k |-> IF n = k THEN Place(f[k - 1], batch[k], at) ELSE f[n]]
    <3>3. Is(g, k)
      BY <2>4, <3>2
    <3>4. QED
      BY <2>2, <3>3
  <2>5. QED
    BY <2>3, <2>4
<1>2. \E f : Is(f, N)
  BY <1>1
<1>3. Is(PlacedInTurn(m, batch, at), N)
  BY <1>2 DEF PlacedInTurn
<1>4. QED
  BY <1>3

(* What requests that raised nothing have made of a machine m.             *)
Extended(m, p, at) ==
  /\ Link(p.ledger, p.risk, p.intents, p.decisions)
  /\ m.intents \subseteq p.intents /\ m.decisions \subseteq p.decisions
  /\ p.ledger.asOf <= at /\ Worth(p.ledger) = Worth(m.ledger) /\ p.ledger.initial = m.ledger.initial
  /\ DOMAIN m.ledger.orders \subseteq DOMAIN p.ledger.orders
  /\ \A i \in DOMAIN m.ledger.orders : p.ledger.orders[i] = m.ledger.orders[i]
  /\ \A i \in DOMAIN p.ledger.orders \ DOMAIN m.ledger.orders : p.ledger.orders[i].intent \notin m.intents
  /\ \A i \in DOMAIN p.risk.entries :
       \/ p.risk.entries[i].request.intent \in m.intents
       \/ p.risk.entries[i].request.decision \notin m.decisions
  /\ Len(p.ledger.orders) > Len(m.ledger.orders) => KeepsLimits(p.ledger)

Grown(m, p, at) ==
  /\ DOMAIN p = MachineFields /\ p.refused \in BOOLEAN
  /\ p.refused = FALSE => Extended(m, p, at)

LEMMA ExtendedGrows ==
  ASSUME NEW m, NEW p, NEW at, Extended(m, p, at), NEW r, r.intent \notin p.intents,
         r.decision \notin p.decisions, NEW q, Advanced(p, q, r, at)
  PROVE  Extended(m, q, at)
<1> DEFINE n == Len(p.risk.entries)
<1>1. /\ p.ledger \in LedgerType /\ q.ledger \in LedgerType
      /\ p.risk \in SessionType /\ n \in Nat /\ DOMAIN p.risk.entries = 1..n
  BY EntriesAre DEF Extended, Advanced, Link, Sound, Entered
<1>2. /\ q.intents = p.intents \cup {r.intent} /\ q.decisions = p.decisions \cup {r.decision}
      /\ m.intents \subseteq p.intents /\ m.decisions \subseteq p.decisions
      /\ q.ledger.asOf <= at /\ Worth(q.ledger) = Worth(m.ledger)
      /\ q.ledger.initial = m.ledger.initial
      /\ Link(q.ledger, q.risk, q.intents, q.decisions)
  BY DEF Extended, Advanced
<1>3. \A i \in DOMAIN q.risk.entries :
        \/ q.risk.entries[i].request.intent \in m.intents
        \/ q.risk.entries[i].request.decision \notin m.decisions
  <2>1. /\ DOMAIN q.risk.entries = 1..(n + 1) /\ \A i \in 1..n : q.risk.entries[i] = p.risk.entries[i]
        /\ q.risk.entries[n + 1].request = r
    BY DEF Advanced
  <2>2. \A i \in 1..n : \/ p.risk.entries[i].request.intent \in m.intents
                        \/ p.risk.entries[i].request.decision \notin m.decisions
    BY <1>1 DEF Extended
  <2>3. \A i \in 1..(n + 1) : i \in 1..n \/ i = n + 1
    BY <1>1
  <2>4. QED
    BY <2>1, <2>2, <2>3, <1>2
<1> HIDE DEF n
<1>4. CASE q.ledger = p.ledger
  BY <1>2, <1>3, <1>4 DEF Extended
<1>5. ASSUME NEW o, q.ledger.orders = Append(p.ledger.orders, o), o.intent = r.intent,
             KeepsLimits(q.ledger)
      PROVE  Extended(m, q, at)
  <2>1. PICK k : k = Len(p.ledger.orders) + 1
    OBVIOUS
  <2>2. p.ledger.orders \in Seq(OrderType) /\ Len(p.ledger.orders) \in Nat
    BY <1>1, OrdersAre
  <2>3. /\ DOMAIN q.ledger.orders = (DOMAIN p.ledger.orders) \cup {k}
        /\ q.ledger.orders[k] = o
        /\ \A i \in DOMAIN p.ledger.orders : q.ledger.orders[i] = p.ledger.orders[i]
    BY <1>5, <2>1, <2>2
  <2>4. /\ DOMAIN m.ledger.orders \subseteq DOMAIN p.ledger.orders
        /\ \A i \in DOMAIN m.ledger.orders : p.ledger.orders[i] = m.ledger.orders[i]
        /\ \A i \in DOMAIN p.ledger.orders \ DOMAIN m.ledger.orders :
             p.ledger.orders[i].intent \notin m.intents
    BY DEF Extended
  <2>0. KeepsLimits(q.ledger)
    BY <1>5
  <2>5. /\ DOMAIN m.ledger.orders \subseteq DOMAIN q.ledger.orders
        /\ \A i \in DOMAIN m.ledger.orders : q.ledger.orders[i] = m.ledger.orders[i]
        /\ \A i \in DOMAIN q.ledger.orders \ DOMAIN m.ledger.orders :
             q.ledger.orders[i].intent \notin m.intents
    BY <2>3, <2>4, <1>2, <1>5
  <2>6. QED
    BY <2>0, <2>5, <1>2, <1>3 DEF Extended
<1>6. QED
  BY <1>4, <1>5 DEF Advanced

LEMMA ExtendedStarts ==
  ASSUME NEW m, Link(m.ledger, m.risk, m.intents, m.decisions), NEW at, m.ledger.asOf <= at
  PROVE  Extended(m, m, at)
<1>1. \A i \in DOMAIN m.risk.entries : m.risk.entries[i].request.intent \in m.intents
  BY DEF Link, Entered
<1>2. Len(m.ledger.orders) \in Nat
  BY OrdersAre DEF Link, Sound
<1>3. QED
  BY <1>1, <1>2 DEF Extended

LEMMA OrdersExtend ==
  ASSUME NEW m, DOMAIN m = MachineFields, m.refused = FALSE,
         Link(m.ledger, m.risk, m.intents, m.decisions), NEW at \in Int, m.ledger.asOf <= at,
         NEW batch \in Seq(Requests), NEW p, p = PlacedInTurn(m, batch, at)[Len(batch)], ~p.refused
  PROVE  Extended(m, p, at)
<1> DEFINE N == Len(batch)
           f == PlacedInTurn(m, batch, at)
           T == {n \in 0..N : ~Grown(m, f[n], at)}
<1>1. N \in Nat /\ \A n \in 1..N : batch[n] \in Requests
  OBVIOUS
<1>2. f[0] = m /\ \A n \in 1..N : f[n] = Place(f[n - 1], batch[n], at)
  BY <1>1, PlacedInTurnIs
<1> HIDE DEF f, N
<1>3. Grown(m, f[0], at)
  BY <1>2, ExtendedStarts DEF Grown
<1>4. ASSUME NEW n \in 1..N, Grown(m, f[n - 1], at) PROVE Grown(m, f[n], at)
  <2>1. PICK s, r, q : s = f[n - 1] /\ r = batch[n] /\ q = f[n]
    OBVIOUS
  <2>2. Grown(m, s, at) /\ r \in Requests /\ q = Place(s, r, at)
    BY <1>1, <1>2, <1>4, <2>1
  <2>3. CASE Placeable(s, r)
    <3>1. s.refused = FALSE /\ DOMAIN s = MachineFields /\ Extended(m, s, at)
          /\ r.intent \notin s.intents /\ r.decision \notin s.decisions
      BY <2>2, <2>3 DEF Placeable, Grown
    <3>2. Link(s.ledger, s.risk, s.intents, s.decisions) /\ s.ledger.asOf <= at
      BY <3>1 DEF Extended
    <3>3. Advanced(s, q, r, at)
      BY <2>2, <2>3, <3>1, <3>2, PlaceIs
    <3>4. Extended(m, q, at)
      BY <3>1, <3>3, ExtendedGrows
    <3>5. QED
      BY <2>1, <3>3, <3>4 DEF Grown, Advanced
  <2>4. CASE ~Placeable(s, r)
    <3>1. q = Refused(s)
      BY <2>2, <2>4 DEF Place
    <3>2. DOMAIN q = MachineFields /\ q.refused = TRUE
      BY <2>2, <3>1 DEF Refused, Grown, MachineFields
    <3>3. QED
      BY <2>1, <3>2 DEF Grown
  <2>5. QED
    BY <2>3, <2>4
<1>5. T = {}
  <2>1. SUFFICES ASSUME T # {} PROVE FALSE
    OBVIOUS
  <2>2. T \in SUBSET Nat
    OBVIOUS
  <2>3. PICK k \in T : \A y \in T : k <= y
    BY <2>1, <2>2, LeastExists
  <2>4. k \in 1..N /\ k - 1 \in 0..N /\ k - 1 \notin T
    BY <1>1, <1>3, <2>3
  <2>5. QED
    BY <1>4, <2>3, <2>4
<1>6. Grown(m, p, at)
  <2>1. Grown(m, f[N], at)
    BY <1>1, <1>5
  <2>2. p = f[N]
    BY DEF f, N
  <2>3. QED
    BY <2>1, <2>2
<1>7. QED
  BY <1>6 DEF Grown

-------------------------------------------------------------------------------
(* The account *)

LEMMA BeginningIs ==
  ASSUME NEW P \in PortfolioType, NEW C \in ControlType, NEW L \in LedgerType, L.orders = <<>>,
         L.initial = P, L.cash = P.cash, L.cash >= 0, NEW I, NEW D,
         \A k \in Instruments : Owned(P, k) <= Held(L, k)
  PROVE  Link(L, NewSession(P, C), I, D)
<1> DEFINE S == NewSession(P, C)
<1>1. DOMAIN L.orders = {} /\ OpenOrders(L) = {} /\ \A k : Sells(L, k) = {} /\ SellOrders(L, k) = {}
  BY DEF OpenOrders, Sells, SellOrders
<1>2. Total(Due(L)) = 0 /\ Total(Debits(L)) = 0
      /\ \A k : Total(Left(L, k)) = 0 /\ Total(SellTargets(L, k)) = 0
  <2>1. DOMAIN Due(L) = {} /\ DOMAIN Debits(L) = {}
        /\ \A k : DOMAIN Left(L, k) = {} /\ DOMAIN SellTargets(L, k) = {}
    BY <1>1 DEF Due, Debits, Left, SellTargets
  <2>2. QED
    BY <2>1, TotalEmpty
<1>3. L.cash \in Int /\ \A k \in Instruments : Held(L, k) \in Nat /\ Owned(P, k) \in Int
  <2>1. P.quantity \in Partial(Instruments, Nat)
    BY DEF PortfolioType
  <2>2. \A k \in Instruments : Owned(P, k) \in Int
    BY <2>1 DEF Owned, Partial
  <2>3. QED
    BY <2>2, HoldingsAre DEF LedgerType
<1>4. Slack(L) = L.cash /\ \A k \in Instruments : Spare(L, k) = Held(L, k)
  BY <1>2, <1>3 DEF Slack, Spare
<1>5. Solvent(L) /\ Untouched(L) /\ Covered(L)
  <2>1. Slack(L) >= L.initial.cash - Total(Debits(L))
    BY <1>2, <1>3, <1>4
  <2>2. \A k \in Instruments : Spare(L, k) >= Owned(L.initial, k) - Total(SellTargets(L, k))
    BY <1>2, <1>3, <1>4
  <2>3. Covered(L)
    BY <2>1, <2>2 DEF Covered
  <2>4. QED
    BY <1>1, <1>3, <1>4, <2>3 DEF Solvent, Untouched
<1>6. Sound(L)
  BY <1>1, <1>5 DEF Sound
<1>7. S \in SessionType /\ S.entries = <<>> /\ S.portfolio = P
  BY DEF NewSession, SessionType
<1>8. Entered(S, I, D) /\ Backed(L, S)
  BY <1>1, <1>7 DEF Entered, Backed
<1>9. QED
  BY <1>6, <1>8 DEF Link

LEMMA OpeningIs ==
  /\ InitialLedger \in LedgerType /\ InitialControls \in ControlType
  /\ InitialLedger.orders = <<>> /\ InitialLedger.asOf \in Int
  /\ InitialLedger.cash >= 0 /\ InitialLedger.initial = Snapshot(InitialLedger)
<1> DEFINE L == InitialLedger
<1>1. /\ L = [cash |-> L.cash, holdings |-> L.holdings, realized |-> L.realized, fees |-> 0,
              orders |-> <<>>, books |-> <<>>, healthy |-> <<>>, asOf |-> L.asOf, sealed |-> FALSE,
              peak |-> L.peak, initial |-> L.initial]
      /\ L.cash \in Nat /\ L.realized \in Int /\ L.asOf \in Int /\ L.peak \in Int
      /\ IsPartial(L.holdings, Instruments, HoldingType)
      /\ L.initial = Snapshot(L)
  BY TradingAssumption DEF Opens
<1>2. L.holdings \in Partial(Instruments, HoldingType)
  BY <1>1 DEF IsPartial, Partial
<1>3. <<>> \in Partial(Instruments, CursorType) /\ <<>> \in Partial(Instruments, BOOLEAN)
  <2>1. <<>> \in [{} -> CursorType] /\ <<>> \in [{} -> BOOLEAN] /\ {} \in SUBSET Instruments
    OBVIOUS
  <2>2. QED
    BY <2>1 DEF Partial
<1> DEFINE P == L.initial
           M == [L EXCEPT !.initial = [cash |-> 0, equity |-> 0, exposure |-> <<>>, quantity |-> <<>>,
                                       realized |-> 0, peak |-> 0, openOrders |-> 0,
                                       reconciled |-> TRUE, asOf |-> 0]]
<1>4. P \in PortfolioType
  <2> DEFINE Q == [cash |-> 0, equity |-> 0, exposure |-> <<>>, quantity |-> <<>>, realized |-> 0,
                   peak |-> 0, openOrders |-> 0, reconciled |-> TRUE, asOf |-> 0]
  <2>1. <<>> \in Partial(Instruments, Nat)
    <3>1. <<>> \in [{} -> Nat] /\ {} \in SUBSET Instruments
      OBVIOUS
    <3>2. QED
      BY <3>1 DEF Partial
  <2>2. Q \in PortfolioType
    BY <2>1 DEF PortfolioType
  <2> HIDE DEF Q, L
  <2>3. M = [L EXCEPT !.initial = Q]
    BY DEF Q
  <2> HIDE DEF M
  <2>4. M = [cash |-> L.cash, holdings |-> L.holdings, realized |-> L.realized, fees |-> 0,
             orders |-> <<>>, books |-> <<>>, healthy |-> <<>>, asOf |-> L.asOf, sealed |-> FALSE,
             peak |-> L.peak, initial |-> Q]
    <3>1. PICK c, h, r, a, p, s : /\ c = L.cash /\ h = L.holdings /\ r = L.realized /\ a = L.asOf
                                  /\ p = L.peak /\ s = L.initial
      OBVIOUS
    <3>2. L = [cash |-> c, holdings |-> h, realized |-> r, fees |-> 0, orders |-> <<>>, books |-> <<>>,
               healthy |-> <<>>, asOf |-> a, sealed |-> FALSE, peak |-> p, initial |-> s]
      BY <1>1, <3>1
    <3>3. M = [cash |-> c, holdings |-> h, realized |-> r, fees |-> 0, orders |-> <<>>, books |-> <<>>,
               healthy |-> <<>>, asOf |-> a, sealed |-> FALSE, peak |-> p, initial |-> Q]
      BY <2>3, <3>2
    <3>4. QED
      BY <3>1, <3>3
  <2>5. M \in LedgerType
    BY <1>1, <1>2, <1>3, <2>2, <2>4 DEF LedgerType
  <2>6. Snapshot(M) \in PortfolioType
    BY <2>5, SnapshotIs
  <2>7. /\ M.cash = L.cash /\ M.holdings = L.holdings /\ M.realized = L.realized
        /\ M.orders = L.orders /\ M.healthy = L.healthy /\ M.asOf = L.asOf /\ M.peak = L.peak
    BY <1>1, <2>4
  <2>8. Positions(M) = Positions(L) /\ OpenOrders(M) = OpenOrders(L)
    BY <2>7 DEF Positions, OpenOrders
  <2>9. Equity(M) = Equity(L) /\ Reconciled(M) = Reconciled(L)
    BY <2>7, <2>8 DEF Equity, Reconciled, ValueOf
  <2>10. Snapshot(M) = Snapshot(L)
    BY <2>7, <2>8, <2>9 DEF Snapshot, ValueOf
  <2>11. QED
    BY <1>1, <2>6, <2>10 DEF L
<1> HIDE DEF L, P, M
<1>5. L.initial \in PortfolioType
  BY <1>4 DEF P
<1>6. L \in LedgerType
  <2>1. PICK c, h, r, a, p, s : /\ c = L.cash /\ h = L.holdings /\ r = L.realized /\ a = L.asOf
                                /\ p = L.peak /\ s = L.initial
    OBVIOUS
  <2>2. L = [cash |-> c, holdings |-> h, realized |-> r, fees |-> 0, orders |-> <<>>, books |-> <<>>,
             healthy |-> <<>>, asOf |-> a, sealed |-> FALSE, peak |-> p, initial |-> s]
    BY <1>1, <2>1
  <2>3. c \in Nat /\ r \in Int /\ a \in Int /\ p \in Int /\ s \in PortfolioType
        /\ h \in Partial(Instruments, HoldingType)
    BY <1>1, <1>2, <1>5, <2>1
  <2>4. QED
    BY <1>3, <2>2, <2>3 DEF LedgerType
<1>7. InitialControls \in ControlType
  BY TradingAssumption
<1>8. L.orders = <<>>
  BY <1>1
<1>9. QED
  BY <1>1, <1>6, <1>7, <1>8 DEF L

LEMMA SnapshotOwns ==
  ASSUME NEW L \in LedgerType
  PROVE  /\ Snapshot(L).cash = L.cash
         /\ \A k \in Instruments : Owned(Snapshot(L), k) = Held(L, k)
<1>1. DOMAIN Snapshot(L).quantity = Positions(L)
      /\ \A k \in Positions(L) : Snapshot(L).quantity[k] = Held(L, k)
  BY SnapshotIs
<1>2. \A k : k \notin Positions(L) => Held(L, k) = 0
  BY DEF Positions, Held
<1>3. Snapshot(L).cash = L.cash
  BY DEF Snapshot
<1>4. QED
  BY <1>1, <1>2, <1>3 DEF Owned

LEMMA InitKeeps == Init => IInv
<1> SUFFICES ASSUME Init PROVE IInv
  OBVIOUS
<1>1. ledger = InitialLedger /\ now = InitialLedger.asOf
      /\ risk = NewSession(InitialLedger.initial, InitialControls)
      /\ placed = [d \in DecisionIds |-> 0]
  BY DEF Init
<1>2. PICK L, P : L = InitialLedger /\ P = L.initial
  OBVIOUS
<1>3. /\ L \in LedgerType /\ InitialControls \in ControlType /\ L.orders = <<>> /\ L.asOf \in Int
      /\ L.cash >= 0 /\ P = Snapshot(L) /\ P \in PortfolioType
  BY <1>2, OpeningIs DEF LedgerType
<1>4. L.cash = P.cash /\ \A k \in Instruments : Owned(P, k) <= Held(L, k)
  <2>1. \A k \in Instruments : Owned(P, k) = Held(L, k) /\ Held(L, k) \in Nat
    BY <1>3, SnapshotOwns, HoldingsAre
  <2>2. QED
    BY <2>1, <1>3, SnapshotOwns
<1>5. Link(L, NewSession(P, InitialControls), intents, decisions)
  BY <1>2, <1>3, <1>4, BeginningIs
<1>6. QED
  BY <1>1, <1>2, <1>3, <1>5 DEF IInv

(* Time passing leaves the account as sound as it was.                     *)
LEMMA LinkStays ==
  ASSUME NEW L, NEW S, NEW I, NEW D, Link(L, S, I, D), NEW M, Kept(L, M), Untouched(M)
  PROVE  Link(M, S, I, D)
<1>1. Sound(L) /\ Backed(L, S) /\ Entered(S, I, D) /\ L \in LedgerType
  BY DEF Link, Sound
<1>2. SameOrders(L, M) /\ M.initial = L.initial
  BY DEF Kept
<1>3. Sound(M) /\ Backed(M, S)
  BY <1>1, <1>2, CoveredStays, BackingStays
<1>4. QED
  BY <1>1, <1>3 DEF Link

Cancels(L, M, at) ==
  /\ Kept(L, M) /\ Untouched(M) /\ M.asOf = at /\ Final(L, M)
  /\ \A i \in DOMAIN L.orders : M.orders[i].filled = L.orders[i].filled

LEMMA CancelIs ==
  ASSUME NEW L \in LedgerType, Solvent(L), Untouched(L), NEW intent, NEW at \in Int
  PROVE  Cancels(L, Cancel(L, intent, at), at)
<1> DEFINE O == [i \in DOMAIN L.orders |->
                   IF L.orders[i].intent = intent /\ L.orders[i].status = "submitted"
                   THEN [L.orders[i] EXCEPT !.status = "cancelled"] ELSE L.orders[i]]
           N == [L EXCEPT !.orders = O]
           M == Cancel(L, intent, at)
<1>1. L.orders \in Seq(OrderType) /\ Len(L.orders) \in Nat /\ DOMAIN L.orders = 1..Len(L.orders)
      /\ \A i \in DOMAIN L.orders : L.orders[i] \in OrderType
  BY OrdersAre
<1>2. "cancelled" \in Statuses \ {"submitted"}
  BY DEF Statuses
<1>3. ASSUME NEW i \in DOMAIN L.orders
      PROVE  /\ O[i] \in OrderType /\ (O[i] = L.orders[i] \/ Closed(L.orders[i], O[i]))
             /\ O[i].filled = L.orders[i].filled
             /\ O[i].status = "submitted" => O[i] = L.orders[i]
  <2>1. PICK o : o = L.orders[i]
    OBVIOUS
  <2>2. o \in OrderType
    BY <1>1, <2>1
  <2>3. /\ [o EXCEPT !.status = "cancelled"] \in OrderType
        /\ [o EXCEPT !.status = "cancelled"].filled = o.filled
        /\ [o EXCEPT !.status = "cancelled"].status = "cancelled"
    BY <2>2, <1>2 DEF OrderType
  <2>4. Closed(o, [o EXCEPT !.status = "cancelled"])
    BY <1>2 DEF Closed
  <2>5. O[i] = o \/ O[i] = [o EXCEPT !.status = "cancelled"]
    BY <2>1
  <2> HIDE DEF O
  <2>6. QED
    BY <2>1, <2>2, <2>3, <2>4, <2>5
<1>4. O \in Seq(OrderType) /\ DOMAIN O = DOMAIN L.orders
  <2>1. O \in [1..Len(L.orders) -> OrderType] /\ DOMAIN O = DOMAIN L.orders
    <3>1. DOMAIN O = DOMAIN L.orders /\ O = [i \in DOMAIN L.orders |-> O[i]]
      OBVIOUS
    <3> HIDE DEF O
    <3>2. QED
      BY <1>1, <1>3, <3>1
  <2> HIDE DEF O
  <2>2. QED
    BY <1>1, <2>1
<1>5. M = Stamped(N, at)
  BY DEF Cancel
<1> HIDE DEF O
<1>6. N \in LedgerType /\ N.orders = O /\ N.cash = L.cash /\ N.realized = L.realized
      /\ N.initial = L.initial /\ N.holdings = L.holdings
  BY <1>4 DEF LedgerType
<1> HIDE DEF N, M
<1>7. M \in LedgerType /\ M.asOf = at /\ M.orders = O /\ M.cash = L.cash /\ M.realized = L.realized
      /\ M.initial = L.initial /\ M.holdings = L.holdings
  BY <1>5, <1>6, StampedIs
<1>8. Basis(M) = Basis(L) /\ \A k \in Instruments : Held(M, k) = Held(L, k)
  BY <1>7 DEF Basis, Held
<1>9. Kept(L, M)
  BY <1>3, <1>4, <1>7, <1>8, ClosingKeeps
<1>10. Untouched(M)
  BY <1>3, <1>4, <1>7 DEF Untouched, OpenOrders
<1>11. Final(L, M)
  <2>1. \A i \in DOMAIN L.orders : L.orders[i].status # "submitted" => O[i] = L.orders[i]
    BY DEF O
  <2>2. QED
    BY <2>1, <1>4, <1>7 DEF Final
<1>12. QED
  BY <1>3, <1>7, <1>9, <1>10, <1>11 DEF M, Cancels

LEMMA BooksAre ==
  ASSUME NEW at \in Int, NEW book \in BooksAt(at), book.instrument \in Instruments
  PROVE  book \in BookType
<1>1. PICK f \in Feeds, s \in 1..MaxSequence, d \in Delays :
        book = [instrument |-> f.instrument, bids |-> f.bids, asks |-> f.asks, resync |-> f.resync,
                sequence |-> s, event |-> at - d[1] - d[2], received |-> at - d[2]]
  BY DEF BooksAt
<1>2. d[1] \in Nat /\ d[2] \in Nat
  BY AccountAssumption
<1>3. /\ f.bids \in Seq(LevelType) \ {<<>>} /\ f.asks \in Seq(LevelType) /\ f.resync \in BOOLEAN
      /\ f.instrument \in Instruments
  BY <1>1, TradingAssumption
<1>4. s \in Int /\ at - d[1] - d[2] \in Int /\ at - d[2] \in Int
  BY <1>2
<1>5. PICK b, a, k, r, e, c : /\ b = f.bids /\ a = f.asks /\ k = f.instrument /\ r = f.resync
                              /\ e = at - d[1] - d[2] /\ c = at - d[2]
  OBVIOUS
<1>6. book = [instrument |-> k, bids |-> b, asks |-> a, resync |-> r, sequence |-> s, event |-> e,
              received |-> c]
  BY <1>1, <1>5
<1>7. k \in Instruments /\ b \in Seq(LevelType) \ {<<>>} /\ a \in Seq(LevelType) /\ r \in BOOLEAN
      /\ e \in Int /\ c \in Int
  BY <1>3, <1>4, <1>5
<1>8. QED
  BY <1>4, <1>6, <1>7 DEF BookType

LEMMA LinkIs ==
  ASSUME NEW L, NEW S, NEW I, NEW D, Link(L, S, I, D)
  PROVE  L \in LedgerType /\ Solvent(L) /\ Untouched(L) /\ Sound(L) /\ S \in SessionType
         /\ S.portfolio = L.initial
BY DEF Link, Sound, Entered, Backed

LEMMA ObserveMarketKeeps ==
  ASSUME IInv, NEW at \in now..MaxTime, NEW book \in BooksAt(at), ObserveMarket(book, at)
  PROVE  IInv'
<1>1. at \in Int /\ Link(ledger, risk, intents, decisions)
  BY DEF IInv
<1>2. /\ ledger' = AfterMarket(book, at).ledger /\ book.instrument \in Instruments
      /\ now' = at /\ risk' = risk /\ intents' = intents /\ decisions' = decisions
      /\ placed' = placed
  BY DEF ObserveMarket, Applied, MarketAccepted
<1>3. book \in BookType
  BY <1>1, <1>2, BooksAre
<1>4. PICK L, M, blocked, m : L = ledger /\ m = Market(L, book, at, blocked) /\ M = m.ledger /\ M = ledger'
  BY <1>2 DEF AfterMarket
<1>5. L \in LedgerType /\ Solvent(L) /\ Untouched(L)
  BY <1>1, <1>4, LinkIs
<1>6. /\ Kept(L, M) /\ M.asOf = at
      /\ \A i \in DOMAIN L.orders : M.orders[i].status = "submitted" => M.orders[i] = L.orders[i]
  <2>1. Settles(L, book, at, blocked, m)
    BY <1>1, <1>3, <1>4, <1>5, MarketIs
  <2>2. QED
    BY <2>1, <1>4 DEF Settles
<1>7. Untouched(M)
  BY <1>5, <1>6 DEF Untouched, OpenOrders, Kept, SameOrders
<1>8. Link(M, risk, intents, decisions) /\ Worth(M) = Worth(L)
  BY <1>1, <1>4, <1>6, <1>7, LinkStays DEF Kept
<1>9. QED
  BY <1>1, <1>2, <1>4, <1>6, <1>8 DEF IInv

LEMMA CancelOrderKeeps ==
  ASSUME IInv, NEW at \in now..MaxTime, NEW intent, CancelOrder(intent, at)
  PROVE  IInv'
<1>1. at \in Int /\ Link(ledger, risk, intents, decisions)
  BY DEF IInv
<1>2. /\ ledger' = Cancel(ledger, intent, at)
      /\ now' = at /\ risk' = risk /\ intents' = intents /\ decisions' = decisions
      /\ placed' = placed
  BY DEF CancelOrder, Applied
<1>3. PICK L, M : L = ledger /\ M = Cancel(L, intent, at) /\ M = ledger'
  BY <1>2
<1>4. Kept(L, M) /\ Untouched(M) /\ M.asOf = at
  <2>1. L \in LedgerType /\ Solvent(L) /\ Untouched(L)
    BY <1>1, <1>3, LinkIs
  <2>2. Cancels(L, Cancel(L, intent, at), at)
    BY <1>1, <2>1, CancelIs
  <2>3. QED
    BY <1>3, <2>2 DEF Cancels
<1>5. Link(M, risk, intents, decisions) /\ Worth(M) = Worth(L)
  BY <1>1, <1>3, <1>4, LinkStays DEF Kept
<1>6. QED
  BY <1>1, <1>2, <1>3, <1>4, <1>5 DEF IInv

LEMMA ReconcileKeeps ==
  ASSUME IInv, NEW at \in now..MaxTime, Reconcile(at)
  PROVE  IInv'
<1>1. at \in Int /\ Link(ledger, risk, intents, decisions)
  BY DEF IInv
<1>2. /\ ledger' = [ledger EXCEPT !.asOf = at]
      /\ now' = at /\ risk' = risk /\ intents' = intents /\ decisions' = decisions
      /\ placed' = placed
  BY DEF Reconcile, Applied
<1>3. PICK L, M : L = ledger /\ M = [L EXCEPT !.asOf = at] /\ M = ledger'
  BY <1>2
<1>4. L \in LedgerType /\ Solvent(L) /\ Untouched(L)
  BY <1>1, <1>3, LinkIs
<1>5. M \in LedgerType /\ M.asOf = at /\ M.orders = L.orders /\ M.holdings = L.holdings
      /\ M.cash = L.cash /\ M.realized = L.realized /\ M.initial = L.initial
  BY <1>1, <1>3, <1>4, TimeIs
<1>6. Kept(L, M) /\ Untouched(M)
  BY <1>4, <1>5, SameMoneyKeeps DEF Untouched, OpenOrders
<1>7. Link(M, risk, intents, decisions) /\ Worth(M) = Worth(L)
  BY <1>1, <1>3, <1>6, LinkStays DEF Kept
<1>8. QED
  BY <1>1, <1>2, <1>3, <1>5, <1>7 DEF IInv

LEMMA ChangeControlsKeeps ==
  ASSUME IInv, NEW at \in now..MaxTime, NEW controls \in ControlStates, ChangeControls(controls, at)
  PROVE  IInv'
<1>1. at \in Int /\ Link(ledger, risk, intents, decisions)
  BY DEF IInv
<1>2. /\ risk' = UpdateControls(risk, controls) /\ ledger' = ledger
      /\ now' = at /\ intents' = intents /\ decisions' = decisions /\ placed' = placed
  BY DEF ChangeControls, Applied
<1>3. PICK S, T : S = risk /\ T = [S EXCEPT !.controls = controls] /\ T = risk'
  BY <1>2 DEF UpdateControls
<1>4. controls \in ControlType /\ S \in SessionType
  BY <1>1, <1>3, LinkIs, TradingAssumption
<1>5. T \in SessionType /\ T.entries = S.entries /\ T.portfolio = S.portfolio
  BY <1>3, <1>4 DEF SessionType
<1>6. Link(ledger, T, intents, decisions)
  BY <1>1, <1>3, <1>5 DEF Link, Entered, Backed
<1>7. ledger.asOf <= at
  <2>1. ledger.asOf \in Int /\ now \in Int /\ ledger.asOf <= now
    BY <1>1, LinkIs DEF IInv, LedgerType
  <2>2. QED
    BY <2>1
<1>8. QED
  BY <1>1, <1>2, <1>3, <1>6, <1>7 DEF IInv

LEMMA AdvanceKeeps ==
  ASSUME IInv, NEW at \in now..MaxTime, Advance(at)
  PROVE  IInv'
<1>1. at \in Int /\ Link(ledger, risk, intents, decisions)
  BY DEF IInv
<1>2. /\ ledger' = BeginGeneration(ledger, at) /\ risk' = NewSession(ledger'.initial, risk.controls)
      /\ now' = at /\ intents' = intents /\ decisions' = decisions /\ placed' = placed
  BY DEF Advance, Applied
<1>3. PICK L, N, P, M : /\ L = ledger /\ N = [L EXCEPT !.asOf = at] /\ P = Snapshot(N)
                        /\ M = [L EXCEPT !.asOf = at, !.initial = P, !.orders = <<>>, !.sealed = FALSE]
                        /\ M = ledger'
  BY <1>2 DEF BeginGeneration
<1>4. L \in LedgerType /\ Solvent(L) /\ risk.controls \in ControlType
  BY <1>1, <1>3, LinkIs DEF SessionType
<1>5. N \in LedgerType /\ N.cash = L.cash /\ N.holdings = L.holdings
  BY <1>1, <1>3, <1>4, TimeIs
<1>6. P \in PortfolioType /\ P.cash = L.cash
  BY <1>3, <1>5, SnapshotIs, SnapshotOwns
<1>7. <<>> \in Seq(OrderType)
  OBVIOUS
<1>8. /\ M \in LedgerType /\ M.orders = <<>> /\ M.initial = P /\ M.cash = L.cash /\ M.asOf = at
      /\ M.holdings = L.holdings /\ M.realized = L.realized
  BY <1>1, <1>3, <1>4, <1>6, <1>7 DEF LedgerType
<1>9. \A k \in Instruments : Owned(P, k) <= Held(M, k)
  <2>1. \A k \in Instruments : Owned(P, k) = Held(N, k) /\ Held(N, k) \in Nat
    BY <1>3, <1>5, SnapshotOwns, HoldingsAre
  <2>2. \A k : Held(N, k) = Held(M, k)
    BY <1>5, <1>8 DEF Held
  <2>3. QED
    BY <2>1, <2>2
<1>10. M.cash >= 0
  <2>1. Slack(L) >= 0 /\ Total(Due(L)) \in Nat /\ L.cash \in Int
    BY <1>4, DuesAre DEF Solvent, LedgerType
  <2>2. QED
    BY <2>1, <1>8 DEF Slack
<1>11. Link(M, NewSession(P, risk.controls), intents, decisions)
  BY <1>4, <1>6, <1>8, <1>9, <1>10, BeginningIs
<1>12. Worth(M) = Worth(L)
  BY <1>8 DEF Worth, Basis
<1>13. QED
  BY <1>1, <1>2, <1>3, <1>8, <1>11, <1>12 DEF IInv

\* Two orders of one decision share the entry that decided them, and so their intent.
LEMMA NewOrdersAre ==
  ASSUME Link(ledger', risk', intents', decisions'),
         \A i \in DOMAIN ledger'.orders \ DOMAIN ledger.orders : ledger'.orders[i].intent \notin intents,
         \A i \in DOMAIN risk'.entries :
           \/ risk'.entries[i].request.intent \in intents
           \/ risk'.entries[i].request.decision \notin decisions,
         NEW d
  PROVE  /\ Cardinality(NewOrders(d)) \in {0, 1}
         /\ d \in decisions => Cardinality(NewOrders(d)) = 0
         /\ d \notin decisions' => Cardinality(NewOrders(d)) = 0
<1> DEFINE T == NewOrders(d)
<1>1. /\ ledger' \in LedgerType /\ risk' \in SessionType
      /\ \A i, j \in DOMAIN ledger'.orders : ledger'.orders[i].intent = ledger'.orders[j].intent => i = j
      /\ \A i, j \in DOMAIN risk'.entries :
           \/ i = j \/ risk'.entries[i].request.decision # risk'.entries[j].request.decision
      /\ \A i \in DOMAIN risk'.entries : risk'.entries[i].request.decision \in decisions'
  BY DEF Link, Sound, Entered
<1>2. ASSUME NEW i \in T
      PROVE  \E x \in DOMAIN risk'.entries :
               /\ i \in DOMAIN ledger'.orders \ DOMAIN ledger.orders
               /\ risk'.entries[x].request.intent = ledger'.orders[i].intent
               /\ risk'.entries[x].request.decision = d
  BY DEF NewOrders, Range
<1>3. \A i, j \in T : i = j
  <2>1. SUFFICES ASSUME NEW i \in T, NEW j \in T PROVE i = j
    OBVIOUS
  <2>2. PICK x \in DOMAIN risk'.entries :
               /\ i \in DOMAIN ledger'.orders
               /\ risk'.entries[x].request.intent = ledger'.orders[i].intent
               /\ risk'.entries[x].request.decision = d
    BY <1>2
  <2>3. PICK y \in DOMAIN risk'.entries :
               /\ j \in DOMAIN ledger'.orders
               /\ risk'.entries[y].request.intent = ledger'.orders[j].intent
               /\ risk'.entries[y].request.decision = d
    BY <1>2
  <2>4. x = y
    BY <2>2, <2>3, <1>1
  <2>5. QED
    BY <2>2, <2>3, <2>4, <1>1
<1>4. T # {} => d \notin decisions /\ d \in decisions'
  <2>1. SUFFICES ASSUME NEW i \in T PROVE d \notin decisions /\ d \in decisions'
    OBVIOUS
  <2>2. PICK x \in DOMAIN risk'.entries :
               /\ i \in DOMAIN ledger'.orders \ DOMAIN ledger.orders
               /\ risk'.entries[x].request.intent = ledger'.orders[i].intent
               /\ risk'.entries[x].request.decision = d
    BY <1>2
  <2>3. QED
    BY <2>2, <1>1
<1> HIDE DEF T
<1>5. CASE T = {}
  BY <1>5, FS_EmptySet DEF T
<1>6. CASE T # {}
  <2>1. PICK i : T = {i}
    BY <1>3, <1>6
  <2>2. Cardinality(T) = 1
    BY <2>1, FS_Singleton
  <2>3. QED
    BY <2>2, <1>4, <1>6 DEF T
<1>7. QED
  BY <1>5, <1>6

LEMMA OrdersExtendAccount ==
  ASSUME IInv, NEW at \in now..MaxTime, NEW batch \in Batches, Orders(batch, at)
  PROVE  /\ \E m, p : /\ m.ledger = ledger /\ m.risk = risk /\ m.intents = intents
                      /\ m.decisions = decisions
                      /\ p.ledger = ledger' /\ p.risk = risk' /\ p.intents = intents'
                      /\ p.decisions = decisions'
                      /\ Extended(m, p, at)
<1>1. at \in Int /\ Link(ledger, risk, intents, decisions)
  BY DEF IInv
<1>2. ledger.asOf <= at
  <2>1. ledger.asOf \in Int /\ now \in Int /\ ledger.asOf <= now
    BY <1>1, LinkIs DEF IInv, LedgerType
  <2>2. QED
    BY <2>1
<1>3. PICK m, p : m = Machine /\ p = PlacedInTurn(m, batch, at)[Len(batch)]
  OBVIOUS
<1>4. /\ DOMAIN m = MachineFields /\ m.refused = FALSE /\ m.ledger = ledger /\ m.risk = risk
      /\ m.intents = intents /\ m.decisions = decisions
  BY <1>3 DEF Machine, MachineFields
<1>5. /\ ~p.refused /\ p.ledger = ledger' /\ p.risk = risk' /\ p.intents = intents'
      /\ p.decisions = decisions'
  BY <1>3 DEF Orders, AfterOrders
<1>6. batch \in Seq(Requests)
  BY AccountAssumption
<1>7. Extended(m, p, at)
  BY <1>1, <1>2, <1>3, <1>4, <1>5, <1>6, OrdersExtend
<1>8. QED
  BY <1>4, <1>5, <1>7

LEMMA OrdersKeep ==
  ASSUME IInv, NEW at \in now..MaxTime, NEW batch \in Batches, Orders(batch, at)
  PROVE  IInv'
<1>1. /\ at \in Int /\ now' = at /\ Worth(ledger) = Worth(InitialLedger)
      /\ placed' = [d \in DecisionIds |-> placed[d] + Cardinality(NewOrders(d))]
      /\ placed \in [DecisionIds -> Nat]
      /\ \A d \in DecisionIds : placed[d] <= 1 /\ (placed[d] = 1 => d \in decisions)
  BY DEF IInv, Orders, Applied
<1>2. PICK m, p : /\ m.ledger = ledger /\ m.risk = risk /\ m.intents = intents
                  /\ m.decisions = decisions
                  /\ p.ledger = ledger' /\ p.risk = risk' /\ p.intents = intents'
                  /\ p.decisions = decisions'
                  /\ Extended(m, p, at)
  BY OrdersExtendAccount
<1>3. /\ Link(ledger', risk', intents', decisions') /\ decisions \subseteq decisions'
      /\ ledger'.asOf <= at /\ Worth(ledger') = Worth(ledger)
      /\ \A i \in DOMAIN ledger'.orders \ DOMAIN ledger.orders : ledger'.orders[i].intent \notin intents
      /\ \A i \in DOMAIN risk'.entries :
           \/ risk'.entries[i].request.intent \in intents
           \/ risk'.entries[i].request.decision \notin decisions
  BY <1>2 DEF Extended
<1>4. \A d \in DecisionIds :
        /\ Cardinality(NewOrders(d)) \in {0, 1}
        /\ d \in decisions => Cardinality(NewOrders(d)) = 0
        /\ d \notin decisions' => Cardinality(NewOrders(d)) = 0
  BY <1>3, NewOrdersAre
<1>5. placed' \in [DecisionIds -> Nat]
  BY <1>1, <1>4
<1>6. ASSUME NEW d \in DecisionIds PROVE placed'[d] <= 1 /\ (placed'[d] = 1 => d \in decisions')
  <2>1. placed'[d] = placed[d] + Cardinality(NewOrders(d)) /\ placed[d] \in Nat
    BY <1>1
  <2>2. CASE d \in decisions
    BY <2>1, <2>2, <1>1, <1>3, <1>4
  <2>3. CASE d \notin decisions
    <3>1. placed[d] = 0
      BY <2>1, <2>3, <1>1
    <3>2. QED
      BY <2>1, <3>1, <1>4
  <2>4. QED
    BY <2>2, <2>3
<1>7. QED
  BY <1>1, <1>3, <1>5, <1>6 DEF IInv

LEMMA StepKeeps == IInv /\ [Next]_vars => IInv'
<1> SUFFICES ASSUME IInv, [Next]_vars PROVE IInv'
  OBVIOUS
<1>1. CASE UNCHANGED vars
  BY <1>1 DEF vars, IInv
<1>2. ASSUME NEW at \in now..MaxTime, NEW batch \in Batches, Orders(batch, at) PROVE IInv'
  BY <1>2, OrdersKeep
<1>3. ASSUME NEW at \in now..MaxTime, NEW book \in BooksAt(at), ObserveMarket(book, at) PROVE IInv'
  BY <1>3, ObserveMarketKeeps
<1>4. ASSUME NEW at \in now..MaxTime, NEW r \in Requests, CancelOrder(r.intent, at) PROVE IInv'
  BY <1>4, CancelOrderKeeps
<1>5. ASSUME NEW at \in now..MaxTime, NEW controls \in ControlStates, ChangeControls(controls, at)
      PROVE IInv'
  BY <1>5, ChangeControlsKeeps
<1>6. ASSUME NEW at \in now..MaxTime, Advance(at) PROVE IInv'
  BY <1>6, AdvanceKeeps
<1>7. ASSUME NEW at \in now..MaxTime, Reconcile(at) PROVE IInv'
  BY <1>7, ReconcileKeeps
<1>8. QED
  BY <1>1, <1>2, <1>3, <1>4, <1>5, <1>6, <1>7 DEF Next

(* In every state the ledger is solvent, and what its orders may still take is less than what the
   session that issued them has reserved (machine.py:137, session.py:231).                     *)
THEOREM SessionAndLedgerAgree == Spec => []IInv
<1>1. Init => IInv
  BY InitKeeps
<1>2. IInv /\ [Next]_vars => IInv'
  BY StepKeeps
<1>3. QED
  BY <1>1, <1>2, PTL DEF Spec

(* However the requests of the agents arrive and are retried, one decision leads to at most one
   order in the life of the account (machine.py:90-96).                                        *)
THEOREM OneOrderEver == Spec => []OneOrderPerDecision
<1>1. IInv => OneOrderPerDecision
  BY DEF IInv, OneOrderPerDecision
<1>2. QED
  BY <1>1, SessionAndLedgerAgree, PTL

(* The open orders' reservations are covered by cash and by positions, and the integer balances
   do not drift, whatever has been bought, sold, rounded, cancelled and carried into a new
   generation (ledger.py:288, 299, 425, 440-461).                                             *)
THEOREM MoneyKept == Spec => []MoneyIsKept
<1>1. ASSUME IInv PROVE MoneyIsKept
  <2>1. PICK L : L = ledger
    OBVIOUS
  <2>2. L \in LedgerType /\ Solvent(L) /\ Untouched(L) /\ Worth(L) = Worth(InitialLedger)
    BY <1>1, <2>1, LinkIs DEF IInv
  <2>3. Reserved(L) <= L.cash
    <3>1. Reserved(L) = Total(Due(L))
      BY DEF Reserved, Due
    <3>2. Total(Due(L)) \in Nat /\ L.cash \in Int /\ L.cash - Total(Due(L)) >= 0
      BY <2>2, DuesAre DEF Solvent, Slack, LedgerType
    <3>3. QED
      BY <3>1, <3>2
  <2>4. ASSUME NEW k \in Instruments PROVE OpenSells(L, k) <= Held(L, k)
    <3>1. \A i \in Sells(L, k) : Left(L, k)[i] = L.orders[i].target
      <4>1. \A i \in Sells(L, k) : i \in DOMAIN L.orders /\ L.orders[i].filled = 0
        BY <2>2 DEF Sells, Untouched, OpenOrders
      <4>2. \A i \in DOMAIN L.orders : L.orders[i].target \in Nat
        BY <2>2, OrdersAre DEF OrderType
      <4>3. QED
        BY <4>1, <4>2 DEF Left
    <3>2. Left(L, k) = [i \in Sells(L, k) |-> L.orders[i].target]
      BY <3>1 DEF Left
    <3>3. OpenSells(L, k) = Total(Left(L, k))
      BY <3>2 DEF OpenSells, Sells
    <3>4. Total(Left(L, k)) \in Nat /\ Held(L, k) \in Nat /\ Held(L, k) - Total(Left(L, k)) >= 0
      BY <2>2, DuesAre, HoldingsAre DEF Solvent, Spare
    <3>5. QED
      BY <3>3, <3>4
  <2>5. FundsCovered
    BY <2>1, <2>2, <2>3, <2>4 DEF FundsCovered, Solvent, InBounds
  <2>6. BooksBalance
    BY <2>1, <2>2 DEF BooksBalance, Worth
  <2>7. QED
    BY <2>5, <2>6 DEF MoneyIsKept
<1>2. QED
  BY <1>1, SessionAndLedgerAgree, PTL

(* The assertions behind the checks cannot fail: no acceptable market observation is refused for
   what it would fill, and the ledger takes every order the session issues (ledger.py:443, 450,
   machine.py:137).                                                                           *)
THEOREM NothingEverRaises == Spec => []NothingRaises
<1>1. ASSUME IInv PROVE NothingRaises
  <2>1. now \in Int /\ ledger \in LedgerType /\ Solvent(ledger) /\ risk \in SessionType
        /\ Link(ledger, risk, intents, decisions) /\ ledger.asOf <= now
    BY <1>1, LinkIs DEF IInv
  <2>2. ASSUME NEW book \in BooksAt(now), MarketAccepted(ledger, book, now)
        PROVE  ~AfterMarket(book, now).broken
    <3>1. book \in BookType
      BY <2>1, <2>2, BooksAre DEF MarketAccepted
    <3>2. PICK blocked, m : m = Market(ledger, book, now, blocked) /\ m = AfterMarket(book, now)
      BY DEF AfterMarket
    <3>3. Settles(ledger, book, now, blocked, Market(ledger, book, now, blocked))
      BY <2>1, <3>1, MarketIs
    <3>4. m.broken = FALSE
      BY <3>2, <3>3 DEF Settles
    <3>5. QED
      BY <3>2, <3>4
  <2>3. ASSUME NEW r \in Requests, r.intent \notin intents, ~ledger.sealed
        PROVE  IssuedOrderLands(Evaluate(risk, r, now))
    <3>1. PICK n, T : n = Len(risk.entries) /\ T = Evaluate(risk, r, now)
      OBVIOUS
    <3>2. n \in Nat /\ T \in SessionType /\ Len(T.entries) = n + 1
      BY <2>1, <3>1, EntriesAre, EvaluateIs
    <3>3. PICK token : token = T.controls.token
      OBVIOUS
    <3>4. token \in Nat
      BY <3>2, <3>3 DEF SessionType, ControlType
    <3>5. Issues(T, n + 1, token, now) => Submittable(ledger, Permit(T, n + 1, token, now), now)
      BY <2>1, <2>3, <3>1, <3>2, <3>4, PermitLands
    <3>6. IssuedOrderLands(T)
      BY <3>2, <3>3, <3>5 DEF IssuedOrderLands
    <3>7. QED
      BY <3>1, <3>6
  <2>4. QED
    BY <2>2, <2>3 DEF NothingRaises, FillsNeverRaise, PermitsLand
<1>2. QED
  BY <1>1, SessionAndLedgerAgree, PTL

\* What lets the session stand by an order of its own.
LEMMA AllowedIs ==
  ASSUME NEW S, NEW I, NEW D, Entered(S, I, D), NEW intent, NEW token, NEW at \in Int,
         ExecutionAllowed(S, intent, token, at)
  PROVE  /\ token = S.controls.token /\ ~S.controls.halted
         /\ at < S.controls.validUntil /\ at < S.controls.leaseExpires
<1>1. PICK i \in DOMAIN S.entries :
        S.entries[i].issued /\ TokenCurrent(S, S.entries[i], token) /\ StillApproved(S, S.entries[i], at)
  BY DEF ExecutionAllowed, EntryOf
<1>2. PICK e : e = S.entries[i]
  OBVIOUS
<1>3. e \in EntryType /\ EntryIsSound(e)
  BY <1>2, EntriesAre DEF Entered
<1>4. e.issued /\ TokenCurrent(S, e, token) /\ StillApproved(S, e, at)
  BY <1>1, <1>2
<1>5. e.approved \in Nat \ {0} /\ e.request \in Requests
  BY <1>3, <1>4 DEF EntryIsSound, EntryType
<1>6. Approved(S, e.request, at) \in Nat /\ Approved(S, e.request, at) >= e.approved
  BY <1>4, <1>5, ApprovedIs DEF StillApproved
<1>7. Approved(S, e.request, at) # 0
  BY <1>5, <1>6
<1>8. Permitted(S, e.request, at)
  BY <1>5, <1>7, ApprovedIs
<1>9. QED
  BY <1>4, <1>8 DEF TokenCurrent, Permitted

LEMMA MarketFillsAuthorised ==
  ASSUME IInv, NEW at \in now..MaxTime, NEW book \in BooksAt(at), ObserveMarket(book, at),
         NEW i \in DOMAIN ledger.orders, ledger'.orders[i].filled > ledger.orders[i].filled
  PROVE  Authorised(ledger.orders[i])
<1>1. at \in Int /\ Link(ledger, risk, intents, decisions)
  BY DEF IInv
<1>2. ledger' = AfterMarket(book, at).ledger /\ book.instrument \in Instruments /\ now' = at
  BY DEF ObserveMarket, Applied, MarketAccepted
<1>3. book \in BookType
  BY <1>1, <1>2, BooksAre
<1>4. PICK L, M, blocked, m, o :
        /\ L = ledger /\ blocked = Blocked(book, at) /\ m = Market(L, book, at, blocked)
        /\ M = m.ledger /\ M = ledger' /\ o = L.orders[i]
  BY <1>2 DEF AfterMarket
<1>5. L \in LedgerType /\ Solvent(L) /\ Entered(risk, intents, decisions)
  BY <1>1, <1>4, LinkIs DEF Link
<1>6. Settles(L, book, at, blocked, m)
  BY <1>1, <1>3, <1>4, <1>5, MarketIs
<1>7. o \in OrderType /\ M \in LedgerType
  BY <1>4, <1>5, <1>6, OrdersAre DEF Settles, Kept
<1>8. Fillable(M, o, book, at, blocked) /\ M.books[book.instrument].event = book.event
  <2>1. Fillable(M, o, book, at, blocked) \/ M.orders[i].filled = o.filled
    BY <1>4, <1>6 DEF Settles
  <2>2. M.orders[i].filled > o.filled
    BY <1>4
  <2>3. o.filled \in Nat /\ M.books[book.instrument].event = book.event
    BY <1>4, <1>6, <1>7 DEF Settles, OrderType
  <2>4. QED
    BY <2>1, <2>2, <2>3
<1>9. ExecutionAllowed(risk, o.intent, o.token, at)
  <2>1. i \in OpenOrders(L) /\ o.instrument = book.instrument /\ o.intent \notin blocked
    BY <1>4, <1>8 DEF Fillable, OpenOrders
  <2>2. QED
    BY <1>4, <2>1 DEF Blocked
<1>10. /\ o.token = risk.controls.token /\ ~risk.controls.halted
       /\ at < risk.controls.validUntil /\ at < risk.controls.leaseExpires
  BY <1>1, <1>5, <1>9, AllowedIs
<1>11. /\ at < o.expires /\ M.healthy[o.instrument] /\ at - book.event <= FillAge
       /\ M.books[o.instrument].event = book.event /\ book.event >= o.submitted + Latency
  <2>1. o.expires \in Int /\ book.event \in Int /\ FillAge \in Nat
    BY <1>3, <1>7, LedgerAssumption DEF OrderType, BookType
  <2>2. QED
    BY <1>1, <1>8, <2>1 DEF Fillable, Ready
<1>12. QED
  BY <1>2, <1>4, <1>10, <1>11 DEF Authorised

(* An order is filled only under the supervisor's present word, and on a healthy and fresh
   observation made after the simulated latency (ledger.py:328-402, session.py:318-352).      *)
THEOREM FillsAuthorised == Spec => FillsAreAuthorised
<1>1. ASSUME IInv, [Next]_vars
      PROVE  [\A i \in DOMAIN ledger.orders \cap DOMAIN ledger'.orders :
                ledger'.orders[i].filled > ledger.orders[i].filled
                  => Authorised(ledger.orders[i])]_vars
  <2>1. CASE UNCHANGED vars
    BY <2>1
  <2> DEFINE Same == \A i \in DOMAIN ledger.orders \cap DOMAIN ledger'.orders :
                       ledger'.orders[i].filled = ledger.orders[i].filled
             Goal == \A i \in DOMAIN ledger.orders \cap DOMAIN ledger'.orders :
                       ledger'.orders[i].filled > ledger.orders[i].filled
                         => Authorised(ledger.orders[i])
  <2>2. ASSUME Same PROVE Goal
    <3>1. \A i \in DOMAIN ledger.orders : ledger.orders[i].filled \in Nat
      BY <1>1, LinkIs, OrdersAre DEF IInv, OrderType
    <3>2. QED
      BY <2>2, <3>1
  <2>3. ASSUME NEW at \in now..MaxTime, NEW batch \in Batches, Orders(batch, at) PROVE Same
    <3>1. PICK m, p : m.ledger = ledger /\ p.ledger = ledger' /\ Extended(m, p, at)
      BY <1>1, <2>3, OrdersExtendAccount
    <3>2. QED
      BY <3>1 DEF Extended
  <2>4. ASSUME NEW at \in now..MaxTime, NEW book \in BooksAt(at), ObserveMarket(book, at) PROVE Goal
    BY <1>1, <2>4, MarketFillsAuthorised
  <2>5. ASSUME NEW at \in now..MaxTime, NEW r \in Requests, CancelOrder(r.intent, at) PROVE Same
    <3>1. PICK L, M, x : L = ledger /\ x = r.intent /\ M = Cancel(L, x, at) /\ M = ledger'
      BY <2>5 DEF CancelOrder
    <3>2. L \in LedgerType /\ Solvent(L) /\ Untouched(L) /\ at \in Int
      BY <1>1, <3>1, LinkIs DEF IInv
    <3>3. Cancels(L, Cancel(L, x, at), at)
      BY <3>2, CancelIs
    <3>4. QED
      BY <3>1, <3>3 DEF Cancels
  <2>6. ASSUME NEW at \in now..MaxTime, NEW controls \in ControlStates, ChangeControls(controls, at)
        PROVE Same
    BY <2>6 DEF ChangeControls
  <2>7. ASSUME NEW at \in now..MaxTime, Advance(at) PROVE Same
    <3>1. ledger'.orders = <<>>
      <4>1. PICK L, P : /\ L = ledger
                        /\ ledger' = [L EXCEPT !.asOf = at, !.initial = P, !.orders = <<>>, !.sealed = FALSE]
        BY <2>7 DEF Advance, BeginGeneration
      <4>2. L \in LedgerType
        BY <1>1, <4>1, LinkIs DEF IInv
      <4>3. QED
        BY <4>1, <4>2 DEF LedgerType
    <3>2. QED
      BY <3>1
  <2>8. ASSUME NEW at \in now..MaxTime, Reconcile(at) PROVE Same
    <3>1. ledger' = [ledger EXCEPT !.asOf = at] /\ ledger \in LedgerType
      BY <1>1, <2>8, LinkIs DEF Reconcile, IInv
    <3>2. ledger'.orders = ledger.orders
      BY <3>1 DEF LedgerType
    <3>3. QED
      BY <3>2
  <2> HIDE DEF Same, Goal
  <2>9. ASSUME Next PROVE Goal
    BY <2>2, <2>3, <2>4, <2>5, <2>6, <2>7, <2>8, <2>9 DEF Next
  <2>10. QED
    BY <1>1, <2>1, <2>9 DEF Goal
<1>2. QED
  BY <1>1, SessionAndLedgerAgree, PTL DEF Spec, FillsAreAuthorised

-------------------------------------------------------------------------------
(* Sizes *)

LEMMA DivIs ==
  ASSUME NEW x \in Int, NEW d \in Nat \ {0}
  PROVE  x \div d \in Int /\ \A q \in Int : q * d <= x <=> q <= x \div d
<1> DEFINE m == x \div d
<1>1. m \in Int /\ m * d <= x /\ x < (m + 1) * d
  OBVIOUS
<1> HIDE DEF m
<1>2. ASSUME NEW q \in Int, q <= m PROVE q * d <= x
  <2>1. q * d <= m * d
    BY <1>1, <1>2
  <2>2. q * d \in Int /\ m * d \in Int
    BY <1>1
  <2>3. QED
    BY <2>1, <2>2, <1>1
<1>3. ASSUME NEW q \in Int, q * d <= x PROVE q <= m
  <2>1. ASSUME q >= m + 1 PROVE FALSE
    <3>1. q * d >= (m + 1) * d
      BY <1>1, <2>1
    <3>2. q * d \in Int /\ (m + 1) * d \in Int
      BY <1>1
    <3>3. QED
      BY <3>1, <3>2, <1>1, <1>3
  <2>2. QED
    BY <2>1, <1>1
<1>4. QED
  BY <1>1, <1>2, <1>3 DEF m

LEMMA DebitGrows ==
  ASSUME NEW side, NEW g \in Nat, NEW h \in Nat, g <= h
  PROVE  Debit(side, g) \in Nat /\ Debit(side, h) \in Nat /\ Debit(side, g) <= Debit(side, h)
<1>1. Fee(g) \in Nat /\ Fee(h) \in Nat /\ Fee(g) <= Fee(h)
  BY FeeIs
<1>2. QED
  BY <1>1 DEF Debit

LEMMA SearchFinds ==
  ASSUME NEW n \in Nat, NEW S \in SUBSET (0..n), \A m \in S : \A j \in 1..m : j \in S
  PROVE  Bisect(n, S) = Largest(S)
<1>1. Largest(S) \in S \cup {0} /\ Largest(S) \in 0..n /\ \A m \in S : m <= Largest(S)
  BY LargestIs
<1>2. PICK a : a = Largest(S)
  OBVIOUS
<1>3. a \in 0..n /\ \A m \in 1..n : m \in S <=> m <= a
  BY <1>1, <1>2
<1>4. Bisect(n, S) = a
  BY <1>3, BisectIs
<1>5. QED
  BY <1>2, <1>4

LEMMA FillPriceSign ==
  ASSUME NEW side, NEW raw \in Nat
  PROVE  FillPrice(side, raw) \in Nat
<1>1. BpsDen + SlipBps \in Nat /\ BpsDen - SlipBps \in Nat /\ BpsDen * Tick \in Nat \ {0} /\ Tick \in Nat \ {0}
  BY RatesAssumption
<1>2. raw * (BpsDen + SlipBps) \in Nat /\ raw * (BpsDen - SlipBps) \in Nat
  BY <1>1
<1>3. PICK u, v, d : u = raw * (BpsDen + SlipBps) /\ v = raw * (BpsDen - SlipBps) /\ d = BpsDen * Tick
  OBVIOUS
<1>4. CeilDiv(u, d) \in Nat /\ v \div d \in Nat
  <2>1. u \in Nat /\ v \in Nat /\ d \in Nat \ {0}
    BY <1>1, <1>2, <1>3
  <2>2. CeilDiv(u, d) \in Nat
    BY <2>1, CeilDivIs
  <2>3. v \div d \in Int /\ (0 * d <= v <=> 0 <= v \div d)
    BY <2>1, DivIs
  <2>4. 0 * d = 0
    BY <2>1
  <2>5. QED
    BY <2>1, <2>2, <2>3, <2>4
<1>5. CeilDiv(u, d) * Tick \in Nat /\ (v \div d) * Tick \in Nat
  BY <1>1, <1>4
<1>6. QED
  BY <1>3, <1>5 DEF FillPrice

LEMMA FitsShrinks ==
  ASSUME NEW o \in OrderType, NEW price \in Nat, NEW q \in Nat, NEW p \in Nat, p <= q,
         Fits(o, price, q)
  PROVE  Fits(o, price, p)
<1>1. p * price \in Nat /\ q * price \in Nat /\ p * price <= q * price
  BY TimesGrows
<1>2. PICK g, h : g = p * price /\ h = q * price
  OBVIOUS
<1>3. g \in Nat /\ h \in Nat /\ g <= h
  BY <1>1, <1>2
<1>4. Debit(o.side, g) \in Nat /\ Debit(o.side, h) \in Nat /\ Debit(o.side, g) <= Debit(o.side, h)
  BY <1>3, DebitGrows
<1>5. h <= o.approved - o.gross /\ Debit(o.side, h) <= o.maxDebit - o.debit
  BY <1>2 DEF Fits
<1>6. o.approved - o.gross \in Int /\ o.maxDebit - o.debit \in Int
  BY DEF OrderType
<1>7. g <= o.approved - o.gross /\ Debit(o.side, g) <= o.maxDebit - o.debit
  BY <1>3, <1>4, <1>5, <1>6
<1>8. QED
  BY <1>2, <1>7 DEF Fits

LEMMA LotsAreFound ==
  ASSUME NEW o \in OrderType, InBounds(o), NEW price \in Nat, NEW depth \in Nat
  PROVE  LET left == o.target - o.filled
             most == (IF left < depth THEN left ELSE depth) \div Lot
             lots == FillableLots(o, price, depth)
         IN  Bisect(most, lots) = Largest(lots)
<1> DEFINE least == IF o.target - o.filled < depth THEN o.target - o.filled ELSE depth
<1>1. PICK left, x, n, S : /\ left = o.target - o.filled /\ x = least /\ n = x \div Lot
                           /\ S = FillableLots(o, price, depth)
  OBVIOUS
<1>2. Lot \in Nat \ {0} /\ left \in Nat
  BY <1>1, LedgerAssumption DEF OrderType, InBounds
<1>3. x \in Nat /\ x <= left /\ x <= depth /\ (x = left \/ x = depth)
  BY <1>1, <1>2
<1>4. n \in Int /\ \A q \in Int : q * Lot <= x <=> q <= n
  BY <1>1, <1>2, <1>3, DivIs
<1>5. left \div Lot \in Int /\ \A q \in Int : q * Lot <= left <=> q <= left \div Lot
  BY <1>2, DivIs
<1>6. n \in Nat
  <2>1. 0 * Lot = 0
    BY <1>2
  <2>2. QED
    BY <2>1, <1>3, <1>4
<1>7. \A m \in S : m \in Nat /\ m * Lot \in Nat /\ m * Lot <= left /\ m * Lot <= depth
                   /\ Fits(o, price, m * Lot)
  <2>1. SUFFICES ASSUME NEW m \in S
                 PROVE m \in Nat /\ m * Lot \in Nat /\ m * Lot <= left /\ m * Lot <= depth
                       /\ Fits(o, price, m * Lot)
    OBVIOUS
  <2>2. m \in 0..(left \div Lot) /\ m * Lot <= depth /\ Fits(o, price, m * Lot)
    BY <1>1 DEF FillableLots
  <2>3. m \in Nat /\ m <= left \div Lot
    BY <2>2, <1>5
  <2>4. m * Lot \in Nat /\ m * Lot <= left
    BY <2>3, <1>2, <1>5
  <2>5. QED
    BY <2>2, <2>3, <2>4
<1>8. S \in SUBSET (0..n)
  <2>1. \A m \in S : m <= n
    BY <1>3, <1>4, <1>7
  <2>2. QED
    BY <2>1, <1>6, <1>7
<1>9. ASSUME NEW m \in S, NEW j \in 1..m PROVE j \in S
  <2>1. m \in Nat /\ j \in Nat /\ j <= m /\ m * Lot \in Nat /\ m * Lot <= left /\ m * Lot <= depth
    BY <1>7
  <2>2. j * Lot \in Nat /\ j * Lot <= m * Lot
    BY <2>1, <1>2, TimesGrows
  <2>3. Fits(o, price, j * Lot)
    BY <2>1, <2>2, <1>7, FitsShrinks
  <2>4. j * Lot <= left /\ j * Lot <= depth
    BY <2>1, <2>2, <1>2
  <2>5. j <= left \div Lot
    BY <2>1, <2>4, <1>5
  <2>6. j \in 0..(left \div Lot)
    BY <2>1, <2>5, <1>5
  <2>7. QED
    BY <1>1, <2>3, <2>4, <2>6 DEF FillableLots
<1>10. Bisect(n, S) = Largest(S)
  BY <1>6, <1>8, <1>9, SearchFinds
<1>11. QED
  BY <1>1, <1>10

LEMMA QuantityGrows ==
  ASSUME NEW r \in Requests, WorstPrice(r.side, Quote(r)) > 0,
         NEW a \in Nat, NEW b \in Nat, a <= b
  PROVE  /\ Quantity(r, a) \in Nat /\ Quantity(r, b) \in Nat
         /\ Quantity(r, a) <= Quantity(r, b)
<1>1. PICK p : p = WorstPrice(r.side, Quote(r))
  OBVIOUS
<1>2. p \in Nat \ {0}
  BY <1>1, RequestsAre, WorstPriceIs
<1>3. a \div p <= b \div p
  <2>1. /\ a \div p \in Int /\ (\A q \in Int : q * p <= a <=> q <= a \div p)
        /\ b \div p \in Int /\ (\A q \in Int : q * p <= b <=> q <= b \div p)
    BY <1>2, DivIs
  <2>2. PICK m : m = a \div p
    OBVIOUS
  <2>3. m \in Int /\ m * p <= a /\ m * p \in Int
    BY <1>2, <2>1, <2>2
  <2>4. m * p <= b
    BY <2>3
  <2>5. QED
    BY <2>1, <2>2, <2>3, <2>4
<1>4. CeilDiv(a, p) <= CeilDiv(b, p)
  <2>1. /\ CeilDiv(a, p) \in Nat /\ (\A q \in Int : a <= q * p <=> CeilDiv(a, p) <= q)
        /\ CeilDiv(b, p) \in Nat /\ (\A q \in Int : b <= q * p <=> CeilDiv(b, p) <= q)
    BY <1>2, CeilDivIs
  <2>2. PICK m : m = CeilDiv(b, p)
    OBVIOUS
  <2>3. m \in Int /\ b <= m * p /\ m * p \in Int
    BY <1>2, <2>1, <2>2
  <2>4. a <= m * p
    BY <2>3
  <2>5. QED
    BY <2>1, <2>2, <2>3, <2>4
<1>5. Quantity(r, a) <= Quantity(r, b)
  BY <1>1, <1>3, <1>4 DEF Quantity
<1>6. QED
  BY <1>5, QuantityIs

(* A buy that breaks no limit breaks none when it is smaller.              *)
LEMMA BuyShrinks ==
  ASSUME NEW S \in SessionType, NEW held, NEW A, Counted(S, held, A), NEW r,
         NEW a \in Nat, NEW b \in Nat, a <= b, BuyAcceptable(S, A, r, b)
  PROVE  BuyAcceptable(S, A, r, a)
<1>1. Fee(a) \in Nat /\ Fee(b) \in Nat /\ Fee(a) <= Fee(b)
  BY FeeIs
<1>2. PICK E, F, losses, gross, peak, x, y :
        /\ x = Fee(a) /\ y = Fee(b) /\ E = A.equity - x /\ F = A.equity - y
        /\ losses = A.losses /\ gross = A.gross /\ peak = A.peak
  OBVIOUS
<1>3. A.equity \in Int /\ losses \in Int /\ gross \in Int /\ peak \in Int
  BY <1>2 DEF Counted
<1>4. x \in Nat /\ y \in Nat /\ x <= y /\ E \in Int /\ F \in Int /\ F <= E
  BY <1>1, <1>2, <1>3
<1>5. PICK limit, fall : limit = LossLimit(S) /\ fall = MaxDrawdownPct * peak
  OBVIOUS
<1>6. limit \in Int /\ fall \in Int
  <2>1. MaxLossPct \in Nat /\ MaxDrawdownPct \in Nat /\ S.portfolio.equity \in Int
    BY RiskAssumption DEF SessionType, PortfolioType
  <2>2. QED
    BY <2>1, <1>3, <1>5 DEF LossLimit
<1>7. PICK g, h : g = MaxGrossPct * F /\ h = MaxGrossPct * E
  OBVIOUS
<1>8. MaxGrossPct \in Nat /\ MaxAssetPct \in Nat
  BY RiskAssumption
<1>9. F > 0 /\ (losses + y) * 100 <= limit /\ (peak - F) * 100 <= fall /\ (gross + b) * 100 <= g
  BY <1>2, <1>5, <1>7 DEF BuyAcceptable
<1>10. F \in Nat /\ E \in Nat
  BY <1>4, <1>9
<1>11. g \in Nat /\ h \in Nat /\ g <= h
  <2>1. F * MaxGrossPct <= E * MaxGrossPct /\ F * MaxGrossPct \in Nat /\ E * MaxGrossPct \in Nat
    BY <1>4, <1>8, <1>10, TimesGrows
  <2>2. g = F * MaxGrossPct /\ h = E * MaxGrossPct
    BY <1>7, <1>8, <1>10
  <2>3. QED
    BY <2>1, <2>2
<1>12. E > 0 /\ (losses + x) * 100 <= limit /\ (peak - E) * 100 <= fall /\ (gross + a) * 100 <= h
  BY <1>3, <1>4, <1>6, <1>9, <1>11
<1>13. ASSUME NEW k \in DOMAIN A.exposure \cup {r.instrument}
       PROVE  ((IF k \in DOMAIN A.exposure THEN A.exposure[k] ELSE 0)
               + (IF k = r.instrument THEN a ELSE 0)) * 100 <= MaxAssetPct * E
  <2>1. PICK e, u, v : /\ e = (IF k \in DOMAIN A.exposure THEN A.exposure[k] ELSE 0)
                       /\ u = (IF k = r.instrument THEN a ELSE 0)
                       /\ v = (IF k = r.instrument THEN b ELSE 0)
    OBVIOUS
  <2>2. e \in Nat
    BY <2>1 DEF Counted
  <2>3. u \in Nat /\ v \in Nat /\ u <= v
    BY <2>1
  <2>4. (e + v) * 100 <= MaxAssetPct * F
    BY <1>2, <2>1 DEF BuyAcceptable
  <2>5. F * MaxAssetPct <= E * MaxAssetPct /\ F * MaxAssetPct \in Nat /\ E * MaxAssetPct \in Nat
    BY <1>4, <1>8, <1>10, TimesGrows
  <2>6. PICK c, d : c = MaxAssetPct * F /\ d = MaxAssetPct * E
    OBVIOUS
  <2>7. c = F * MaxAssetPct /\ d = E * MaxAssetPct
    BY <1>8, <1>10, <2>6
  <2>8. c \in Nat /\ d \in Nat /\ c <= d
    BY <2>5, <2>7
  <2>9. (e + u) * 100 <= d
    BY <2>2, <2>3, <2>4, <2>6, <2>8
  <2>10. QED
    BY <2>1, <2>6, <2>9
<1>14. Cardinality({k \in DOMAIN A.exposure : A.exposure[k] > 0} \cup {r.instrument}) <= MaxPositions
  BY DEF BuyAcceptable
<1>15. QED
  BY <1>2, <1>5, <1>7, <1>12, <1>13, <1>14 DEF BuyAcceptable

LEMMA AcceptableShrinks ==
  ASSUME NEW S \in SessionType, NEW held, NEW A, Counted(S, held, A), NEW r \in Requests,
         WorstPrice(r.side, Quote(r)) > 0,
         NEW a \in Nat, NEW b \in Nat, a <= b, Acceptable(S, A, r, b)
  PROVE  Acceptable(S, A, r, a)
<1>1. Debit(r.side, a) <= A.cash
  <2>1. Debit(r.side, a) \in Nat /\ Debit(r.side, b) \in Nat /\ Debit(r.side, a) <= Debit(r.side, b)
    BY DebitGrows
  <2>2. Debit(r.side, b) <= A.cash /\ A.cash \in Int
    BY DEF Acceptable, Counted
  <2>3. QED
    BY <2>1, <2>2
<1>2. ASSUME r.side = "sell" PROVE Quantity(r, a) <= Free(A, r.instrument)
  <2>1. Quantity(r, a) \in Nat /\ Quantity(r, b) \in Nat /\ Quantity(r, a) <= Quantity(r, b)
    BY QuantityGrows
  <2>2. Quantity(r, b) <= Free(A, r.instrument) /\ Free(A, r.instrument) \in Int
    BY <1>2 DEF Acceptable, Counted
  <2>3. QED
    BY <2>1, <2>2
<1>3. a <= r.size * Quote(r) /\ a <= MaxOrder
  <2>1. r.size * Quote(r) \in Nat /\ MaxOrder \in Nat
    BY RequestsAre, RiskAssumption
  <2>2. b <= r.size * Quote(r) /\ b <= MaxOrder
    BY DEF Acceptable
  <2>3. QED
    BY <2>1, <2>2
<1>4. r.side = "buy" => BuyAcceptable(S, A, r, a)
  BY BuyShrinks DEF Acceptable
<1>5. QED
  BY <1>1, <1>2, <1>3, <1>4 DEF Acceptable

LEMMA StepsAreFound ==
  ASSUME NEW S \in SessionType, NEW held, NEW A, Counted(S, held, A), NEW r \in Requests,
         WorstPrice(r.side, Quote(r)) > 0
  PROVE  Bisect(r.notional \div Increment, AcceptableSteps(S, A, r)) = Largest(AcceptableSteps(S, A, r))
<1>1. PICK n, T : n = r.notional \div Increment /\ T = AcceptableSteps(S, A, r)
  OBVIOUS
<1>2. Increment \in Nat \ {0} /\ r.notional \in Nat
  BY RiskAssumption, RequestsAre
<1>3. n \in Nat
  BY <1>1, <1>2
<1>4. T = {m \in 1..n : Acceptable(S, A, r, m * Increment)}
  BY <1>1 DEF AcceptableSteps
<1>5. ASSUME NEW m \in T, NEW j \in 1..m PROVE j \in T
  <2>1. m \in 1..n /\ Acceptable(S, A, r, m * Increment)
    BY <1>4
  <2>2. m \in Nat /\ j \in Nat /\ j <= m /\ j \in 1..n
    BY <1>3, <2>1
  <2>3. j * Increment \in Nat /\ m * Increment \in Nat /\ j * Increment <= m * Increment
    BY <1>2, <2>2, TimesGrows
  <2>4. Acceptable(S, A, r, j * Increment)
    BY <2>1, <2>3, AcceptableShrinks
  <2>5. QED
    BY <1>4, <2>2, <2>4
<1>6. T \in SUBSET (0..n)
  BY <1>3, <1>4
<1>7. Bisect(n, T) = Largest(T)
  BY <1>3, <1>5, <1>6, SearchFinds
<1>8. QED
  BY <1>1, <1>7

(* The lots of an approval fit into it at any price up to the worst.       *)
LEMMA ApprovalFits ==
  ASSUME NEW amount \in Nat, NEW w \in Nat \ {0}, NEW price \in Nat, price <= w,
         NEW whole, whole = ((amount \div w) \div Lot) * Lot,
         NEW o, o.side = "buy", o.approved = amount, o.maxDebit = Debit("buy", amount),
         o.gross = 0, o.debit = 0, o.filled = 0, o.target = whole
  PROVE  FillQuantity(o, price, whole) = whole
<1>1. PICK Q, k : Q = amount \div w /\ k = Q \div Lot
  OBVIOUS
<1>2. Lot \in Nat \ {0}
  BY LedgerAssumption
<1>3. Q \in Int /\ \A q \in Int : q * w <= amount <=> q <= Q
  BY <1>1, DivIs
<1>4. k \in Int /\ \A q \in Int : q * Lot <= Q <=> q <= k
  BY <1>1, <1>2, <1>3, DivIs
<1>5. Q \in Nat /\ k \in Nat
  <2>1. 0 * w = 0 /\ 0 * Lot = 0
    BY <1>2
  <2>2. Q >= 0
    BY <1>3, <2>1
  <2>3. QED
    BY <1>3, <1>4, <2>1, <2>2
<1>6. whole = k * Lot /\ whole \in Nat /\ whole <= Q
  <2>1. whole = k * Lot
    BY <1>1
  <2>2. k * Lot \in Nat
    BY <1>2, <1>5
  <2>3. k * Lot <= Q
    BY <1>4
  <2>4. QED
    BY <2>1, <2>2, <2>3
<1>7. whole * price \in Nat /\ whole * price <= amount
  <2>1. whole * price \in Nat /\ Q * price \in Nat /\ whole * price <= Q * price
    BY <1>5, <1>6, TimesGrows
  <2>2. price * Q \in Nat /\ w * Q \in Nat /\ price * Q <= w * Q
    BY <1>5, TimesGrows
  <2>3. price * Q = Q * price /\ w * Q = Q * w
    BY <1>5
  <2>4. Q * w <= amount
    BY <1>3, <1>5
  <2>5. QED
    BY <2>1, <2>2, <2>3, <2>4
<1>8. whole \div Lot = k
  <2>1. whole \div Lot \in Int /\ \A q \in Int : q * Lot <= whole <=> q <= whole \div Lot
    BY <1>2, <1>6, DivIs
  <2>2. PICK m : m = whole \div Lot
    OBVIOUS
  <2>3. m \in Int /\ m * Lot <= k * Lot /\ k <= m
    <3>1. k * Lot <= whole
      BY <1>6
    <3>2. QED
      BY <1>5, <1>6, <2>1, <2>2, <3>1
  <2>4. m \in Nat
    BY <2>3, <1>5
  <2>5. ASSUME m >= k + 1 PROVE FALSE
    <3>1. (k + 1) * Lot <= m * Lot /\ (k + 1) * Lot \in Nat /\ m * Lot \in Nat
      BY <1>2, <1>5, <2>4, <2>5, TimesGrows
    <3>2. (k + 1) * Lot = k * Lot + Lot /\ k * Lot \in Nat
      BY <1>2, <1>5
    <3>3. QED
      BY <1>2, <2>3, <3>1, <3>2
  <2>6. QED
    BY <2>2, <2>3, <2>4, <2>5, <1>5
<1>9. Fits(o, price, whole)
  <2>1. PICK g : g = whole * price
    OBVIOUS
  <2>2. g \in Nat /\ g <= amount
    BY <1>7, <2>1
  <2>3. Debit("buy", g) \in Nat /\ Debit("buy", amount) \in Nat /\ Debit("buy", g) <= Debit("buy", amount)
    BY <2>2, DebitGrows
  <2>4. g <= o.approved - o.gross
    BY <2>2
  <2>5. Debit(o.side, g) <= o.maxDebit - o.debit
    BY <2>3
  <2>6. QED
    BY <2>1, <2>4, <2>5 DEF Fits
<1>10. PICK lots : lots = FillableLots(o, price, whole)
  OBVIOUS
<1>11. o.target - o.filled = whole
  BY <1>6
<1>12. lots = {n \in 0..k : n * Lot <= whole /\ Fits(o, price, n * Lot)}
  BY <1>8, <1>10, <1>11 DEF FillableLots
<1>13. k \in lots /\ lots \in SUBSET (0..k)
  <2>1. k \in 0..k /\ k * Lot <= whole /\ Fits(o, price, k * Lot)
    BY <1>5, <1>6, <1>9
  <2>2. QED
    BY <1>12, <2>1
<1>14. Largest(lots) = k
  <2>1. Largest(lots) \in 0..k /\ \A m \in lots : m <= Largest(lots)
    BY <1>5, <1>13, LargestIs
  <2>2. QED
    BY <1>5, <1>13, <2>1
<1>15. QED
  BY <1>2, <1>5, <1>6, <1>10, <1>14 DEF FillQuantity

(* The halving search of the ledger and of the evaluator finds the largest size within every bound,
   and what it approves can be filled whole (ledger.py:427-433, evaluator.py:413-429).            *)
THEOREM SizesFound == Spec => []SizesAreRight
<1>1. ASSUME IInv PROVE SizesAreRight
  <2>1. ledger \in LedgerType /\ Solvent(ledger) /\ risk \in SessionType /\ Link(ledger, risk, intents, decisions)
    BY <1>1, LinkIs DEF IInv
  <2>2. ASSUME NEW i \in OpenOrders(ledger),
               NEW level \in UNION {Range(f.asks \o f.bids) : f \in Feeds}
        PROVE  LET o == ledger.orders[i]
                   lots == FillableLots(o, FillPrice(o.side, level.price), level.quantity)
                   left == o.target - o.filled
                   most == (IF left < level.quantity THEN left ELSE level.quantity) \div Lot
               IN  Bisect(most, lots) = Largest(lots)
    <3>1. PICK o : o = ledger.orders[i]
      OBVIOUS
    <3>2. o \in OrderType /\ InBounds(o)
      BY <2>1, <3>1, OrdersAre DEF OpenOrders, Solvent
    <3>3. level.price \in Nat /\ level.quantity \in Nat
      <4>1. PICK f \in Feeds : level \in Range(f.asks \o f.bids)
        OBVIOUS
      <4>2. f.asks \in Seq(LevelType) /\ f.bids \in Seq(LevelType)
        BY TradingAssumption
      <4>3. PICK s : s = f.asks \o f.bids
        OBVIOUS
      <4>4. s \in Seq(LevelType)
        BY <4>2, <4>3
      <4>5. level \in LevelType
        <5>1. PICK j \in DOMAIN s : level = s[j]
          BY <4>1, <4>3 DEF Range
        <5>2. DOMAIN s = 1..Len(s)
          BY <4>4
        <5>3. QED
          BY <4>4, <5>1, <5>2
      <4>6. QED
        BY <4>5 DEF LevelType
    <3>4. FillPrice(o.side, level.price) \in Nat
      BY <3>3, FillPriceSign
    <3>5. QED
      BY <3>1, <3>2, <3>3, <3>4, LotsAreFound
  <2>3. ASSUME NEW r \in Requests, WorstPrice(r.side, Quote(r)) > 0
        PROVE  LET steps == AcceptableSteps(risk, Available(risk, "none"), r)
               IN  Bisect(r.notional \div Increment, steps) = Largest(steps)
    <3>1. PICK A, held : A = Available(risk, "none") /\ held = Reserving(risk, "none")
      OBVIOUS
    <3>2. Counted(risk, held, A)
      BY <2>1, <3>1, MoneyAvailable
    <3>3. QED
      BY <2>1, <2>3, <3>1, <3>2, StepsAreFound
  <2>4. SearchIsOptimal
    BY <2>2, <2>3 DEF SearchIsOptimal
  <2>5. ASSUME NEW r \in Requests, r.side = "buy", Approved(risk, r, now) > 0,
               FillPrice("buy", r.ask) <= WorstPrice("buy", r.ask)
        PROVE  LET amount == Approved(risk, r, now)
                   price == FillPrice("buy", r.ask)
                   whole == (Quantity(r, amount) \div Lot) * Lot
                   order == [side |-> "buy", approved |-> amount, maxDebit |-> Debit("buy", amount),
                             gross |-> 0, debit |-> 0, filled |-> 0, target |-> whole]
               IN  FillQuantity(order, price, whole) = whole
    <3>1. PICK amount, price, w, whole :
            /\ amount = Approved(risk, r, now) /\ price = FillPrice("buy", r.ask)
            /\ w = WorstPrice("buy", r.ask) /\ whole = (Quantity(r, amount) \div Lot) * Lot
      OBVIOUS
    <3>2. amount \in Nat /\ (amount # 0 => WorstPrice(r.side, Quote(r)) > 0)
      BY <3>1, ApprovedIs
    <3>3. Quote(r) = r.ask /\ r.ask \in Nat
      BY <2>5, RequestsAre DEF Quote
    <3>4. amount # 0
      BY <2>5, <3>1, <3>2
    <3>5. w > 0
      BY <2>5, <3>1, <3>2, <3>3, <3>4
    <3>6. w \in Nat \ {0} /\ price \in Nat /\ price <= w
      BY <2>5, <3>1, <3>3, <3>5, WorstPriceIs, FillPriceSign
    <3>7. whole = ((amount \div w) \div Lot) * Lot
      BY <2>5, <3>1, <3>3 DEF Quantity
    <3>8. PICK order : order = [side |-> "buy", approved |-> amount, maxDebit |-> Debit("buy", amount),
                                gross |-> 0, debit |-> 0, filled |-> 0, target |-> whole]
      OBVIOUS
    <3>9. /\ order.side = "buy" /\ order.approved = amount /\ order.maxDebit = Debit("buy", amount)
          /\ order.gross = 0 /\ order.debit = 0 /\ order.filled = 0 /\ order.target = whole
      BY <3>8
    <3>10. FillQuantity(order, price, whole) = whole
      BY <3>2, <3>6, <3>7, <3>9, ApprovalFits
    <3>11. QED
      BY <3>1, <3>8, <3>10
  <2>6. ApprovedBuyFills
    BY <2>5 DEF ApprovedBuyFills
  <2>7. QED
    BY <2>4, <2>6 DEF SizesAreRight
<1>2. QED
  BY <1>1, SessionAndLedgerAgree, PTL

LEMMA MarketSameOrders ==
  ASSUME IInv, NEW at \in now..MaxTime, NEW book \in BooksAt(at), ObserveMarket(book, at)
  PROVE  DOMAIN ledger'.orders = DOMAIN ledger.orders
<1>1. at \in Int /\ Link(ledger, risk, intents, decisions)
  BY DEF IInv
<1>2. ledger' = AfterMarket(book, at).ledger /\ book.instrument \in Instruments
  BY DEF ObserveMarket, MarketAccepted
<1>3. book \in BookType
  BY <1>1, <1>2, BooksAre
<1>4. PICK L, blocked, m : L = ledger /\ m = Market(L, book, at, blocked) /\ m.ledger = ledger'
  BY <1>2 DEF AfterMarket
<1>5. L \in LedgerType /\ Solvent(L)
  BY <1>1, <1>4, LinkIs
<1>6. Settles(L, book, at, blocked, m)
  BY <1>1, <1>3, <1>4, <1>5, MarketIs
<1>7. QED
  BY <1>4, <1>6 DEF Settles, Kept, SameOrders

(* When a buy is placed, everything bought or reserved in this generation together keeps the limits
   of the policy, whatever has been filled, refused and requested since (evaluator.py:348-409).   *)
THEOREM LimitsOfThePolicy == Spec => BuysKeepLimits
<1>1. ASSUME IInv, [Next]_vars
      PROVE  [LET n == Len(ledger'.orders)
              IN  (n > Len(ledger.orders) /\ ledger'.orders[n].side = "buy") =>
                    /\ 100 * (Total(ledger'.initial.exposure) + Committed(ledger'))
                         <= MaxGrossPct * (ledger'.initial.equity - Costs(ledger'))
                    /\ 100 * Costs(ledger') <= MaxLossPct * ledger'.initial.equity]_vars
  <2>1. CASE UNCHANGED vars
    BY <2>1
  <2> DEFINE Same == ~(Len(ledger'.orders) > Len(ledger.orders))
             Goal == Len(ledger'.orders) > Len(ledger.orders) => KeepsLimits(ledger')
  <2>2. Same => Goal
    OBVIOUS
  <2>3. ASSUME NEW at \in now..MaxTime, NEW batch \in Batches, Orders(batch, at) PROVE Goal
    <3>1. PICK m, p : m.ledger = ledger /\ p.ledger = ledger' /\ Extended(m, p, at)
      BY <1>1, <2>3, OrdersExtendAccount
    <3>2. QED
      BY <3>1 DEF Extended
  <2>4. ledger \in LedgerType /\ ledger' \in LedgerType /\ Len(ledger.orders) \in Nat
    <3>1. IInv'
      BY <1>1, StepKeeps
    <3>2. Link(ledger, risk, intents, decisions) /\ Link(ledger', risk', intents', decisions')
      BY <1>1, <3>1 DEF IInv
    <3>3. ledger \in LedgerType /\ ledger' \in LedgerType
      BY <3>2 DEF Link, Sound
    <3>4. QED
      BY <3>3, OrdersAre
  <2>5. ASSUME DOMAIN ledger'.orders = DOMAIN ledger.orders PROVE Same
    <3>1. DOMAIN ledger.orders = 1..Len(ledger.orders) /\ DOMAIN ledger'.orders = 1..Len(ledger'.orders)
          /\ Len(ledger'.orders) \in Nat
      BY <2>4, OrdersAre
    <3>2. PICK a, b : a = Len(ledger.orders) /\ b = Len(ledger'.orders)
      OBVIOUS
    <3>3. 1..a = 1..b /\ a \in Nat /\ b \in Nat
      BY <2>4, <2>5, <3>1, <3>2
    <3>4. a = b
      BY <3>3
    <3>5. QED
      BY <3>2, <3>3, <3>4
  <2>6. ASSUME NEW at \in now..MaxTime, NEW book \in BooksAt(at), ObserveMarket(book, at) PROVE Same
    <3>1. DOMAIN ledger'.orders = DOMAIN ledger.orders
      BY <1>1, <2>6, MarketSameOrders
    <3>2. QED
      BY <2>5, <3>1
  <2>7. ASSUME NEW at \in now..MaxTime, NEW r \in Requests, CancelOrder(r.intent, at) PROVE Same
    <3>1. PICK L, M, x : L = ledger /\ x = r.intent /\ M = Cancel(L, x, at) /\ M = ledger'
      BY <2>7 DEF CancelOrder
    <3>2. L \in LedgerType /\ Solvent(L) /\ Untouched(L) /\ at \in Int
      BY <1>1, <3>1, LinkIs DEF IInv
    <3>3. Cancels(L, Cancel(L, x, at), at)
      BY <3>2, CancelIs
    <3>4. DOMAIN ledger'.orders = DOMAIN ledger.orders
      BY <3>1, <3>3 DEF Cancels, Kept, SameOrders
    <3>5. QED
      BY <2>5, <3>4
  <2>8. ASSUME NEW at \in now..MaxTime, NEW controls \in ControlStates, ChangeControls(controls, at)
        PROVE Same
    BY <2>5, <2>8 DEF ChangeControls
  <2>9. ASSUME NEW at \in now..MaxTime, Advance(at) PROVE Same
    <3>1. ledger'.orders = <<>>
      <4>1. PICK L, P : /\ L = ledger
                        /\ ledger' = [L EXCEPT !.asOf = at, !.initial = P, !.orders = <<>>, !.sealed = FALSE]
        BY <2>9 DEF Advance, BeginGeneration
      <4>2. L \in LedgerType
        BY <2>4, <4>1
      <4>3. QED
        BY <4>1, <4>2 DEF LedgerType
    <3>2. Len(ledger'.orders) = 0
      BY <3>1
    <3>3. QED
      BY <2>4, <3>2
  <2>10. ASSUME NEW at \in now..MaxTime, Reconcile(at) PROVE Same
    <3>1. ledger' = [ledger EXCEPT !.asOf = at]
      BY <2>10 DEF Reconcile
    <3>2. ledger'.orders = ledger.orders
      BY <2>4, <3>1 DEF LedgerType
    <3>3. QED
      BY <2>5, <3>2
  <2> HIDE DEF Same, Goal
  <2>11. ASSUME Next PROVE Goal
    BY <2>2, <2>3, <2>6, <2>7, <2>8, <2>9, <2>10, <2>11 DEF Next
  <2>12. QED
    BY <1>1, <2>1, <2>11 DEF Goal, KeepsLimits, WithinLimits
<1>2. QED
  BY <1>1, SessionAndLedgerAgree, PTL DEF Spec, BuysKeepLimits

-------------------------------------------------------------------------------
(* The venue: what an intent holds from its approval to its order *)

IntentsOf(S) == {S.entries[i].request.intent : i \in DOMAIN S.entries}
DecisionsOf(S) == {S.entries[i].request.decision : i \in DOMAIN S.entries}

Approvals(S) == {i \in DOMAIN S.entries : S.entries[i].approved > 0}
Pending(S) == {i \in Approvals(S) : ~S.entries[i].terminal}

(* What is handed off is used up, and all approvals together are within the portfolio.  *)
Granted(S) ==
  /\ \A i \in DOMAIN S.entries : S.entries[i].issued => S.entries[i].terminal
  /\ Total(DebitsHeld(S, Approvals(S))) <= S.portfolio.cash

ViewType == [connected : BOOLEAN, sequence : Nat, state : LedgerType]

(* A view of the venue may be old, and is then only wrong about what was open.          *)
Shows(v, L, n) == v.sequence <= n /\ (v.sequence = n => v.state = L) /\ Final(v.state, L)

VenueIInv ==
  /\ now \in Int /\ ledger.asOf <= now /\ journal \in Nat
  /\ Link(ledger, session, IntentsOf(session), DecisionsOf(session))
  /\ Granted(session)
  /\ view \in [Brokers -> ViewType]
  /\ \A b \in Brokers : Shows(view[b], ledger, journal)
  /\ \A key \in DOMAIN observed : observed[key] \in BookType
  /\ answer \in [Intents -> {"none", "order", "nothing"}]
  /\ RetriesFindTheOrder

LEMMA SomethingElse ==
  ASSUME NEW T
  PROVE  \E x : x \notin T
<1> DEFINE x == {y \in T : y \notin y}
<1>1. x \notin T
  <2>1. ASSUME x \in T PROVE FALSE
    <3>1. x \in x <=> x \notin x
      BY <2>1
    <3>2. QED
      BY <3>1
  <2>2. QED
    BY <2>1
<1>2. QED
  BY <1>1

LEMMA LinkOwn ==
  ASSUME NEW L, NEW S, NEW I, NEW D, Link(L, S, I, D)
  PROVE  Link(L, S, IntentsOf(S), DecisionsOf(S))
<1>1. Entered(S, IntentsOf(S), DecisionsOf(S))
  BY DEF Link, Entered, IntentsOf, DecisionsOf
<1>2. QED
  BY <1>1 DEF Link

LEMMA ApprovalsAre ==
  ASSUME NEW S \in SessionType
  PROVE  /\ Approvals(S) \in SUBSET DOMAIN S.entries /\ Pending(S) \subseteq Approvals(S)
         /\ \A x : x \notin IntentsOf(S) => Reserving(S, x) = Approvals(S)
<1>1. ASSUME NEW x, x \notin IntentsOf(S) PROVE Reserving(S, x) = Approvals(S)
  <2>1. \A i \in DOMAIN S.entries : S.entries[i].request.intent # x
    BY <1>1 DEF IntentsOf
  <2>2. QED
    BY <2>1 DEF Reserving, Approvals
<1>2. QED
  BY <1>1 DEF Approvals, Pending

(* The entry behind an order is no longer pending, so neither counts twice.  *)
LEMMA PromisesFit ==
  ASSUME NEW L, NEW S, Link(L, S, IntentsOf(S), DecisionsOf(S)), Granted(S)
  PROVE  /\ Total(Debits(L)) \in Nat /\ Total(DebitsHeld(S, Pending(S))) \in Nat
         /\ Total(Debits(L)) + Total(DebitsHeld(S, Pending(S))) <= S.portfolio.cash
<1> DEFINE held == Approvals(S)
           used == held \ Pending(S)
<1>1. L \in LedgerType /\ S \in SessionType /\ S.portfolio.cash \in Int
  <2>1. L \in LedgerType /\ S \in SessionType
    BY LinkIs
  <2>2. QED
    BY <2>1 DEF SessionType, PortfolioType
<1>2. PICK x : x \notin IntentsOf(S)
  BY SomethingElse
<1>3. held \in SUBSET DOMAIN S.entries /\ Pending(S) \subseteq held /\ Reserving(S, x) = held
  BY <1>1, <1>2, ApprovalsAre
<1>4. PICK h : Behind(L, S, held, h)
  <2>1. \E h : Behind(L, S, Reserving(S, x), h)
    BY <1>2, EntriesBehind
  <2>2. QED
    BY <2>1, <1>3
<1> HIDE DEF held
<1>5. \A i, j \in DOMAIN L.orders : h[i] = h[j] => i = j
  BY <1>4 DEF Behind
<1>6. \A i \in DOMAIN L.orders : h[i] \in used /\ Backs(S.entries[h[i]], L.orders[i])
  <2>1. \A i \in DOMAIN L.orders : h[i] \in held /\ Backs(S.entries[h[i]], L.orders[i])
    BY <1>4 DEF Behind
  <2>2. \A i \in DOMAIN L.orders : S.entries[h[i]].terminal
    BY <2>1, <1>3 DEF Granted, Backs
  <2>3. QED
    BY <2>1, <2>2 DEF Pending
<1>7. /\ IsFiniteSet(held) /\ DebitsHeld(S, held) \in [held -> Nat]
      /\ DebitsHeld(S, Pending(S)) \in [Pending(S) -> Nat]
      /\ Total(DebitsHeld(S, Pending(S))) \in Nat
      /\ IsFiniteSet(used) /\ DebitsHeld(S, used) \in [used -> Nat]
      /\ Total(DebitsHeld(S, used)) \in Nat
  BY <1>1, <1>3, HeldIs
<1>8. Debits(L) \in [DOMAIN L.orders -> Nat] /\ Total(Debits(L)) \in Nat
  BY <1>1, SellTargetsAre
<1>9. Total(Debits(L)) <= Total(DebitsHeld(S, used))
  <2>1. PICK f, g, t, p, u : /\ f = Debits(L) /\ g = DebitsHeld(S, used) /\ t = DOMAIN L.orders
                             /\ p = h /\ u = used
    OBVIOUS
  <2>2. p \in [t -> u]
    <3>1. h \in [DOMAIN L.orders -> held]
      BY <1>4 DEF Behind
    <3>2. QED
      BY <2>1, <3>1, <1>6
  <2>3. \A i \in t : f[i] <= g[p[i]]
    <3>1. \A i \in t : f[i] = L.orders[i].maxDebit /\ f[i] \in Nat
      BY <2>1, <1>8 DEF Debits
    <3>2. \A i \in t : g[p[i]] = S.entries[h[i]].debit
      BY <2>1, <1>6 DEF DebitsHeld
    <3>3. \A i \in t : S.entries[h[i]].debit = L.orders[i].maxDebit
      BY <2>1, <1>6 DEF Backs
    <3>4. QED
      BY <3>1, <3>2, <3>3
  <2>4. IsFiniteSet(u) /\ f \in [t -> Nat] /\ g \in [u -> Nat] /\ \A i, j \in t : p[i] = p[j] => i = j
    BY <2>1, <1>5, <1>7, <1>8
  <2>5. Total(f) <= Total(g)
    BY <2>2, <2>3, <2>4, TotalInjection
  <2>6. QED
    BY <2>1, <2>5
<1>10. Total(DebitsHeld(S, held)) = Total(DebitsHeld(S, Pending(S))) + Total(DebitsHeld(S, used))
  <2>1. PICK f, g, q, H, R : /\ f = DebitsHeld(S, held) /\ g = DebitsHeld(S, Pending(S))
                             /\ q = DebitsHeld(S, used) /\ H = held /\ R = Pending(S)
    OBVIOUS
  <2>2. IsFiniteSet(H) /\ R \subseteq H /\ f \in [H -> Nat] /\ g \in [R -> Nat] /\ q \in [H \ R -> Nat]
    BY <2>1, <1>3, <1>7
  <2>3. (\A i \in R : g[i] = f[i]) /\ \A i \in H \ R : q[i] = f[i]
    BY <2>1, <2>2 DEF DebitsHeld
  <2>4. Total(f) = Total(g) + Total(q)
    BY <2>2, <2>3, TotalSplit
  <2>5. QED
    BY <2>1, <2>4
<1>11. Total(DebitsHeld(S, held)) <= S.portfolio.cash
  BY DEF Granted, held
<1> HIDE DEF used
<1>12. QED
  BY <1>1, <1>7, <1>8, <1>9, <1>10, <1>11

LEMMA EvaluateLinks ==
  ASSUME NEW L, NEW S, Link(L, S, IntentsOf(S), DecisionsOf(S)), NEW r \in Requests, Evaluable(S, r),
         NEW at \in Int, NEW T, T = Evaluate(S, r, at)
  PROVE  Link(L, T, IntentsOf(T), DecisionsOf(T))
<1>1. S \in SessionType
  BY LinkIs
<1>2. PICK n \in Nat : n = Len(S.entries)
  BY <1>1, EntriesAre
<1>3. /\ T \in SessionType /\ T.portfolio = S.portfolio /\ DOMAIN T.entries = 1..(n + 1)
      /\ DOMAIN S.entries = 1..n /\ \A i \in 1..n : T.entries[i] = S.entries[i]
      /\ T.entries[n + 1] = NewEntry(S, r, Approved(S, r, at), at)
  BY <1>1, <1>2, EvaluateIs
<1>4. PICK e, I, D, u : e = T.entries[n + 1] /\ I = IntentsOf(S) /\ D = DecisionsOf(S) /\ u = T
  OBVIOUS
<1>5. EntryIsSound(e) /\ e.request = r
  BY <1>1, <1>3, <1>4, NewEntryIs
<1>6. r.intent \notin I /\ r.decision \notin D
  BY <1>4 DEF Evaluable, EntryOf, IntentsOf, DecisionsOf
<1>7. /\ u \in SessionType /\ u.portfolio = S.portfolio /\ DOMAIN u.entries = 1..(n + 1)
      /\ \A i \in 1..n : u.entries[i] = S.entries[i]
      /\ e = u.entries[n + 1] /\ EntryIsSound(e) /\ e.request = r
  BY <1>3, <1>4, <1>5
<1>8. Link(L, u, I \cup {r.intent}, D \cup {r.decision})
  <2>1. Link(L, S, I, D) /\ n = Len(S.entries)
    BY <1>2, <1>4
  <2>2. QED
    BY ONLY r \in Requests, n \in Nat, <1>6, <1>7, <2>1, LinkGrows
<1>9. QED
  BY <1>4, <1>8, LinkOwn

(* An approval takes no more than the reservations before it have left.      *)
LEMMA EvaluateGrants ==
  ASSUME NEW S \in SessionType, Granted(S), NEW r \in Requests, Evaluable(S, r),
         NEW at \in Int, NEW T, T = Evaluate(S, r, at)
  PROVE  Granted(T)
<1>1. PICK n \in Nat : n = Len(S.entries)
  BY EntriesAre
<1>2. /\ T \in SessionType /\ T.portfolio = S.portfolio /\ DOMAIN T.entries = 1..(n + 1)
      /\ DOMAIN S.entries = 1..n /\ \A i \in 1..n : T.entries[i] = S.entries[i]
      /\ T.entries[n + 1] = NewEntry(S, r, Approved(S, r, at), at)
  BY <1>1, EvaluateIs
<1>3. PICK e : e = T.entries[n + 1]
  OBVIOUS
<1>4. e \in EntryType /\ EntryIsSound(e) /\ e.approved = Approved(S, r, at) /\ ~e.issued
      /\ e.request = r
  BY <1>2, <1>3, NewEntryIs
<1>5. \A i \in DOMAIN T.entries : (i \in 1..n /\ T.entries[i] = S.entries[i]) \/ i = n + 1
  BY <1>2
<1>6. \A i \in DOMAIN T.entries : T.entries[i].issued => T.entries[i].terminal
  BY <1>2, <1>3, <1>4, <1>5 DEF Granted
<1>7. Approvals(T) = Approvals(S) \cup (IF e.approved > 0 THEN {n + 1} ELSE {})
  BY <1>2, <1>3, <1>5 DEF Approvals
<1>8. n + 1 \notin Approvals(S)
  BY <1>2, ApprovalsAre
<1>9. /\ Approvals(S) \in SUBSET DOMAIN S.entries /\ Approvals(T) \in SUBSET DOMAIN T.entries
      /\ Total(DebitsHeld(S, Approvals(S))) <= S.portfolio.cash
  BY <1>2, ApprovalsAre DEF Granted
<1>10. /\ IsFiniteSet(Approvals(S)) /\ DebitsHeld(S, Approvals(S)) \in [Approvals(S) -> Nat]
       /\ Total(DebitsHeld(S, Approvals(S))) \in Nat
       /\ DebitsHeld(T, Approvals(T)) \in [Approvals(T) -> Nat]
  BY <1>2, <1>9, HeldIs
<1>11. PICK f, g, H, k : /\ f = DebitsHeld(S, Approvals(S)) /\ g = DebitsHeld(T, Approvals(T))
                         /\ H = Approvals(S) /\ k = n + 1
  OBVIOUS
<1>12. \A i \in H : g[i] = f[i]
  <2>1. \A i \in H : i \in 1..n /\ i \in Approvals(T)
    BY <1>2, <1>7, <1>9, <1>11
  <2>2. QED
    BY <2>1, <1>2, <1>11 DEF DebitsHeld
<1>13. Total(g) <= S.portfolio.cash
  <2>1. CASE ~(e.approved > 0)
    <3>1. Approvals(T) = H
      BY <1>7, <1>11, <2>1
    <3>2. g = f
      BY <3>1, <1>10, <1>11, <1>12
    <3>3. QED
      BY <3>2, <1>9, <1>11
  <2>2. CASE e.approved > 0
    <3>1. Approvals(T) = H \cup {k} /\ k \notin H
      BY <1>7, <1>8, <1>11, <2>2
    <3>2. IsFiniteSet(H) /\ f \in [H -> Nat] /\ g \in [H \cup {k} -> Nat]
      BY <3>1, <1>10, <1>11
    <3>3. Total(g) = Total(f) + g[k]
      BY <3>1, <3>2, <1>12, TotalAdd
    <3>4. g[k] = e.debit /\ e.debit \in Nat
      BY <3>1, <1>3, <1>4, <1>11 DEF DebitsHeld, EntryType
    <3>5. e.debit <= S.portfolio.cash - Total(f)
      <4>1. e.approved \in Nat \ {0}
        BY <2>2, <1>4 DEF EntryType
      <4>2. Acceptable(S, Available(S, r.intent), r, e.approved)
        BY <4>1, <1>4, ApprovedIs
      <4>3. e.debit = Debit(r.side, e.approved)
        BY <4>1, <1>4 DEF EntryIsSound
      <4>4. Reserving(S, r.intent) = Approvals(S)
        <5>1. r.intent \notin IntentsOf(S)
          BY DEF Evaluable, EntryOf, IntentsOf
        <5>2. QED
          BY <5>1, ApprovalsAre
      <4>5. Available(S, r.intent).cash = S.portfolio.cash - Total(DebitsHeld(S, Reserving(S, r.intent)))
        BY AvailableIs
      <4>6. QED
        BY <4>2, <4>3, <4>4, <4>5, <1>11 DEF Acceptable
    <3>6. S.portfolio.cash \in Int /\ Total(f) \in Nat
      BY <1>10, <1>11 DEF SessionType, PortfolioType
    <3>7. QED
      BY <3>3, <3>4, <3>5, <3>6
  <2>3. QED
    BY <2>1, <2>2
<1>14. QED
  BY <1>2, <1>6, <1>11, <1>13 DEF Granted

LEMMA HandoffUses ==
  ASSUME NEW S \in SessionType, NEW i \in DOMAIN S.entries, NEW token, NEW at,
         NEW T, T = Handoff(S, i, token, at)
  PROVE  /\ T.entries[i].terminal <=> (S.entries[i].terminal \/ Consumes(S, i, token))
         /\ T.entries[i].issued <=> (S.entries[i].issued \/ Issues(S, i, token, at))
<1> DEFINE e == S.entries[i]
           a == e.terminal \/ Consumes(S, i, token)
           b == e.issued \/ Issues(S, i, token, at)
           f == [e EXCEPT !.terminal = a, !.issued = b]
<1>1. e \in EntryType
  BY EntriesAre
<1>2. f.terminal = a /\ f.issued = b
  <2> HIDE DEF e, a, b
  <2>1. QED
    BY <1>1 DEF EntryType
<1>3. T.entries = [S.entries EXCEPT ![i] = f]
  BY DEF Handoff, SessionType
<1> HIDE DEF f
<1>4. T.entries[i] = f
  BY <1>3
<1>5. QED
  BY <1>2, <1>4

LEMMA HandoffGrants ==
  ASSUME NEW S \in SessionType, Granted(S), NEW i \in DOMAIN S.entries, NEW token, NEW at,
         NEW T, T = Handoff(S, i, token, at)
  PROVE  Granted(T)
<1>1. /\ DOMAIN T.entries = DOMAIN S.entries /\ T.portfolio = S.portfolio
      /\ \A j \in DOMAIN S.entries \ {i} : T.entries[j] = S.entries[j]
      /\ SameEntry(S.entries[i], T.entries[i])
  <2>1. HandedOff(S, i, Issues(S, i, token, at), Handoff(S, i, token, at))
    BY HandoffIs
  <2>2. QED
    BY <2>1 DEF HandedOff
<1>2. \A j \in DOMAIN T.entries : T.entries[j].issued => T.entries[j].terminal
  <2>1. T.entries[i].issued => T.entries[i].terminal
    <3>1. Issues(S, i, token, at) => Consumes(S, i, token)
      BY DEF Issues
    <3>2. S.entries[i].issued => S.entries[i].terminal
      BY DEF Granted
    <3>3. QED
      BY <3>1, <3>2, HandoffUses
  <2>2. QED
    BY <2>1, <1>1 DEF Granted
<1>3. \A j \in DOMAIN S.entries : /\ T.entries[j].approved = S.entries[j].approved
                                  /\ T.entries[j].debit = S.entries[j].debit
  BY <1>1 DEF SameEntry
<1>4. Approvals(T) = Approvals(S)
  BY <1>1, <1>3 DEF Approvals
<1>5. DebitsHeld(T, Approvals(T)) = DebitsHeld(S, Approvals(S))
  <2>1. \A j \in Approvals(S) : T.entries[j].debit = S.entries[j].debit
    BY <1>3 DEF Approvals
  <2>2. QED
    BY <2>1, <1>4 DEF DebitsHeld
<1>6. QED
  BY <1>1, <1>2, <1>5 DEF Granted

LEMMA HandoffLinks ==
  ASSUME NEW L, NEW S, NEW I, NEW D, Link(L, S, I, D), NEW i \in DOMAIN S.entries, NEW token, NEW at,
         NEW T, T = Handoff(S, i, token, at)
  PROVE  Link(L, T, I, D)
<1>1. S \in SessionType
  BY LinkIs
<1>2. /\ T \in SessionType /\ T.portfolio = S.portfolio /\ DOMAIN T.entries = DOMAIN S.entries
      /\ \A j \in DOMAIN S.entries \ {i} : T.entries[j] = S.entries[j]
      /\ T.entries[i].issued <=> (S.entries[i].issued \/ Issues(S, i, token, at))
      /\ SameEntry(S.entries[i], T.entries[i])
  <2>1. HandedOff(S, i, Issues(S, i, token, at), Handoff(S, i, token, at))
    BY <1>1, HandoffIs
  <2>2. QED
    BY <2>1 DEF HandedOff
<1>3. \A j \in DOMAIN S.entries : /\ T.entries[j].request = S.entries[j].request
                                  /\ SameEntry(S.entries[j], T.entries[j])
                                  /\ S.entries[j].issued => T.entries[j].issued
  BY <1>2 DEF SameEntry
<1>4. EntryIsSound(T.entries[i])
  <2>1. EntryIsSound(S.entries[i])
    BY DEF Link, Entered
  <2>2. Issues(S, i, token, at) => S.entries[i].approved # 0
    <3>1. S.entries[i].approved \in Nat
      BY <1>1, EntriesAre DEF EntryType
    <3>2. QED
      BY <3>1 DEF Issues, Consumes
  <2>3. QED
    BY <2>1, <2>2, <1>2 DEF EntryIsSound, SameEntry
<1>5. Entered(T, I, D)
  <2>1. \A j \in DOMAIN T.entries : EntryIsSound(T.entries[j])
    BY <1>2, <1>4 DEF Link, Entered
  <2>2. QED
    BY <2>1, <1>2, <1>3 DEF Link, Entered
<1>6. Backed(L, T)
  <2>1. ASSUME NEW j \in DOMAIN L.orders PROVE \E m \in DOMAIN T.entries : Backs(T.entries[m], L.orders[j])
    <3>1. PICK m \in DOMAIN S.entries : Backs(S.entries[m], L.orders[j])
      BY DEF Link, Backed
    <3>2. Backs(T.entries[m], L.orders[j])
      BY <3>1, <1>3 DEF Backs, SameEntry
    <3>3. QED
      BY <3>1, <3>2, <1>2
  <2>2. QED
    BY <2>1, <1>2 DEF Link, Backed
<1>7. QED
  BY <1>5, <1>6 DEF Link

LEMMA GrantedStays ==
  ASSUME NEW S, Granted(S), NEW T, T.entries = S.entries, T.portfolio = S.portfolio
  PROVE  Granted(T)
BY DEF Granted, Approvals, DebitsHeld

LEMMA FreshShows ==
  ASSUME NEW L \in LedgerType, NEW n \in Nat,
         NEW v, v = [connected |-> TRUE, sequence |-> n, state |-> L]
  PROVE  v \in ViewType /\ Shows(v, L, n)
BY DEF ViewType, Shows, Final

LEMMA OldShows ==
  ASSUME NEW v \in ViewType, NEW L, NEW M, NEW n \in Nat, Shows(v, L, n), Final(L, M)
  PROVE  Shows(v, M, n + 1)
<1>1. v.sequence <= n + 1 /\ v.sequence # n + 1
  BY DEF Shows, ViewType
<1>2. Final(v.state, M)
  BY DEF Shows, Final
<1>3. QED
  BY <1>1, <1>2 DEF Shows

(* What the venue's journal records of a step, if anything.                  *)
Journaled ==
  \/ ledger' = ledger /\ journal' = journal
  \/ Final(ledger, ledger') /\ journal' = journal + 1

(* The view that a call leaves behind is cut off or current, the others grow old. *)
LEMMA ViewsShow ==
  ASSUME VenueIInv, Journaled, ledger' \in LedgerType, NEW b \in Brokers,
         view' \in {Disconnected(b), Refreshed(b)}
  PROVE  view' \in [Brokers -> ViewType] /\ \A c \in Brokers : Shows(view'[c], ledger', journal')
<1>1. /\ journal \in Nat /\ view \in [Brokers -> ViewType]
      /\ \A c \in Brokers : Shows(view[c], ledger, journal)
  BY DEF VenueIInv
<1>2. journal' \in Nat
  BY <1>1 DEF Journaled
<1>3. ASSUME NEW c \in Brokers PROVE Shows(view[c], ledger', journal')
  <2>1. PICK v, L, M, n : v = view[c] /\ L = ledger /\ M = ledger' /\ n = journal
    OBVIOUS
  <2>2. v \in ViewType /\ n \in Nat /\ Shows(v, L, n)
    BY <1>1, <2>1
  <2>3. CASE ledger' = ledger /\ journal' = journal
    BY <2>1, <2>2, <2>3
  <2>4. CASE Final(ledger, ledger') /\ journal' = journal + 1
    <3>1. Final(L, M)
      BY <2>1, <2>4
    <3>2. Shows(v, M, n + 1)
      BY <2>2, <3>1, OldShows
    <3>3. QED
      BY <2>1, <2>4, <3>2
  <2>5. QED
    BY <2>3, <2>4 DEF Journaled
<1>4. CASE view' = Disconnected(b)
  <2>1. PICK v, w : v = view[b] /\ w = [v EXCEPT !.connected = FALSE]
    OBVIOUS
  <2>2. w \in ViewType /\ w.sequence = v.sequence /\ w.state = v.state
    BY <1>1, <2>1 DEF ViewType
  <2>3. view' = [view EXCEPT ![b] = w]
    BY <1>4, <2>1 DEF Disconnected
  <2>4. Shows(w, ledger', journal')
    BY <1>3, <2>1, <2>2 DEF Shows
  <2>5. QED
    BY <1>1, <1>3, <2>2, <2>3, <2>4
<1>5. CASE view' = Refreshed(b)
  <2>1. PICK w : w = [connected |-> TRUE, sequence |-> journal', state |-> ledger']
    OBVIOUS
  <2>2. w \in ViewType /\ Shows(w, ledger', journal')
    BY <1>2, <2>1, FreshShows
  <2>3. view' = [view EXCEPT ![b] = w]
    BY <1>5, <2>1 DEF Refreshed
  <2>4. QED
    BY <1>1, <1>3, <2>2, <2>3
<1>6. QED
  BY <1>4, <1>5

LEMMA AcknowledgedIs ==
  ASSUME NEW b, NEW ack
  PROVE  Acknowledged(b, ack) \in {Disconnected(b), Refreshed(b)}
BY DEF Acknowledged

LEMMA VenueInitKeeps == VenueInit => VenueIInv
<1> SUFFICES ASSUME VenueInit PROVE VenueIInv
  OBVIOUS
<1>1. /\ ledger = InitialLedger /\ now = InitialLedger.asOf /\ journal = 0 /\ observed = <<>>
      /\ session = NewSession(InitialLedger.initial, InitialControls)
      /\ view = [b \in Brokers |-> [connected |-> TRUE, sequence |-> 0, state |-> InitialLedger]]
      /\ answer = [n \in Intents |-> "none"]
  BY DEF VenueInit
<1>2. PICK L, P, S, v : /\ L = InitialLedger /\ P = L.initial /\ S = NewSession(P, InitialControls)
                        /\ v = [connected |-> TRUE, sequence |-> 0, state |-> L]
  OBVIOUS
<1>3. /\ L \in LedgerType /\ InitialControls \in ControlType /\ L.orders = <<>> /\ L.asOf \in Int
      /\ L.cash >= 0 /\ P = Snapshot(L) /\ P \in PortfolioType
  BY <1>2, OpeningIs DEF LedgerType
<1>4. L.cash = P.cash /\ \A k \in Instruments : Owned(P, k) <= Held(L, k)
  <2>1. \A k \in Instruments : Owned(P, k) = Held(L, k) /\ Held(L, k) \in Nat
    BY <1>3, SnapshotOwns, HoldingsAre
  <2>2. QED
    BY <2>1, <1>3, SnapshotOwns
<1>5. Link(L, S, {}, {})
  BY <1>2, <1>3, <1>4, BeginningIs
<1>6. Link(L, S, IntentsOf(S), DecisionsOf(S))
  BY <1>5, LinkOwn
<1>7. Granted(S)
  <2>1. DOMAIN S.entries = {} /\ S.portfolio = P
    BY <1>2 DEF NewSession
  <2>2. Approvals(S) = {}
    BY <2>1 DEF Approvals
  <2>3. DOMAIN DebitsHeld(S, Approvals(S)) = {}
    BY <2>2 DEF DebitsHeld
  <2>4. Total(DebitsHeld(S, Approvals(S))) = 0
    BY <2>3, TotalEmpty
  <2>5. P.cash >= 0
    BY <1>3, <1>4
  <2>6. QED
    BY <2>1, <2>4, <2>5 DEF Granted
<1>8. v \in ViewType /\ Shows(v, L, 0)
  BY <1>2, <1>3, FreshShows
<1>9. /\ view = [b \in Brokers |-> v] /\ ledger = L /\ session = S /\ now = L.asOf
      /\ DOMAIN ledger.orders = {} /\ DOMAIN observed = {}
      /\ answer \in [Intents -> {"none", "order", "nothing"}]
  BY <1>1, <1>2, <1>3
<1>10. now \in Int /\ ledger.asOf <= now /\ journal \in Nat
  BY <1>1, <1>3, <1>9
<1>11. /\ Link(ledger, session, IntentsOf(session), DecisionsOf(session)) /\ Granted(session)
       /\ view \in [Brokers -> ViewType] /\ \A b \in Brokers : Shows(view[b], ledger, journal)
  BY <1>1, <1>6, <1>7, <1>8, <1>9
<1>12. RetriesFindTheOrder
  BY <1>9 DEF RetriesFindTheOrder
<1>13. QED
  BY <1>9, <1>10, <1>11, <1>12 DEF VenueIInv

-------------------------------------------------------------------------------
(* The venue: one lemma per action *)

LEMMA SessionIs ==
  ASSUME VenueIInv
  PROVE  /\ Link(ledger, session, IntentsOf(session), DecisionsOf(session)) /\ Granted(session)
         /\ now \in Int /\ ledger.asOf \in Int /\ ledger.asOf <= now /\ session \in SessionType
         /\ ledger \in LedgerType /\ Solvent(ledger) /\ Untouched(ledger)
<1>1. Link(ledger, session, IntentsOf(session), DecisionsOf(session)) /\ Granted(session)
      /\ now \in Int /\ ledger.asOf <= now
  BY DEF VenueIInv
<1>2. /\ ledger \in LedgerType /\ Solvent(ledger) /\ Untouched(ledger)
      /\ session \in SessionType
  BY <1>1, LinkIs
<1>3. ledger.asOf \in Int
  BY <1>2 DEF LedgerType
<1>4. QED
  BY <1>1, <1>2, <1>3

LEMMA EvaluateVenue ==
  ASSUME VenueIInv, NEW r \in Requests, EvaluateIntent(r)
  PROVE  VenueIInv'
<1>1. /\ session' = Evaluate(session, r, now) /\ Evaluable(session, r)
      /\ UNCHANGED <<now, ledger, journal, observed, view, answer>>
  BY DEF EvaluateIntent
<1>2. PICK S, T : S = session /\ T = Evaluate(S, r, now) /\ T = session'
  BY <1>1
<1>3. /\ Link(ledger, S, IntentsOf(S), DecisionsOf(S)) /\ Granted(S) /\ S \in SessionType
      /\ now \in Int /\ Evaluable(S, r)
  BY <1>1, <1>2, SessionIs
<1>4. Link(ledger, T, IntentsOf(T), DecisionsOf(T))
  BY <1>2, <1>3, EvaluateLinks
<1>5. Granted(T)
  BY <1>2, <1>3, EvaluateGrants
<1>6. QED
  BY <1>1, <1>2, <1>4, <1>5 DEF VenueIInv, RetriesFindTheOrder

LEMMA RefreshVenue ==
  ASSUME VenueIInv, NEW controls \in ControlStates, RefreshControls(controls)
  PROVE  VenueIInv'
<1>1. /\ session' = UpdateControls(session, controls)
      /\ UNCHANGED <<now, ledger, journal, observed, view, answer>>
  BY DEF RefreshControls
<1>2. PICK S, T, I, D : /\ S = session /\ T = [S EXCEPT !.controls = controls] /\ T = session'
                        /\ I = IntentsOf(S) /\ D = DecisionsOf(S)
  BY <1>1 DEF UpdateControls
<1>3. controls \in ControlType /\ S \in SessionType /\ Link(ledger, S, I, D) /\ Granted(S)
  BY <1>2, SessionIs, TradingAssumption
<1>4. T \in SessionType /\ T.entries = S.entries /\ T.portfolio = S.portfolio
  BY <1>2, <1>3 DEF SessionType
<1>5. Link(ledger, T, I, D)
  BY <1>3, <1>4 DEF Link, Entered, Backed
<1>6. Link(ledger, T, IntentsOf(T), DecisionsOf(T))
  BY <1>5, LinkOwn
<1>7. Granted(T)
  BY <1>3, <1>4, GrantedStays
<1>8. QED
  BY <1>1, <1>2, <1>6, <1>7 DEF VenueIInv, RetriesFindTheOrder

LEMMA ClockVenue ==
  ASSUME VenueIInv, ClockTicks
  PROVE  VenueIInv'
<1>1. now' \in Int /\ ledger.asOf <= now' /\ UNCHANGED <<session, ledger, journal, observed, view, answer>>
  BY SessionIs DEF ClockTicks
<1>2. QED
  BY <1>1 DEF VenueIInv, RetriesFindTheOrder

(* A call that moves neither the account nor the session.                    *)
LEMMA OnlyShows ==
  ASSUME VenueIInv, Unchanged, UNCHANGED <<now, session>>, NEW b \in Brokers,
         view' \in {Disconnected(b), Refreshed(b)},
         answer' \in [Intents -> {"none", "order", "nothing"}], RetriesFindTheOrder'
  PROVE  VenueIInv'
<1>1. UNCHANGED <<now, session, ledger, journal, observed>>
  BY DEF Unchanged
<1>2. Journaled /\ ledger' \in LedgerType
  BY <1>1, SessionIs DEF Journaled
<1>3. view' \in [Brokers -> ViewType] /\ \A c \in Brokers : Shows(view'[c], ledger', journal')
  BY <1>2, ViewsShow
<1>4. QED
  BY <1>1, <1>3 DEF VenueIInv

LEMMA AnswerStays ==
  ASSUME VenueIInv, answer' = answer, ledger' = ledger
  PROVE  answer' \in [Intents -> {"none", "order", "nothing"}] /\ RetriesFindTheOrder'
BY DEF VenueIInv, RetriesFindTheOrder

LEMMA AgainVenue ==
  ASSUME VenueIInv, NEW b \in Brokers, NEW intent \in Intents, NEW ack, SubmitAgain(b, intent, ack)
  PROVE  VenueIInv'
<1>1. /\ Unchanged /\ UNCHANGED <<now, session>> /\ view' \in {Disconnected(b), Refreshed(b)}
      /\ answer' = [answer EXCEPT ![intent] = "order"] /\ ledger' = ledger
  BY AcknowledgedIs DEF SubmitAgain, Unchanged
<1>2. answer \in [Intents -> {"none", "order", "nothing"}] /\ RetriesFindTheOrder
  BY DEF VenueIInv
<1>3. answer' \in [Intents -> {"none", "order", "nothing"}]
  BY <1>1, <1>2
<1>4. RetriesFindTheOrder'
  <2>1. \A i \in DOMAIN ledger.orders : answer'[ledger.orders[i].intent] # "nothing"
    <3>1. \A i \in DOMAIN ledger.orders : ledger.orders[i].intent \in Intents
      BY SessionIs, OrdersAre DEF OrderType
    <3>2. QED
      BY <3>1, <1>1, <1>2 DEF RetriesFindTheOrder
  <2>2. QED
    BY <2>1, <1>1 DEF RetriesFindTheOrder
<1>5. QED
  BY <1>1, <1>3, <1>4, OnlyShows

LEMMA RefusedVenue ==
  ASSUME VenueIInv, NEW b \in Brokers, NEW intent, SubmitRefused(b, intent)
  PROVE  VenueIInv'
<1>1. /\ Unchanged /\ UNCHANGED <<now, session>> /\ view' \in {Disconnected(b), Refreshed(b)}
      /\ answer' = answer /\ ledger' = ledger
  BY DEF SubmitRefused, Unchanged
<1>2. answer' \in [Intents -> {"none", "order", "nothing"}] /\ RetriesFindTheOrder'
  BY <1>1, AnswerStays
<1>3. QED
  BY <1>1, <1>2, OnlyShows

LEMMA ReconcileVenue ==
  ASSUME VenueIInv, NEW b \in Brokers, ReconcileBroker(b)
  PROVE  VenueIInv'
<1>1. /\ Unchanged /\ UNCHANGED <<now, session>> /\ view' \in {Disconnected(b), Refreshed(b)}
      /\ answer' = answer /\ ledger' = ledger
  BY DEF ReconcileBroker, Unchanged
<1>2. answer' \in [Intents -> {"none", "order", "nothing"}] /\ RetriesFindTheOrder'
  BY <1>1, AnswerStays
<1>3. QED
  BY <1>1, <1>2, OnlyShows

(* What a hand-off leaves of the session, whether or not it issues anything.  *)
LEMMA HandoffKeeps ==
  ASSUME VenueIInv, NEW i \in DOMAIN session.entries, NEW token,
         NEW T, T = Handoff(session, i, token, now)
  PROVE  /\ Link(ledger, T, IntentsOf(T), DecisionsOf(T)) /\ Granted(T)
         /\ Link(ledger, T, IntentsOf(session), DecisionsOf(session))
<1>1. PICK S, I, D : S = session /\ I = IntentsOf(S) /\ D = DecisionsOf(S)
  OBVIOUS
<1>2. /\ Link(ledger, S, I, D) /\ Granted(S) /\ S \in SessionType /\ i \in DOMAIN S.entries
      /\ T = Handoff(S, i, token, now)
  BY <1>1, SessionIs
<1>3. Link(ledger, T, I, D)
  BY <1>2, HandoffLinks
<1>4. Granted(T)
  BY <1>2, HandoffGrants
<1>5. Link(ledger, T, IntentsOf(T), DecisionsOf(T))
  BY <1>3, LinkOwn
<1>6. QED
  BY <1>1, <1>3, <1>4, <1>5

LEMMA NothingVenue ==
  ASSUME VenueIInv, NEW b \in Brokers, NEW intent \in Intents, NEW i \in EntryOf(session, intent),
         NEW token, NEW ack, SubmitNothing(b, intent, i, token, ack)
  PROVE  VenueIInv'
<1>1. /\ intent \notin Placed /\ session' = Handoff(session, i, token, now)
      /\ UNCHANGED <<now, ledger, journal, observed>> /\ view' \in {Disconnected(b), Refreshed(b)}
      /\ answer' = [answer EXCEPT ![intent] = "nothing"]
  BY AcknowledgedIs DEF SubmitNothing, Unchanged
<1>2. i \in DOMAIN session.entries
  BY DEF EntryOf
<1>3. PICK T : T = Handoff(session, i, token, now) /\ T = session'
  BY <1>1
<1>4. Link(ledger, T, IntentsOf(T), DecisionsOf(T)) /\ Granted(T)
  BY <1>2, <1>3, HandoffKeeps
<1>5. Journaled /\ ledger' \in LedgerType
  BY <1>1, SessionIs DEF Journaled
<1>6. view' \in [Brokers -> ViewType] /\ \A c \in Brokers : Shows(view'[c], ledger', journal')
  BY <1>1, <1>5, ViewsShow
<1>7. answer \in [Intents -> {"none", "order", "nothing"}] /\ RetriesFindTheOrder
  BY DEF VenueIInv
<1>8. RetriesFindTheOrder'
  <2>1. \A j \in DOMAIN ledger.orders : ledger.orders[j].intent # intent
    BY <1>1 DEF Placed
  <2>2. \A j \in DOMAIN ledger.orders : answer'[ledger.orders[j].intent] # "nothing"
    <3>1. \A j \in DOMAIN ledger.orders : ledger.orders[j].intent \in Intents
      BY SessionIs, OrdersAre DEF OrderType
    <3>2. QED
      BY <3>1, <2>1, <1>1, <1>7 DEF RetriesFindTheOrder
  <2>3. QED
    BY <2>2, <1>1 DEF RetriesFindTheOrder
<1>9. answer' \in [Intents -> {"none", "order", "nothing"}]
  BY <1>1, <1>7
<1>10. QED
  BY <1>1, <1>3, <1>4, <1>6, <1>8, <1>9 DEF VenueIInv

LEMMA TokensAre == Tokens \subseteq Nat
<1>1. \A c \in ControlStates \cup {InitialControls} : c.token \in Nat
  BY TradingAssumption DEF ControlType
<1>2. QED
  BY <1>1 DEF Tokens

(* The entry that has just been issued is behind the order it becomes.        *)
LEMMA OrderAppears ==
  ASSUME VenueIInv, NEW i \in DOMAIN session.entries, NEW token \in Nat, NEW later \in Int,
         Issues(session, i, token, now), NEW T, T = Handoff(session, i, token, now),
         NEW permit, permit = Permit(session, i, token, now), Submittable(ledger, permit, later),
         NEW M, M = Submit(ledger, permit, later), NEW o, o = NewOrder(permit, later)
  PROVE  /\ Link(M, T, IntentsOf(T), DecisionsOf(T)) /\ M.asOf = later
         /\ M.orders = Append(ledger.orders, o) /\ o.intent = session.entries[i].request.intent
<1>1. PICK L, S, I, D, e : /\ L = ledger /\ S = session /\ I = IntentsOf(S) /\ D = DecisionsOf(S)
                           /\ e = S.entries[i]
  OBVIOUS
<1>2. S \in SessionType /\ now \in Int /\ Link(L, T, I, D) /\ T \in SessionType
  BY <1>1, SessionIs, HandoffKeeps, LinkIs
<1>3. /\ permit \in PermitType /\ permit.intent = e.request.intent
      /\ permit.instrument = e.request.instrument /\ permit.side = e.request.side
      /\ permit.approved = e.approved /\ permit.quantity = e.quantity /\ permit.debit = e.debit
  BY <1>1, <1>2, PermitIs
<1>4. /\ o.intent = permit.intent /\ o.instrument = permit.instrument /\ o.side = permit.side
      /\ o.approved = permit.approved /\ o.maxDebit = permit.debit /\ o.target <= permit.quantity
  BY <1>1, <1>3, NewOrderIs, TargetIs
<1>5. PICK f : f = T.entries[i]
  OBVIOUS
<1>6. i \in DOMAIN T.entries /\ SameEntry(e, f) /\ f.issued
  <2>1. HandedOff(S, i, Issues(S, i, token, now), Handoff(S, i, token, now))
    BY <1>1, <1>2, HandoffIs
  <2>2. QED
    BY <2>1, <1>1, <1>5 DEF HandedOff
<1>7. Backs(T.entries[i], o)
  BY <1>3, <1>4, <1>5, <1>6 DEF Backs, SameEntry
<1>8. /\ Link(M, T, I, D) /\ M.orders = Append(L.orders, o) /\ o.intent = permit.intent
      /\ M.asOf = later
  <2>1. Submittable(L, permit, later) /\ M = Submit(L, permit, later)
    BY <1>1
  <2>2. QED
    BY <1>1, <1>2, <1>3, <1>6, <1>7, <2>1, OrderLinks
<1>9. Link(M, T, IntentsOf(T), DecisionsOf(T))
  BY <1>8, LinkOwn
<1>10. QED
  BY <1>1, <1>3, <1>8, <1>9

LEMMA OrderVenue ==
  ASSUME VenueIInv, NEW b \in Brokers, NEW intent \in Intents, NEW i \in EntryOf(session, intent),
         NEW token \in Tokens, NEW ack, NEW later \in now..MaxTime,
         SubmitOrder(b, intent, i, token, ack, later)
  PROVE  VenueIInv'
<1>1. /\ Issues(session, i, token, now) /\ session' = Handoff(session, i, token, now)
      /\ now' = later /\ observed' = observed
  BY DEF SubmitOrder
<1>2. /\ i \in DOMAIN session.entries /\ session.entries[i].request.intent = intent /\ token \in Nat
      /\ later \in Int /\ ledger.asOf <= later
  <2>1. now \in Int /\ MaxTime \in Int /\ ledger.asOf \in Int /\ ledger.asOf <= now
    BY SessionIs, TradingAssumption
  <2>2. QED
    BY <2>1, TokensAre DEF EntryOf
<1>3. PICK T, permit : /\ T = Handoff(session, i, token, now) /\ T = session'
                       /\ permit = Permit(session, i, token, now)
  BY <1>1
<1>4. /\ answer \in [Intents -> {"none", "order", "nothing"}] /\ RetriesFindTheOrder
      /\ \A key \in DOMAIN observed : observed[key] \in BookType
      /\ journal \in Nat
  BY DEF VenueIInv
<1>5. CASE Submittable(ledger, permit, later)
  <2>1. /\ ledger' = Submit(ledger, permit, later) /\ journal' = journal + 1
        /\ view' \in {Disconnected(b), Refreshed(b)}
        /\ answer' = [answer EXCEPT ![intent] = "order"]
    BY <1>3, <1>5, AcknowledgedIs DEF SubmitOrder
  <2>2. PICK M, o : /\ M = Submit(ledger, permit, later) /\ M = ledger'
                    /\ o = NewOrder(permit, later)
    BY <2>1
  <2>3. /\ Link(M, T, IntentsOf(T), DecisionsOf(T)) /\ M.asOf = later
        /\ M.orders = Append(ledger.orders, o) /\ o.intent = session.entries[i].request.intent
    <3>1. /\ i \in DOMAIN session.entries /\ token \in Nat /\ later \in Int
          /\ Issues(session, i, token, now) /\ T = Handoff(session, i, token, now)
          /\ permit = Permit(session, i, token, now) /\ Submittable(ledger, permit, later)
          /\ M = Submit(ledger, permit, later) /\ o = NewOrder(permit, later)
      BY <1>1, <1>2, <1>3, <1>5, <2>2
    <3>2. QED
      BY ONLY VenueIInv, <3>1, OrderAppears
  <2>4. M.orders = Append(ledger.orders, o) /\ o.intent = intent
    BY <1>2, <2>3
  <2>5. /\ \A j \in DOMAIN ledger.orders : j \in DOMAIN M.orders /\ M.orders[j] = ledger.orders[j]
        /\ \A j \in DOMAIN M.orders : j \in DOMAIN ledger.orders \/ M.orders[j] = o
        /\ \A j \in DOMAIN ledger.orders : ledger.orders[j].intent \in Intents
    <3>1. /\ ledger.orders \in Seq(OrderType) /\ Len(ledger.orders) \in Nat
          /\ DOMAIN ledger.orders = 1..Len(ledger.orders)
          /\ \A j \in DOMAIN ledger.orders : ledger.orders[j].intent \in Intents
      BY SessionIs, OrdersAre DEF OrderType
    <3>2. QED
      BY <2>4, <3>1
  <2>6. Journaled /\ ledger' \in LedgerType
    BY <2>1, <2>2, <2>3, <2>5, LinkIs DEF Journaled, Final
  <2>7. view' \in [Brokers -> ViewType] /\ \A c \in Brokers : Shows(view'[c], ledger', journal')
    BY <2>1, <2>6, ViewsShow
  <2>8. Granted(T)
    BY <1>2, <1>3, HandoffKeeps
  <2>9. answer' \in [Intents -> {"none", "order", "nothing"}]
    BY <1>4, <2>1
  <2>10. RetriesFindTheOrder'
    <3>1. \A j \in DOMAIN M.orders : answer'[M.orders[j].intent] # "nothing"
      BY <1>4, <2>1, <2>4, <2>5 DEF RetriesFindTheOrder
    <3>2. QED
      BY <2>2, <3>1 DEF RetriesFindTheOrder
  <2>11. now' \in Int /\ ledger'.asOf <= now' /\ journal' \in Nat
    <3>1. now' \in Int /\ ledger'.asOf = now'
      BY <1>1, <1>2, <2>2, <2>3
    <3>2. journal' \in Nat
      BY <1>4, <2>1
    <3>3. QED
      BY <3>1, <3>2
  <2>12. QED
    BY <1>1, <1>3, <1>4, <2>2, <2>3, <2>7, <2>8, <2>9, <2>10, <2>11 DEF VenueIInv
<1>6. CASE ~Submittable(ledger, permit, later)
  <2>1. /\ ledger' = ledger /\ journal' = journal /\ answer' = answer
        /\ view' \in {Disconnected(b), Refreshed(b)}
    BY <1>3, <1>6 DEF SubmitOrder
  <2>2. Journaled /\ ledger' \in LedgerType
    BY <2>1, SessionIs DEF Journaled
  <2>3. view' \in [Brokers -> ViewType] /\ \A c \in Brokers : Shows(view'[c], ledger', journal')
    BY <2>1, <2>2, ViewsShow
  <2>4. Link(ledger, T, IntentsOf(T), DecisionsOf(T)) /\ Granted(T)
    BY <1>2, <1>3, HandoffKeeps
  <2>5. answer' \in [Intents -> {"none", "order", "nothing"}] /\ RetriesFindTheOrder'
    BY <2>1, AnswerStays
  <2>6. now' \in Int /\ ledger'.asOf <= now' /\ journal' \in Nat
    <3>1. now' = later /\ ledger' = ledger
      BY <1>1, <2>1
    <3>2. now' \in Int /\ ledger'.asOf <= now'
      BY <1>2, <3>1
    <3>3. QED
      BY <1>4, <2>1, <3>2
  <2>7. QED
    BY <1>1, <1>3, <1>4, <2>1, <2>3, <2>4, <2>5, <2>6 DEF VenueIInv
<1>7. QED
  BY <1>5, <1>6

LEMMA DeliveriesAre ==
  ASSUME VenueIInv, NEW book \in Deliveries, book.instrument \in Instruments
  PROVE  book \in BookType
<1>1. CASE book \in {observed[key] : key \in DOMAIN observed}
  BY <1>1 DEF VenueIInv
<1>2. CASE book \in BooksNow
  <2>1. PICK f \in Feeds, s \in 1..MaxSequence :
          book = [instrument |-> f.instrument, bids |-> f.bids, asks |-> f.asks,
                  resync |-> f.resync, sequence |-> s, event |-> now, received |-> now]
    BY <1>2 DEF BooksNow
  <2>2. PICK k, d, a, y : k = f.instrument /\ d = f.bids /\ a = f.asks /\ y = f.resync
    OBVIOUS
  <2>3. /\ d \in Seq(LevelType) \ {<<>>} /\ a \in Seq(LevelType) /\ y \in BOOLEAN
        /\ k \in Instruments /\ s \in Int /\ now \in Int
    BY <2>1, <2>2, TradingAssumption, SessionIs
  <2>4. book = [instrument |-> k, bids |-> d, asks |-> a, resync |-> y, sequence |-> s, event |-> now,
                received |-> now]
    BY <2>1, <2>2
  <2>5. QED
    BY <2>3, <2>4 DEF BookType
<1>3. QED
  BY <1>1, <1>2 DEF Deliveries

(* A command that moves the ledger and leaves the session alone.              *)
LEMMA LedgerMoves ==
  ASSUME VenueIInv, NEW b \in Brokers, view' \in {Disconnected(b), Refreshed(b)},
         UNCHANGED <<now, session, answer>>, journal' = journal + 1,
         \A key \in DOMAIN observed' : observed'[key] \in BookType,
         NEW M, M = ledger', Kept(ledger, M), Untouched(M), M.asOf = now, Final(ledger, M)
  PROVE  VenueIInv'
<1>1. PICK L, S, I, D : L = ledger /\ S = session /\ I = IntentsOf(S) /\ D = DecisionsOf(S)
  OBVIOUS
<1>2. Link(L, S, I, D) /\ Granted(S) /\ now \in Int /\ L \in LedgerType /\ Kept(L, M)
  BY <1>1, SessionIs
<1>3. Link(M, S, I, D) /\ M \in LedgerType
  BY <1>2, LinkStays, LinkIs
<1>4. /\ Link(ledger', session, IntentsOf(session), DecisionsOf(session)) /\ Granted(session)
      /\ now \in Int /\ ledger' \in LedgerType
  BY <1>1, <1>2, <1>3
<1>5. Journaled
  BY DEF Journaled
<1>6. view' \in [Brokers -> ViewType] /\ \A c \in Brokers : Shows(view'[c], ledger', journal')
  BY <1>4, <1>5, ViewsShow
<1>7. /\ answer \in [Intents -> {"none", "order", "nothing"}] /\ RetriesFindTheOrder
      /\ journal \in Nat
  BY DEF VenueIInv
<1>8. RetriesFindTheOrder'
  <2>1. /\ DOMAIN M.orders = DOMAIN ledger.orders
        /\ \A j \in DOMAIN ledger.orders : M.orders[j].intent = ledger.orders[j].intent
    BY DEF Kept, SameOrders, SameOrder
  <2>2. \A j \in DOMAIN M.orders : answer[M.orders[j].intent] # "nothing"
    BY <1>7, <2>1 DEF RetriesFindTheOrder
  <2>3. QED
    BY <2>2 DEF RetriesFindTheOrder
<1>9. ledger'.asOf <= now
  BY <1>2
<1>10. journal' \in Nat
  BY <1>7
<1>11. QED
  BY <1>4, <1>6, <1>7, <1>8, <1>9, <1>10 DEF VenueIInv

LEMMA ObserveVenue ==
  ASSUME VenueIInv, NEW b \in Brokers, NEW ack, NEW book \in Deliveries, ObserveBook(b, book, ack)
  PROVE  VenueIInv'
<1>1. UNCHANGED <<now, session, answer>>
  BY DEF ObserveBook
<1>2. CASE Unchanged /\ view' \in {Disconnected(b), Refreshed(b)}
  <2>1. ledger' = ledger
    BY <1>2 DEF Unchanged
  <2>2. answer' \in [Intents -> {"none", "order", "nothing"}] /\ RetriesFindTheOrder'
    BY <1>1, <2>1, AnswerStays
  <2>3. QED
    BY <1>1, <1>2, <2>2, OnlyShows
<1>3. ASSUME Committable(book), ledger' = AfterBook(book).ledger, journal' = journal + 1,
             observed' = Put(observed, Key(book), book), view' \in {Disconnected(b), Refreshed(b)}
      PROVE  VenueIInv'
  <2>1. book \in BookType
    <3>1. book.instrument \in Instruments
      BY <1>3 DEF Committable, MarketAccepted
    <3>2. QED
      BY <3>1, DeliveriesAre
  <2>2. PICK L, M, held, m : /\ L = ledger /\ m = Market(L, book, now, held) /\ M = m.ledger
                             /\ M = ledger'
    BY <1>3 DEF AfterBook
  <2>3. L \in LedgerType /\ Solvent(L) /\ Untouched(L) /\ now \in Int
    BY <2>2, SessionIs
  <2>4. /\ Kept(L, M) /\ M.asOf = now /\ Final(L, M)
        /\ \A i \in DOMAIN L.orders : M.orders[i].status = "submitted" => M.orders[i] = L.orders[i]
    <3>1. Settles(L, book, now, held, m)
      BY <2>1, <2>2, <2>3, MarketIs
    <3>2. QED
      BY <3>1, <2>2 DEF Settles
  <2>5. Untouched(M)
    BY <2>3, <2>4 DEF Untouched, OpenOrders, Kept, SameOrders
  <2>6. \A key \in DOMAIN observed' : observed'[key] \in BookType
    <3>1. \A key \in DOMAIN observed : observed[key] \in BookType
      BY DEF VenueIInv
    <3>2. QED
      BY <1>3, <2>1, <3>1 DEF Put
  <2>7. Kept(ledger, M) /\ M.asOf = now /\ Final(ledger, M) /\ M = ledger'
    BY <2>2, <2>4
  <2>8. QED
    BY <1>1, <1>3, <2>5, <2>6, <2>7, LedgerMoves
<1>4. QED
  BY <1>2, <1>3, AcknowledgedIs DEF ObserveBook

LEMMA CancelVenue ==
  ASSUME VenueIInv, NEW b \in Brokers, NEW intent, NEW ack, CancelIntent(b, intent, ack)
  PROVE  VenueIInv'
<1>1. UNCHANGED <<now, session, observed, answer>>
  BY DEF CancelIntent
<1>2. CASE ledger' = ledger /\ journal' = journal /\ view' \in {Disconnected(b), Refreshed(b)}
  <2>1. answer' \in [Intents -> {"none", "order", "nothing"}] /\ RetriesFindTheOrder'
    BY <1>1, <1>2, AnswerStays
  <2>2. Unchanged
    BY <1>1, <1>2 DEF Unchanged
  <2>3. QED
    BY <1>1, <1>2, <2>1, <2>2, OnlyShows
<1>3. ASSUME ledger' = Cancel(ledger, intent, now), journal' = journal + 1,
             view' \in {Disconnected(b), Refreshed(b)}
      PROVE  VenueIInv'
  <2>1. PICK L, M : L = ledger /\ M = Cancel(L, intent, now) /\ M = ledger'
    BY <1>3
  <2>2. Kept(L, M) /\ Untouched(M) /\ M.asOf = now /\ Final(L, M)
    <3>1. L \in LedgerType /\ Solvent(L) /\ Untouched(L) /\ now \in Int
      BY <2>1, SessionIs
    <3>2. Cancels(L, Cancel(L, intent, now), now)
      BY <3>1, CancelIs
    <3>3. QED
      BY <2>1, <3>2 DEF Cancels
  <2>3. \A key \in DOMAIN observed' : observed'[key] \in BookType
    BY <1>1 DEF VenueIInv
  <2>4. QED
    BY <1>1, <1>3, <2>1, <2>2, <2>3, LedgerMoves
<1>4. QED
  BY <1>2, <1>3, AcknowledgedIs DEF CancelIntent

LEMMA VenueStepKeeps == VenueIInv /\ [VenueNext]_venueVars => VenueIInv'
<1> SUFFICES ASSUME VenueIInv, [VenueNext]_venueVars PROVE VenueIInv'
  OBVIOUS
<1>1. CASE UNCHANGED venueVars
  BY <1>1 DEF venueVars, VenueIInv, RetriesFindTheOrder
<1>2. ASSUME NEW r \in Requests, EvaluateIntent(r) PROVE VenueIInv'
  BY <1>2, EvaluateVenue
<1>3. ASSUME NEW controls \in ControlStates, RefreshControls(controls) PROVE VenueIInv'
  BY <1>3, RefreshVenue
<1>4. CASE ClockTicks
  BY <1>4, ClockVenue
<1>5. ASSUME NEW b \in Brokers, NEW ack \in BOOLEAN, NEW n \in Intents, NEW token \in Tokens,
             NEW later \in now..MaxTime, SubmitIntent(b, n, token, ack, later)
      PROVE  VenueIInv'
  <2>1. CASE SubmitAgain(b, n, ack)
    BY <2>1, AgainVenue
  <2>2. CASE SubmitRefused(b, n)
    BY <2>2, RefusedVenue
  <2>3. ASSUME NEW i \in EntryOf(session, n), SubmitNothing(b, n, i, token, ack) PROVE VenueIInv'
    BY <2>3, NothingVenue
  <2>4. ASSUME NEW i \in EntryOf(session, n), SubmitOrder(b, n, i, token, ack, later)
        PROVE  VenueIInv'
    BY <2>4, OrderVenue
  <2>5. QED
    BY <1>5, <2>1, <2>2, <2>3, <2>4 DEF SubmitIntent
<1>6. ASSUME NEW b \in Brokers, NEW ack \in BOOLEAN, NEW book \in Deliveries, ObserveBook(b, book, ack)
      PROVE  VenueIInv'
  BY <1>6, ObserveVenue
<1>7. ASSUME NEW b \in Brokers, NEW ack \in BOOLEAN, NEW n \in Intents, CancelIntent(b, n, ack)
      PROVE  VenueIInv'
  BY <1>7, CancelVenue
<1>8. ASSUME NEW b \in Brokers, ReconcileBroker(b) PROVE VenueIInv'
  BY <1>8, ReconcileVenue
<1>9. QED
  BY <1>1, <1>2, <1>3, <1>4, <1>5, <1>6, <1>7, <1>8 DEF VenueNext

(* Through lost acknowledgements, lapsed approvals and repeated observations, every order of the
   venue has the issued entry behind it, all approvals together are within the portfolio the session
   was given, and a view that the venue has left behind is wrong about open orders only
   (session.py:205-236, account.py:262-282).                                                    *)
THEOREM VenueAndSessionAgree == VenueSpec => []VenueIInv
<1>1. VenueInit => VenueIInv
  BY VenueInitKeeps
<1>2. VenueIInv /\ [VenueNext]_venueVars => VenueIInv'
  BY VenueStepKeeps
<1>3. QED
  BY <1>1, <1>2, PTL DEF VenueSpec

(* No broker shows an order in a state the venue has left, whatever acknowledgements were lost and
   however many brokers move the account, and a retry of an intent that has an order is never told
   there is none (account.py:163-166, 262-282).                                                 *)
THEOREM BrokersNeverLie == VenueSpec => []BrokersKnowTheTruth
<1>1. ASSUME VenueIInv PROVE ViewNeverLies
  <2>1. SUFFICES ASSUME NEW b \in Brokers
        PROVE  /\ \A i \in DOMAIN view[b].state.orders :
                    ShownStatus(b, i) # "unknown" => view[b].state.orders[i] = ledger.orders[i]
               /\ ShownReconciled(b) => view[b].state = ledger
    BY DEF ViewNeverLies
  <2>2. Shows(view[b], ledger, journal)
    BY <1>1 DEF VenueIInv
  <2>3. Current(b) => view[b].state = ledger
    BY <2>2 DEF Shows, Current
  <2>4. ASSUME NEW i \in DOMAIN view[b].state.orders, ShownStatus(b, i) # "unknown"
        PROVE  view[b].state.orders[i] = ledger.orders[i]
    <3>1. CASE Current(b)
      BY <2>3, <3>1
    <3>2. CASE ~Current(b)
      <4>1. view[b].state.orders[i].status # "submitted"
        BY <2>4, <3>2 DEF ShownStatus
      <4>2. QED
        BY <2>2, <4>1 DEF Shows, Final
    <3>3. QED
      BY <3>1, <3>2
  <2>5. QED
    BY <2>3, <2>4 DEF ShownReconciled
<1>2. VenueIInv => BrokersKnowTheTruth
  BY <1>1 DEF BrokersKnowTheTruth, VenueIInv
<1>3. QED
  BY <1>2, VenueAndSessionAgree, PTL

(* What was approved and may still be handed off is there besides what open orders may take: the
   session reserves from the portfolio it was given, and every order has used up its own
   reservation (session.py:205-210).                                                            *)
THEOREM PromisesAreKept == VenueSpec => []NothingPromisedTwice
<1>1. ASSUME VenueIInv PROVE NothingPromisedTwice
  <2>1. PICK L, S, held, due, debits : /\ L = ledger /\ S = session
          /\ held = Total(DebitsHeld(S, Pending(S))) /\ due = Total(Due(L))
          /\ debits = Total(Debits(L))
    OBVIOUS
  <2>2. Link(L, S, IntentsOf(S), DecisionsOf(S)) /\ Granted(S) /\ L \in LedgerType
    BY <1>1, <2>1, SessionIs
  <2>3. debits \in Nat /\ held \in Nat /\ debits + held <= S.portfolio.cash
    BY <2>1, <2>2, PromisesFit
  <2>4. S.portfolio = L.initial /\ Sound(L)
    BY <2>2, LinkIs
  <2>5. L.cash - due >= L.initial.cash - debits
    BY <2>1, <2>4 DEF Sound, Covered, Slack
  <2>6. due \in Nat /\ L.cash \in Int /\ L.initial.cash \in Int
    <3>1. due \in Nat
      BY <2>1, <2>2, <2>4, DuesAre DEF Sound, Solvent
    <3>2. L.cash \in Int /\ L.initial \in PortfolioType
      BY <2>2 DEF LedgerType
    <3>3. QED
      BY <3>1, <3>2 DEF PortfolioType
  <2>7. held + due <= L.cash
    BY <2>3, <2>4, <2>5, <2>6
  <2>8. Reserved(ledger) = due
    BY <2>1 DEF Reserved, Due
  <2>9. Promised = held
    <3>1. {i \in DOMAIN S.entries : S.entries[i].approved > 0 /\ ~S.entries[i].terminal} = Pending(S)
      BY DEF Pending, Approvals
    <3>2. QED
      BY <2>1, <3>1 DEF Promised, DebitsHeld
  <2>10. QED
    BY <2>1, <2>7, <2>8, <2>9 DEF NothingPromisedTwice
<1>2. QED
  BY <1>1, VenueAndSessionAgree, PTL

-------------------------------------------------------------------------------
(* A backtest: its bars, and what its gate approves of a request *)

LEMMA BarsAre ==
  ASSUME NEW bs \in Seq(Bar)
  PROVE  /\ Len(bs) \in Nat /\ DOMAIN bs = 1..Len(bs)
         /\ \A i \in DOMAIN bs : /\ bs[i] \in Bar /\ bs[i].event \in Nat /\ bs[i].ingested \in Nat
                                 /\ bs[i].close \in Nat \ {0} /\ bs[i].volume \in Nat
<1>1. \A i \in 1..Len(bs) : bs[i] \in Bar
  OBVIOUS
<1>2. QED
  BY <1>1 DEF Bar

(* Bars that follow each other in time are in time all along: were two of them not, there would
   be two of the least distance, and one between them.                                         *)
LEMMA InOrderOfArrival ==
  ASSUME NEW bs \in Seq(Bar), Ordered(bs), NEW i \in DOMAIN bs, NEW j \in DOMAIN bs, i <= j
  PROVE  bs[i].ingested <= bs[j].ingested
<1> DEFINE T == {d \in Nat : \E k \in DOMAIN bs : k + d \in DOMAIN bs
                                                   /\ ~(bs[k].ingested <= bs[k + d].ingested)}
<1>1. SUFFICES ASSUME ~(bs[i].ingested <= bs[j].ingested) PROVE FALSE
  OBVIOUS
<1>2. DOMAIN bs = 1..Len(bs) /\ Len(bs) \in Nat /\ \A k \in DOMAIN bs : bs[k].ingested \in Nat
  BY BarsAre
<1>3. j - i \in T
  <2>1. j - i \in Nat /\ i + (j - i) = j
    BY <1>2
  <2>2. QED
    BY <1>1, <2>1
<1>4. PICK d \in T : \A e \in T : d <= e
  BY <1>3, LeastExists
<1>5. PICK k \in DOMAIN bs : k + d \in DOMAIN bs /\ ~(bs[k].ingested <= bs[k + d].ingested)
  BY <1>4
<1>6. d \in Nat /\ k \in Nat
  BY <1>2, <1>4, <1>5
<1>7. d # 0
  BY <1>2, <1>5, <1>6
<1>8. d - 1 \in Nat /\ k + (d - 1) \in DOMAIN bs /\ k + (d - 1) \in 1..(Len(bs) - 1)
      /\ (k + (d - 1)) + 1 = k + d
  BY SMTT(40), <1>2, <1>5, <1>6, <1>7
<1>9. bs[k].ingested <= bs[k + (d - 1)].ingested
  BY SMTT(40), <1>4, <1>5, <1>6, <1>8
<1>10. bs[k + (d - 1)].ingested <= bs[k + d].ingested
  <2> DEFINE l == k + (d - 1)
  <2>1. bs[l].ingested <= bs[l + 1].ingested
    BY <1>8 DEF Ordered
  <2>2. QED
    BY <1>8, <2>1
<1>11. QED
  <2>1. PICK a, b, c : a = bs[k].ingested /\ b = bs[k + (d - 1)].ingested /\ c = bs[k + d].ingested
    OBVIOUS
  <2>2. a \in Nat /\ b \in Nat /\ c \in Nat
    BY <1>2, <1>5, <1>8, <2>1
  <2>3. a <= b /\ b <= c /\ ~(a <= c)
    BY <1>5, <1>9, <1>10, <2>1
  <2>4. QED
    BY <2>2, <2>3

(* The bar the gate finds arrived when the one it was asked about did.     *)
LEMMA SourceIs ==
  ASSUME NEW bs \in Seq(Bar), NEW k \in DOMAIN bs, NEW s, s = Source(bs, bs[k])
  PROVE  /\ s \in Bar /\ s.ingested = bs[k].ingested /\ \E i \in DOMAIN bs : s = bs[i]
         /\ s.close \in Nat \ {0} /\ s.volume \in Nat /\ s.ingested \in Nat
<1> DEFINE same == {i \in DOMAIN bs : bs[i].ingested = bs[k].ingested}
           back == {d \in Nat : \E i \in same : d = Len(bs) - i}
           last == CHOOSE i \in same : \A j \in same : j <= i
<1>1. Len(bs) \in Nat /\ DOMAIN bs = 1..Len(bs)
  BY BarsAre
<1>2. Len(bs) - k \in back
  BY <1>1
<1>3. PICK d \in back : \A e \in back : d <= e
  BY <1>2, LeastExists
<1>4. PICK i \in same : d = Len(bs) - i
  BY <1>3
<1>5. \A j \in same : j <= i
  <2>1. ASSUME NEW j \in same PROVE j <= i
    <3>1. Len(bs) - j \in back
      BY <1>1
    <3>2. QED
      BY <1>1, <1>3, <1>4, <3>1
  <2>2. QED
    BY <2>1
<1>6. last \in same
  BY <1>4, <1>5
<1>7. s = bs[last] /\ last \in DOMAIN bs /\ bs[last].ingested = bs[k].ingested
  BY <1>6 DEF Source
<1>8. QED
  BY <1>7, BarsAre

LEMMA QuotesAre ==
  ASSUME NEW close \in Nat, NEW side
  PROVE  /\ Bid(close) \in Int /\ Ask(close) \in Int
         /\ WorstPrice(side, Bid(close)) \in Int /\ WorstPrice(side, Ask(close)) \in Int
<1>1. BpsDen \in Nat \ {0} /\ SlipBps \in Nat /\ SpreadBps \in Int /\ Tick \in Nat
  BY RatesAssumption, ReplayAssumption
<1>2. \A x \in Int : Quantized(x) \in Int
  <2>1. ASSUME NEW x \in Int PROVE Quantized(x) \in Int
    <3>1. x \div BpsDen \in Int
      BY <1>1
    <3>2. QED
      BY <3>1 DEF Quantized
  <2>2. QED
    BY <2>1
<1>3. close * BpsDen \in Int /\ Larger(close * SpreadBps, Tick * BpsDen) \in Int
  BY <1>1 DEF Larger
<1>4. Bid(close) \in Int /\ Ask(close) \in Int
  BY <1>2, <1>3 DEF Bid, Ask
<1>5. \A q \in Int : WorstPrice(side, q) \in Int
  <2>1. ASSUME NEW q \in Int PROVE WorstPrice(side, q) \in Int
    <3>1. q * (BpsDen + SlipBps) \in Int /\ q * (BpsDen - SlipBps) \in Int
      BY <1>1
    <3>2. (-(q * (BpsDen + SlipBps))) \div BpsDen \in Int /\ (q * (BpsDen - SlipBps)) \div BpsDen \in Int
      BY <1>1, <3>1
    <3>3. QED
      BY <3>2 DEF WorstPrice, CeilDiv
  <2>2. QED
    BY <2>1
<1>6. QED
  BY <1>4, <1>5

(* Whatever the session, what is approved is within what was asked for.    *)
LEMMA ApprovalIsWithin ==
  ASSUME NEW S, NEW r, NEW at, r.notional \in Int, WorstPrice(r.side, Quote(r)) \in Int,
         NEW a, a = Approved(S, r, at)
  PROVE  /\ a \in Nat
         /\ a # 0 => a <= r.notional /\ Quantity(r, a) \in Int
<1> DEFINE A == Available(S, r.intent)
           steps == AcceptableSteps(S, A, r)
           most == r.notional \div Increment
           size == Largest(steps)
           price == WorstPrice(r.side, Quote(r))
<1>1. Increment \in Nat \ {0} /\ most \in Int /\ most * Increment <= r.notional
  BY RiskAssumption
<1>2. steps \subseteq 1..most
  BY DEF AcceptableSteps
<1> HIDE DEF A, most, steps
<1>3. size \in Nat /\ (size # 0 => size <= most)
  <2>1. CASE most < 0
    <3>1. steps = {}
      BY <1>1, <1>2, <2>1
    <3>2. size \in {0}
      BY <3>1 DEF Largest
    <3>3. QED
      BY <3>2
  <2>2. CASE ~(most < 0)
    <3>1. most \in Nat /\ steps \in SUBSET (0..most)
      BY <1>1, <1>2, <2>2
    <3>2. size \in 0..most
      BY <3>1, LargestIs
    <3>3. QED
      BY <1>1, <3>2
  <2>3. QED
    BY <2>1, <2>2
<1> HIDE DEF size
<1>4. Increment * size \in Nat
  BY <1>1, <1>3
<1>5. Approvable(S, A, r) \in {0, Increment * size}
  BY DEF Approvable, size, steps
<1>6. a \in {0, Increment * size} /\ (a # 0 => price > 0)
  BY <1>5 DEF Approved, A
<1>7. ASSUME a # 0 PROVE a <= r.notional
  <2>1. a = Increment * size /\ size # 0
    BY <1>1, <1>6, <1>7
  <2>2. Increment * size <= Increment * most /\ Increment * most = most * Increment
    BY <1>1, <1>3, <2>1
  <2>3. QED
    BY <1>1, <1>4, <2>1, <2>2
<1>8. ASSUME a # 0 PROVE Quantity(r, a) \in Int
  <2>1. price \in Nat \ {0} /\ a \in Nat
    BY <1>4, <1>6, <1>8
  <2>2. a \div price \in Int /\ (-a) \div price \in Int
    <3> HIDE DEF price
    <3>1. QED
      BY <2>1
  <2>3. QED
    BY <2>2 DEF Quantity, CeilDiv
<1>9. QED
  BY <1>4, <1>6, <1>7, <1>8

-------------------------------------------------------------------------------
(* A backtest: what its gate, its orders and its result rest on *)

BothSides == {"buy", "sell"}
SentOrder == [side : BothSides, quantity : Int, at : Nat, whole : BOOLEAN]
Signal == [at : Nat, side : BothSides]
Members(s) == {s[i] : i \in DOMAIN s}

\* All bars arrived at times of their own.
DistinctTimes == \A i, j \in DOMAIN bars : i < j => bars[i].ingested < bars[j].ingested

BarsAreBound ==
  /\ run \in Definitions /\ object \in Seq(Bar) /\ bars \in Seq(Bar) /\ published \in 0..Len(bars)
  /\ phase \in {"defined", "valid", "running", "ended"}
  /\ phase \in {"defined", "valid"} => bars = <<>> /\ gate.receipts = <<>>
  /\ phase = "valid" /\ run.source = "inline" => Ordered(run.content) /\ Bound(run, run.content)
  /\ phase = "valid" /\ run.source = "none" => ~run.gated
  /\ phase = "running" => bars # <<>>
  /\ bars # <<>> =>
       LeakageFindings(run) = {} /\ bars = run.content /\ Ordered(bars) /\ Bound(run, bars)

StrategyType == [long : BOOLEAN, asked : Seq(Signal), orders : Seq(SentOrder)]

IsVenue(v) ==
  v \in [cash : {v.cash}, quantity : Int, cost : {v.cost}, realized : {v.realized},
         underWay : Seq(SentOrder), fills : {v.fills}]

IsGate(g) ==
  g \in [peak : {g.peak}, receipts : Seq(Members(g.receipts)), evaluations : Nat,
         approvals : Nat, failed : BOOLEAN]

ReceiptIsSound(r) ==
  /\ r.quantity \in Nat /\ r.at \in Nat /\ r.side \in BothSides
  /\ Consistent(r)
  /\ r.quantity > 0 => r.session.entries[1].approved <= r.request.notional
  /\ r.request.intent = [at |-> r.at, side |-> r.side]

JournalIsSound ==
  /\ \A i \in DOMAIN gate.receipts : ReceiptIsSound(gate.receipts[i])
  /\ gate.evaluations = Len(gate.receipts)
  /\ gate.approvals = Cardinality(Admitting(gate.receipts))
  /\ ~gate.failed /\ run.gated =>
       /\ Len(strategy.asked) = Len(gate.receipts)
       /\ \A i \in DOMAIN gate.receipts :
            strategy.asked[i] = [at |-> gate.receipts[i].at, side |-> gate.receipts[i].side]

\* Bars that arrive one at a time are asked about one at a time.
JournalIsInTime ==
  DistinctTimes =>
    /\ \A i, j \in DOMAIN gate.receipts : i < j => gate.receipts[i].at < gate.receipts[j].at
    /\ \A i \in DOMAIN gate.receipts, k \in (published + 1)..Len(bars) :
         gate.receipts[i].at < bars[k].ingested

ResultIsWhole ==
  /\ phase # "ended" => result = NoResult
  /\ DistinctTimes => AuditIsWhole

BacktestIInv ==
  /\ BarsAreBound
  /\ strategy \in StrategyType /\ IsVenue(venue) /\ IsGate(gate)
  /\ JournalIsSound /\ JournalIsInTime /\ OrdersAreHandedOff /\ ResultIsWhole

-------------------------------------------------------------------------------
(* A backtest: one signal *)

LEMMA AttemptIs ==
  ASSUME NEW replay, NEW bs \in Seq(Bar), NEW k \in DOMAIN bs, NEW account, NEW peak,
         NEW side \in BothSides, NEW requested \in Int,
         NEW r, r = Attempt(replay, bs, bs[k], account, peak, side, requested)
  PROVE  /\ r.at = bs[k].ingested /\ r.side = side /\ r.quantity \in Int
         /\ r.quantity # 0 => r.outcome = "handed_off"
         /\ r.request.intent = [at |-> r.at, side |-> r.side]
         /\ r.quantity > 0 => r.session.entries[1].approved <= r.request.notional
<1> DEFINE source == Source(bs, bs[k])
           notional == IF side = "sell" THEN ExitNotional(requested \div source.close, source)
                                        ELSE requested
           request == Request(replay, source, side, notional)
           fresh == NewSession(Portfolio(account, source, peak), Controls(replay, source))
           evaluated == Evaluate(fresh, request, source.ingested)
           outcome == Outcome(request, evaluated)
           entry == evaluated.entries[1]
           a == Approved(fresh, request, source.ingested)
<1>1. /\ source.ingested = bs[k].ingested /\ source.close \in Nat \ {0}
  BY SourceIs
<1>2. /\ r.at = bs[k].ingested /\ r.side = side /\ r.request = request /\ r.session = evaluated
      /\ r.outcome = outcome
      /\ r.quantity = IF outcome = "handed_off" THEN Lots(entry.quantity) ELSE 0
  BY DEF Attempt
<1> HIDE DEF source
<1>3. notional \in Int
  <2>1. requested \div source.close \in Int
    BY <1>1
  <2>2. \A h \in Int : ExitNotional(h, source) \in Int
    <3>1. WorstPrice("sell", Bid(source.close)) \in Int /\ Increment \in Nat \ {0}
      BY <1>1, QuotesAre, RiskAssumption
    <3>2. ASSUME NEW h \in Int PROVE ExitNotional(h, source) \in Int
      <4>1. h * WorstPrice("sell", Bid(source.close)) \in Int
        BY <3>1
      <4>2. (h * WorstPrice("sell", Bid(source.close))) \div Increment \in Int
        BY <3>1, <4>1
      <4>3. QED
        BY <3>1, <4>2 DEF ExitNotional
    <3>3. QED
      BY <3>2
  <2>3. QED
    BY <2>1, <2>2
<1> HIDE DEF notional
<1>4. /\ request.side = side /\ request.notional = notional
      /\ request.intent = [at |-> source.ingested, side |-> side]
      /\ Quote(request) \in {Bid(source.close), Ask(source.close)}
  BY DEF Request, Quote
<1> HIDE DEF request
<1>5. WorstPrice(request.side, Quote(request)) \in Int
  BY <1>1, <1>4, QuotesAre
<1>6. a \in Nat /\ (a # 0 => a <= notional /\ Quantity(request, a) \in Int)
  BY <1>3, <1>4, <1>5, ApprovalIsWithin
<1>7. entry = NewEntry(fresh, request, a, source.ingested)
  <2>1. fresh.entries = <<>>
    BY DEF NewSession
  <2>2. evaluated.entries = Append(<<>>, NewEntry(fresh, request, a, source.ingested))
    BY <2>1 DEF Evaluate, NewSession
  <2> HIDE DEF evaluated
  <2>3. QED
    BY <2>2
<1> HIDE DEF a, evaluated, fresh
<1>8. entry.approved = a /\ entry.quantity = IF a = 0 THEN 0 ELSE Quantity(request, a)
  BY <1>7 DEF NewEntry
<1>9. outcome = "handed_off" => a # 0
  BY <1>8 DEF Outcome
<1> HIDE DEF outcome, entry
<1>10. r.quantity \in Int
  <2>1. entry.quantity \in Int
    BY <1>6, <1>8
  <2>2. entry.quantity \div SizeIncrement \in Int /\ SizeIncrement \in Int
    BY <2>1, ReplayAssumption
  <2>3. Lots(entry.quantity) \in Int
    BY <2>2 DEF Lots
  <2>4. QED
    BY <1>2, <2>3
<1>11. r.quantity > 0 => entry.approved <= notional
  BY <1>2, <1>6, <1>8, <1>9
<1>12. QED
  BY <1>1, <1>2, <1>4, <1>10, <1>11 DEF entry

(* What an approval the strategy asks for leaves in the gate: nothing more, or its receipt. *)
Silenced(g, after) ==
  /\ after.failed /\ after.receipts = g.receipts
  /\ after.evaluations = g.evaluations /\ after.approvals = g.approvals

Journalled(g, after, r) ==
  /\ ~g.failed /\ ~after.failed /\ after.receipts = Append(g.receipts, r) /\ ReceiptIsSound(r)
  /\ after.evaluations = g.evaluations + 1
  /\ after.approvals = g.approvals + IF r.quantity > 0 THEN 1 ELSE 0

Unasked(g, after) ==
  /\ after.receipts = g.receipts /\ after.failed = g.failed
  /\ after.evaluations = g.evaluations /\ after.approvals = g.approvals

LEMMA PeakTakenIs ==
  ASSUME IsGate(gate), NEW bar
  PROVE  IsGate(PeakTaken(bar)) /\ Unasked(gate, PeakTaken(bar))
<1> DEFINE p == Larger(gate.peak, EquityAt(venue, Source(bars, bar).close))
<1>1. PeakTaken(bar) = [gate EXCEPT !.peak = p]
  BY DEF PeakTaken
<1> HIDE DEF p
<1>2. QED
  BY <1>1 DEF IsGate, Unasked

LEMMA SequenceOf ==
  ASSUME NEW M, NEW s \in Seq(M), NEW S, \A i \in 1..Len(s) : s[i] \in S
  PROVE  s \in Seq(S)
OBVIOUS

LEMMA AppendIs ==
  ASSUME NEW s, s \in Seq(Members(s)), NEW r, NEW t, t = Append(s, r)
  PROVE  /\ t \in Seq(Members(t)) /\ Len(t) = Len(s) + 1 /\ Len(s) \in Nat
         /\ DOMAIN s = 1..Len(s) /\ DOMAIN t = 1..(Len(s) + 1)
         /\ \A i \in DOMAIN s : t[i] = s[i]
         /\ t[Len(s) + 1] = r
<1> DEFINE M == Members(s) \cup {r}
<1>1. s \in Seq(M) /\ r \in M
  <2>1. Members(s) \subseteq M
    OBVIOUS
  <2> HIDE DEF M
  <2>2. Seq(Members(s)) \subseteq Seq(M)
    BY <2>1
  <2>3. QED
    BY <2>2 DEF M
<1> HIDE DEF M
<1>2. t \in Seq(M) /\ Len(t) = Len(s) + 1 /\ Len(s) \in Nat
      /\ \A i \in 1..Len(s) : t[i] = s[i]
      /\ t[Len(s) + 1] = r
  BY <1>1
<1>3. DOMAIN s = 1..Len(s) /\ DOMAIN t = 1..(Len(s) + 1)
  BY <1>1, <1>2
<1>4. t \in Seq(Members(t))
  <2>1. \A i \in 1..Len(t) : t[i] \in Members(t)
    BY <1>2, <1>3 DEF Members
  <2>2. QED
    BY <1>2, <2>1, SequenceOf
<1>5. QED
  BY <1>2, <1>3, <1>4

LEMMA ApproveIs ==
  ASSUME NEW g, IsGate(g), bars \in Seq(Bar), NEW k \in DOMAIN bars, NEW side \in BothSides,
         NEW requested \in Int, NEW after, after = Approve(g, bars[k], side, requested)
  PROVE  /\ IsGate(after)
         /\ \/ Silenced(g, after)
            \/ \E r : /\ Journalled(g, after, r)
                      /\ r.at = bars[k].ingested /\ r.side = side
<1> DEFINE r == Attempt(run, bars, bars[k], venue, g.peak, side, requested)
           receipts == Append(g.receipts, r)
           approvals == IF r.quantity > 0 THEN g.approvals + 1 ELSE g.approvals
           full == Len(g.receipts) >= MaxReceipts \/ ~Consistent(r)
<1>1. /\ r.at = bars[k].ingested /\ r.side = side /\ r.quantity \in Int
      /\ r.quantity # 0 => r.outcome = "handed_off"
      /\ r.request.intent = [at |-> r.at, side |-> r.side]
      /\ r.quantity > 0 => r.session.entries[1].approved <= r.request.notional
  BY AttemptIs
<1>2. after = IF g.failed THEN g
              ELSE IF full THEN [g EXCEPT !.failed = TRUE]
              ELSE [g EXCEPT !.receipts = receipts, !.evaluations = g.evaluations + 1,
                             !.approvals = approvals]
  <2> HIDE DEF r
  <2>1. QED
    BY DEF Approve, r, IsGate
<1> HIDE DEF r
<1>3. receipts \in Seq(Members(receipts))
  BY AppendIs DEF IsGate
<1>4. approvals \in Nat /\ g.evaluations + 1 \in Nat
  BY DEF IsGate
<1>5. CASE g.failed
  BY <1>2, <1>5 DEF Silenced
<1>6. CASE ~g.failed /\ full
  <2> HIDE DEF full, receipts, approvals
  <2>1. after = [g EXCEPT !.failed = TRUE]
    BY <1>2, <1>6
  <2>2. QED
    BY <2>1 DEF Silenced, IsGate
<1>7. CASE ~g.failed /\ ~full
  <2>1. Consistent(r)
    BY <1>7
  <2>2. ReceiptIsSound(r)
    <3>1. r.quantity \in Nat
      BY <1>1, <2>1 DEF Consistent
    <3>2. QED
      BY <1>1, <2>1, <3>1, BarsAre DEF ReceiptIsSound
  <2>3. approvals = g.approvals + IF r.quantity > 0 THEN 1 ELSE 0
    BY DEF IsGate
  <2> HIDE DEF full, receipts, approvals
  <2>4. after = [g EXCEPT !.receipts = receipts, !.evaluations = g.evaluations + 1,
                          !.approvals = approvals]
    BY <1>2, <1>7
  <2>5. /\ after.receipts = receipts /\ after.evaluations = g.evaluations + 1
        /\ after.approvals = approvals /\ after.failed = g.failed /\ after.peak = g.peak
    BY <2>4 DEF IsGate
  <2>6. IsGate(after)
    BY <1>3, <1>4, <2>4, <2>5 DEF IsGate
  <2>7. Journalled(g, after, r)
    BY <1>7, <2>2, <2>3, <2>5 DEF Journalled, receipts
  <2>8. QED
    BY <1>1, <2>6, <2>7
<1>8. QED
  BY <1>5, <1>6, <1>7

LEMMA AskedIs ==
  ASSUME strategy \in StrategyType, NEW k \in DOMAIN bars, bars \in Seq(Bar), NEW side \in BothSides
  PROVE  Asked(bars[k], side) \in Seq(Signal)
<1> DEFINE s == [at |-> bars[k].ingested, side |-> side]
<1>1. s \in Signal
  BY BarsAre DEF Signal
<1>2. strategy.asked \in Seq(Signal)
  BY DEF StrategyType
<1>3. Append(strategy.asked, s) \in Seq(Signal)
  <2> HIDE DEF s
  <2>1. QED
    BY <1>1, <1>2
<1>4. QED
  BY <1>2, <1>3 DEF Asked

LEMMA SentIs ==
  ASSUME IsVenue(venue), strategy \in StrategyType, NEW k \in DOMAIN bars, bars \in Seq(Bar),
         NEW side \in BothSides, NEW quantity \in Int, SendOrder(bars[k], side, quantity)
  PROVE  /\ IsVenue(venue') /\ strategy' \in StrategyType
         /\ strategy'.asked = Asked(bars[k], side)
         /\ \E o \in SentOrder : o.side = side /\ o.quantity = quantity
                                 /\ strategy'.orders = Append(strategy.orders, o)
<1> DEFINE o == [side |-> side, quantity |-> quantity, at |-> bars[k].ingested, whole |-> TRUE]
           asked == Asked(bars[k], side)
<1>1. bars[k].ingested \in Nat
  BY BarsAre
<1>2. o \in SentOrder /\ o.side = side /\ o.quantity = quantity
  BY <1>1 DEF SentOrder
<1>3. asked \in Seq(Signal)
  BY AskedIs
<1>4. /\ strategy' = [long |-> side = "buy", asked |-> asked, orders |-> Append(strategy.orders, o)]
      /\ venue' = [venue EXCEPT !.underWay = Append(venue.underWay, o)]
  BY DEF SendOrder, IsVenue
<1> HIDE DEF o, asked
<1>5. Append(strategy.orders, o) \in Seq(SentOrder)
  BY <1>2 DEF StrategyType
<1>6. strategy' \in StrategyType /\ strategy'.asked = asked
      /\ strategy'.orders = Append(strategy.orders, o)
  BY <1>3, <1>4, <1>5 DEF StrategyType
<1>7. IsVenue(venue')
  <2>1. Append(venue.underWay, o) \in Seq(SentOrder)
    BY <1>2 DEF IsVenue
  <2>2. QED
    BY <1>4, <2>1 DEF IsVenue
<1>8. QED
  BY <1>2, <1>6, <1>7 DEF asked

LEMMA HeldBackIs ==
  ASSUME strategy \in StrategyType, NEW k \in DOMAIN bars, bars \in Seq(Bar),
         NEW side \in BothSides, HoldBack(bars[k], side)
  PROVE  /\ venue' = venue /\ strategy' \in StrategyType
         /\ strategy'.asked = Asked(bars[k], side) /\ strategy'.orders = strategy.orders
<1> DEFINE asked == Asked(bars[k], side)
<1>1. asked \in Seq(Signal)
  BY AskedIs
<1>2. strategy' = [strategy EXCEPT !.long = side = "buy", !.asked = asked] /\ venue' = venue
  BY DEF HoldBack
<1> HIDE DEF asked
<1>3. QED
  BY <1>1, <1>2 DEF StrategyType, asked

(* What one signal may do: without a gate anything; with one, nothing, or end all trading, or
   write down what was asked for and send at most what that lets through.                      *)
SentFor(r) ==
  \/ ~(r.quantity > 0) /\ strategy'.orders = strategy.orders
  \/ /\ r.quantity > 0
     /\ \E o \in SentOrder : o.side = r.side /\ o.quantity <= r.quantity
                             /\ strategy'.orders = Append(strategy.orders, o)

AskedOnce(r) ==
  /\ Journalled(gate, gate', r)
  /\ r.at = bars[published + 1].ingested
  /\ strategy'.asked = Append(strategy.asked, [at |-> r.at, side |-> r.side])
  /\ SentFor(r)

OneSignal ==
  \/ /\ Unasked(gate, gate')
     /\ run.gated => strategy'.asked = strategy.asked /\ strategy'.orders = strategy.orders
  \/ run.gated /\ Silenced(gate, gate') /\ strategy'.orders = strategy.orders
  \/ run.gated /\ \E r : AskedOnce(r)

LEMMA ActIs ==
  ASSUME IsVenue(venue), IsGate(gate), strategy \in StrategyType, bars \in Seq(Bar),
         published + 1 \in DOMAIN bars, NEW side \in BothSides, NEW wanted \in Int,
         NEW requested \in Int, Act(bars[published + 1], side, wanted, requested)
  PROVE  IsVenue(venue') /\ IsGate(gate') /\ strategy' \in StrategyType /\ OneSignal
<1> DEFINE k == published + 1
           seen == PeakTaken(bars[k])
<1>1. IsGate(seen) /\ Unasked(gate, seen)
  BY PeakTakenIs
<1>2. CASE ~run.gated
  <2>1. gate' = seen /\ SendOrder(bars[k], side, wanted)
    BY <1>2 DEF Act
  <2>2. QED
    BY <1>1, <1>2, <2>1, SentIs DEF OneSignal
<1>3. CASE run.gated
  <2> DEFINE after == Approve(seen, bars[k], side, requested)
  <2>1. /\ gate' = after
        /\ IF Admitted(after) = 0 THEN HoldBack(bars[k], side)
           ELSE SendOrder(bars[k], side, IF side = "sell" THEN Smaller(wanted, Admitted(after))
                                                          ELSE Admitted(after))
    BY <1>3 DEF Act
  <2>2. /\ IsGate(after)
        /\ Silenced(seen, after)
           \/ \E r : Journalled(seen, after, r) /\ r.at = bars[k].ingested /\ r.side = side
    <3> HIDE DEF seen, k
    <3>1. k \in DOMAIN bars
      BY DEF k
    <3>2. QED
      BY <1>1, <3>1, ApproveIs
  <2>3. Asked(bars[k], side) = Append(strategy.asked, [at |-> bars[k].ingested, side |-> side])
    BY <1>3 DEF Asked
  <2> HIDE DEF after, seen
  <2>4. CASE Silenced(seen, after)
    <3>1. Silenced(gate, after)
      BY <1>1, <2>4 DEF Silenced, Unasked
    <3>2. Admitted(after) = 0
      <4>1. after.receipts = gate.receipts /\ Len(gate.receipts) \in Nat
        BY <3>1 DEF Silenced, IsGate
      <4>2. QED
        BY <4>1 DEF Admitted
    <3>3. HoldBack(bars[k], side)
      BY <2>1, <3>2
    <3>4. venue' = venue /\ strategy' \in StrategyType /\ strategy'.orders = strategy.orders
      BY <3>3, HeldBackIs
    <3>5. QED
      BY <1>3, <2>1, <2>2, <3>1, <3>4 DEF OneSignal
  <2>5. ASSUME NEW r, Journalled(seen, after, r), r.at = bars[k].ingested, r.side = side
        PROVE  IsVenue(venue') /\ IsGate(gate') /\ strategy' \in StrategyType /\ OneSignal
    <3>1. Journalled(gate, after, r) /\ r.quantity \in Int
      BY <1>1, <2>5 DEF Journalled, Unasked, ReceiptIsSound
    <3>2. Admitted(after) = r.quantity
      <4>1. /\ after.receipts = Append(gate.receipts, r)
            /\ gate.receipts \in Seq(Members(gate.receipts))
        BY <3>1 DEF Journalled, IsGate
      <4>2. Len(after.receipts) = Len(gate.receipts) + 1 /\ Len(gate.receipts) \in Nat
            /\ after.receipts[Len(gate.receipts) + 1] = r
        BY <4>1, AppendIs
      <4>3. QED
        BY <4>2 DEF Admitted, LastOf
    <3>3. CASE r.quantity = 0
      <4>1. HoldBack(bars[k], side)
        BY <2>1, <3>2, <3>3
      <4>2. /\ venue' = venue /\ strategy' \in StrategyType /\ strategy'.orders = strategy.orders
            /\ strategy'.asked = Asked(bars[k], side)
        BY <4>1, HeldBackIs
      <4>3. AskedOnce(r)
        BY <2>1, <2>3, <2>5, <3>1, <3>3, <4>2 DEF AskedOnce, SentFor
      <4>4. QED
        BY <1>3, <2>1, <2>2, <4>2, <4>3 DEF OneSignal
    <3>4. CASE r.quantity # 0
      <4> DEFINE q == IF side = "sell" THEN Smaller(wanted, r.quantity) ELSE r.quantity
      <4>1. q \in Int /\ q <= r.quantity
        BY <3>1 DEF Smaller
      <4>2. SendOrder(bars[k], side, q)
        BY <2>1, <3>2, <3>4
      <4> HIDE DEF q
      <4>3. /\ IsVenue(venue') /\ strategy' \in StrategyType
            /\ strategy'.asked = Asked(bars[k], side)
            /\ \E o \in SentOrder : o.side = side /\ o.quantity = q
                                    /\ strategy'.orders = Append(strategy.orders, o)
        BY <4>1, <4>2, SentIs
      <4>4. r.quantity > 0
        BY <3>1, <3>4 DEF Journalled, ReceiptIsSound, Consistent
      <4>5. AskedOnce(r)
        BY <2>1, <2>3, <2>5, <3>1, <4>1, <4>3, <4>4 DEF AskedOnce, SentFor
      <4>6. QED
        BY <1>3, <2>1, <2>2, <4>3, <4>5 DEF OneSignal
    <3>5. QED
      BY <3>3, <3>4
  <2>6. QED
    BY <2>2, <2>4, <2>5
<1>4. QED
  BY <1>2, <1>3

LEMMA OnBarIs ==
  ASSUME BacktestIInv, OnBar
  PROVE  /\ IsVenue(venue') /\ IsGate(gate') /\ strategy' \in StrategyType /\ OneSignal
         /\ published' = published + 1 /\ published + 1 \in DOMAIN bars
         /\ UNCHANGED <<phase, run, object, bars, result>>
<1> DEFINE k == published + 1
           bar == bars[k]
<1>1. /\ run \in Definitions /\ bars \in Seq(Bar) /\ published \in 0..Len(bars)
      /\ IsVenue(venue) /\ IsGate(gate) /\ strategy \in StrategyType
  BY DEF BacktestIInv, BarsAreBound
<1>2. Len(bars) \in Nat /\ DOMAIN bars = 1..Len(bars)
  BY <1>1, BarsAre
<1>3. k \in DOMAIN bars /\ published' = published + 1 /\ UNCHANGED <<phase, run, object, bars, result>>
  BY <1>1, <1>2 DEF OnBar
<1>4. venue.quantity \in Int /\ venue.quantity * bar.close \in Int
  <2>1. bar.close \in Nat
    BY <1>1, <1>3, BarsAre
  <2>2. venue.quantity \in Int
    BY <1>1 DEF IsVenue
  <2>3. QED
    BY <2>1, <2>2
<1>5. EntryQuantity \in Int /\ run.notional \in Int
  <2>1. run.notional \in Nat
    BY <1>1, BacktestAssumption
  <2>2. bars[1].close \in Nat \ {0}
    BY <1>1, <1>2, <1>3, BarsAre
  <2>3. run.notional \div bars[1].close \in Int
    BY <2>1, <2>2
  <2>4. (run.notional \div bars[1].close) \div SizeIncrement \in Int
    BY <2>3, ReplayAssumption
  <2>5. QED
    BY <2>1, <2>4, ReplayAssumption DEF EntryQuantity, Lots
<1>6. \/ \E long \in BOOLEAN : Idle(bar, long)
      \/ Act(bar, "buy", EntryQuantity, run.notional)
      \/ Act(bar, "sell", venue.quantity, venue.quantity * bar.close)
  <2>1. strategy.long \in BOOLEAN
    BY <1>1 DEF StrategyType
  <2>2. QED
    BY <2>1 DEF OnBar
<1>7. ASSUME NEW long \in BOOLEAN, Idle(bar, long)
      PROVE  IsVenue(venue') /\ IsGate(gate') /\ strategy' \in StrategyType /\ OneSignal
  <2>1. gate' = PeakTaken(bar) /\ venue' = venue /\ strategy' = [strategy EXCEPT !.long = long]
    BY <1>7 DEF Idle
  <2>2. IsGate(gate') /\ Unasked(gate, gate')
    BY <1>1, <2>1, PeakTakenIs
  <2>3. strategy' \in StrategyType /\ strategy'.asked = strategy.asked
        /\ strategy'.orders = strategy.orders
    BY <1>1, <2>1 DEF StrategyType
  <2>4. QED
    BY <1>1, <2>1, <2>2, <2>3 DEF OneSignal
<1>8. ASSUME Act(bar, "buy", EntryQuantity, run.notional)
      PROVE  IsVenue(venue') /\ IsGate(gate') /\ strategy' \in StrategyType /\ OneSignal
  BY <1>1, <1>3, <1>5, <1>8, ActIs DEF BothSides
<1>9. ASSUME Act(bar, "sell", venue.quantity, venue.quantity * bar.close)
      PROVE  IsVenue(venue') /\ IsGate(gate') /\ strategy' \in StrategyType /\ OneSignal
  BY <1>1, <1>3, <1>4, <1>9, ActIs DEF BothSides
<1>10. QED
  BY <1>3, <1>6, <1>7, <1>8, <1>9

(* The place of a receipt among those that let an order through.           *)
RankOf(receipts, i) == Cardinality({j \in Admitting(receipts) : j <= i})

LEMMA AdmittingIs ==
  ASSUME NEW s, s \in Seq(Members(s))
  PROVE  /\ IsFiniteSet(Admitting(s)) /\ Cardinality(Admitting(s)) \in Nat
         /\ Cardinality(Admitting(s)) <= Len(s)
         /\ \A i \in Admitting(s) : RankOf(s, i) \in 1..Cardinality(Admitting(s))
<1>1. DOMAIN s = 1..Len(s) /\ Len(s) \in Nat
  OBVIOUS
<1>2. IsFiniteSet(1..Len(s)) /\ Cardinality(1..Len(s)) = Len(s)
  BY <1>1, FS_Interval
<1>3. Admitting(s) \subseteq 1..Len(s)
  BY <1>1 DEF Admitting
<1>4. /\ IsFiniteSet(Admitting(s)) /\ Cardinality(Admitting(s)) \in Nat
      /\ Cardinality(Admitting(s)) <= Len(s)
  BY <1>2, <1>3, FS_Subset, FS_CardinalityType
<1>5. ASSUME NEW i \in Admitting(s) PROVE RankOf(s, i) \in 1..Cardinality(Admitting(s))
  <2> DEFINE before == {j \in Admitting(s) : j <= i}
  <2>1. before \subseteq Admitting(s) /\ i \in before
    BY <1>1, <1>3
  <2>2. IsFiniteSet(before) /\ Cardinality(before) <= Cardinality(Admitting(s))
        /\ Cardinality(before) \in Nat
    BY <1>4, <2>1, FS_Subset, FS_CardinalityType
  <2>3. Cardinality(before) # 0
    BY <2>1, <2>2, FS_EmptySet
  <2>4. QED
    BY <1>4, <2>2, <2>3 DEF RankOf
<1>6. QED
  BY <1>4, <1>5

LEMMA AdmittingGrows ==
  ASSUME NEW s, s \in Seq(Members(s)), NEW r, NEW t, t = Append(s, r)
  PROVE  /\ \A i \in Admitting(s) : i \in DOMAIN s /\ RankOf(t, i) = RankOf(s, i)
         /\ ~(r.quantity > 0) => Admitting(t) = Admitting(s)
         /\ r.quantity > 0 =>
              /\ Admitting(t) = Admitting(s) \cup {Len(s) + 1}
              /\ Cardinality(Admitting(t)) = Cardinality(Admitting(s)) + 1
              /\ RankOf(t, Len(s) + 1) = Cardinality(Admitting(s)) + 1
<1> DEFINE m == Len(s) + 1
<1>1. /\ Len(s) \in Nat /\ DOMAIN s = 1..Len(s) /\ DOMAIN t = 1..m
      /\ \A i \in DOMAIN s : t[i] = s[i]
      /\ t[m] = r
  BY AppendIs
<1>2. Admitting(s) \subseteq 1..Len(s) /\ Admitting(t) \subseteq 1..m
  BY <1>1 DEF Admitting
<1>3. Admitting(t) = Admitting(s) \cup (IF r.quantity > 0 THEN {m} ELSE {})
  <2>1. \A i \in 1..Len(s) : i \in Admitting(t) <=> i \in Admitting(s)
    BY <1>1 DEF Admitting
  <2>2. m \in Admitting(t) <=> r.quantity > 0
    BY <1>1 DEF Admitting
  <2>3. 1..m = (1..Len(s)) \cup {m} /\ m \notin 1..Len(s)
    BY <1>1
  <2>4. QED
    BY <1>2, <2>1, <2>2, <2>3
<1>4. ASSUME NEW i \in Admitting(s) PROVE i \in DOMAIN s /\ RankOf(t, i) = RankOf(s, i)
  <2>1. i \in 1..Len(s) /\ ~(m <= i)
    BY <1>1, <1>2
  <2>2. {j \in Admitting(t) : j <= i} = {j \in Admitting(s) : j <= i}
    BY <1>3, <2>1
  <2>3. QED
    BY <1>1, <2>1, <2>2 DEF RankOf
<1>5. ASSUME r.quantity > 0
      PROVE  /\ Cardinality(Admitting(t)) = Cardinality(Admitting(s)) + 1
             /\ RankOf(t, m) = Cardinality(Admitting(s)) + 1
  <2>1. Admitting(t) = Admitting(s) \cup {m} /\ m \notin Admitting(s)
    BY <1>1, <1>2, <1>3, <1>5
  <2>2. Cardinality(Admitting(t)) = Cardinality(Admitting(s)) + 1
    BY <2>1, AdmittingIs, FS_AddElement
  <2>3. {j \in Admitting(t) : j <= m} = Admitting(t)
    BY <1>1, <1>2
  <2>4. QED
    BY <2>2, <2>3 DEF RankOf
<1>6. QED
  BY <1>3, <1>4, <1>5

LEMMA OrdersFollow ==
  ASSUME OrdersAreHandedOff, IsGate(gate), strategy \in StrategyType, strategy' \in StrategyType,
         run' = run, NEW r, AskedOnce(r)
  PROVE  OrdersAreHandedOff'
<1> DEFINE s == gate.receipts
           t == gate'.receipts
           n == Cardinality(Admitting(s))
           O == strategy.orders
           P == strategy'.orders
           Covers(o, x) == /\ o.side = x.side /\ o.quantity <= x.quantity
                         /\ x.quantity <= x.session.entries[1].quantity
                         /\ x.session.entries[1].approved <= x.request.notional
<1>1. /\ s \in Seq(Members(s)) /\ t = Append(s, r) /\ ReceiptIsSound(r)
  BY DEF AskedOnce, Journalled, IsGate
<1>2. SUFFICES ASSUME run.gated
               PROVE  Len(P) = Cardinality(Admitting(t))
                      /\ \A i \in Admitting(t) : Covers(P[RankOf(t, i)], t[i])
  BY DEF OrdersAreHandedOff, RankOf
<1>3. Len(O) = n /\ \A i \in Admitting(s) : Covers(O[RankOf(s, i)], s[i])
  BY <1>2 DEF OrdersAreHandedOff, RankOf
<1>4. /\ O \in Seq(SentOrder) /\ n \in Nat
      /\ \A i \in Admitting(s) : RankOf(s, i) \in 1..n
  BY <1>1, AdmittingIs DEF StrategyType
<1>5. /\ \A i \in Admitting(s) : t[i] = s[i] /\ RankOf(t, i) = RankOf(s, i)
      /\ t[Len(s) + 1] = r
      /\ ~(r.quantity > 0) => Admitting(t) = Admitting(s)
      /\ r.quantity > 0 =>
           /\ Admitting(t) = Admitting(s) \cup {Len(s) + 1}
           /\ Cardinality(Admitting(t)) = n + 1
           /\ RankOf(t, Len(s) + 1) = n + 1
  <2> HIDE DEF s, t
  <2>1. t[Len(s) + 1] = r /\ \A i \in DOMAIN s : t[i] = s[i]
    BY <1>1, AppendIs
  <2>2. \A i \in Admitting(s) : i \in DOMAIN s /\ RankOf(t, i) = RankOf(s, i)
    <3>1. ASSUME NEW i \in Admitting(s) PROVE i \in DOMAIN s /\ RankOf(t, i) = RankOf(s, i)
      BY <1>1, AdmittingGrows
    <3>2. QED
      BY <3>1
  <2>3. ~(r.quantity > 0) => Admitting(t) = Admitting(s)
    BY <1>1, AdmittingGrows
  <2>4. r.quantity > 0 => /\ Admitting(t) = Admitting(s) \cup {Len(s) + 1}
                          /\ Cardinality(Admitting(t)) = Cardinality(Admitting(s)) + 1
                          /\ RankOf(t, Len(s) + 1) = Cardinality(Admitting(s)) + 1
    BY <1>1, AdmittingGrows
  <2>5. QED
    BY <2>1, <2>2, <2>3, <2>4
<1>6. SentFor(r)
  BY DEF AskedOnce
<1>7. CASE ~(r.quantity > 0)
  <2>1. P = O
    BY <1>6, <1>7 DEF SentFor
  <2> HIDE DEF s, t, n, O, P, Covers
  <2>2. QED
    BY <1>3, <1>5, <1>7, <2>1 DEF n
<1>8. CASE r.quantity > 0
  <2>1. PICK o \in SentOrder : o.side = r.side /\ o.quantity <= r.quantity /\ P = Append(O, o)
    BY <1>6, <1>8 DEF SentFor
  <2>2. Covers(o, r)
    BY <1>1, <1>8, <2>1 DEF ReceiptIsSound, Consistent
  <2> HIDE DEF s, t, n, O, P, Covers
  <2>3. Len(P) = n + 1 /\ P[n + 1] = o /\ \A i \in 1..n : P[i] = O[i]
    BY <1>3, <1>4, <2>1
  <2>4. ASSUME NEW i \in Admitting(s) PROVE Covers(P[RankOf(t, i)], t[i])
    BY <1>3, <1>4, <1>5, <2>3
  <2>5. Covers(P[RankOf(t, Len(s) + 1)], t[Len(s) + 1])
    BY <1>5, <1>8, <2>2, <2>3
  <2>6. QED
    BY <1>5, <1>8, <2>3, <2>4, <2>5
<1>9. QED
  BY <1>7, <1>8

LEMMA JournalFollows ==
  ASSUME JournalIsSound, IsGate(gate), strategy \in StrategyType, run' = run,
         NEW r, AskedOnce(r)
  PROVE  JournalIsSound'
<1> DEFINE s == gate.receipts
           t == gate'.receipts
           a == [at |-> r.at, side |-> r.side]
<1>1. /\ s \in Seq(Members(s)) /\ t = Append(s, r) /\ ReceiptIsSound(r) /\ ~gate.failed
      /\ gate'.evaluations = gate.evaluations + 1
      /\ gate'.approvals = gate.approvals + IF r.quantity > 0 THEN 1 ELSE 0
      /\ strategy'.asked = Append(strategy.asked, a)
  BY DEF AskedOnce, Journalled, IsGate
<1>2. /\ Len(s) \in Nat /\ DOMAIN s = 1..Len(s) /\ DOMAIN t = 1..(Len(s) + 1)
      /\ Len(t) = Len(s) + 1 /\ t[Len(s) + 1] = r /\ \A i \in DOMAIN s : t[i] = s[i]
  BY <1>1, AppendIs
<1>3. \A i \in DOMAIN t : ReceiptIsSound(t[i])
  <2>1. \A i \in DOMAIN s : ReceiptIsSound(s[i])
    BY DEF JournalIsSound
  <2> HIDE DEF s, t
  <2>2. \A i \in DOMAIN t : i \in DOMAIN s \/ i = Len(s) + 1
    BY <1>2
  <2>3. QED
    BY <1>1, <1>2, <2>1, <2>2
<1>4. gate'.evaluations = Len(t)
  BY <1>1, <1>2 DEF JournalIsSound
<1>5. gate'.approvals = Cardinality(Admitting(t))
  <2>1. gate.approvals = Cardinality(Admitting(s)) /\ Cardinality(Admitting(s)) \in Nat
    BY <1>1, AdmittingIs DEF JournalIsSound
  <2>2. Cardinality(Admitting(t)) = Cardinality(Admitting(s)) + IF r.quantity > 0 THEN 1 ELSE 0
    <3> HIDE DEF s, t
    <3>1. r.quantity > 0 => Cardinality(Admitting(t)) = Cardinality(Admitting(s)) + 1
      BY <1>1, AdmittingGrows
    <3>2. ~(r.quantity > 0) => Admitting(t) = Admitting(s)
      BY <1>1, AdmittingGrows
    <3>3. QED
      BY <2>1, <3>1, <3>2
  <2>3. QED
    BY <1>1, <2>1, <2>2
<1>6. ASSUME run.gated
      PROVE  /\ Len(strategy'.asked) = Len(t)
             /\ \A i \in DOMAIN t : strategy'.asked[i] = [at |-> t[i].at, side |-> t[i].side]
  <2> DEFINE A == strategy.asked
             B == strategy'.asked
  <2>1. /\ A \in Seq(Signal) /\ Len(A) = Len(s)
        /\ \A i \in DOMAIN s : A[i] = [at |-> s[i].at, side |-> s[i].side]
    BY <1>1, <1>6 DEF JournalIsSound, StrategyType
  <2>2. B = Append(A, a)
    BY <1>1
  <2> HIDE DEF A, B, s, t, a
  <2>3. Len(B) = Len(s) + 1 /\ B[Len(s) + 1] = a /\ \A i \in 1..Len(s) : B[i] = A[i]
    BY <2>1, <2>2
  <2>4. \A i \in DOMAIN t : i \in DOMAIN s \/ i = Len(s) + 1
    BY <1>2
  <2>5. \A i \in DOMAIN s : B[i] = [at |-> t[i].at, side |-> t[i].side]
    BY <1>2, <2>1, <2>3
  <2>6. B[Len(s) + 1] = [at |-> t[Len(s) + 1].at, side |-> t[Len(s) + 1].side]
    BY <1>2, <2>3 DEF a
  <2>7. QED
    BY <1>2, <2>3, <2>4, <2>5, <2>6 DEF B
<1>7. QED
  BY <1>3, <1>4, <1>5, <1>6 DEF JournalIsSound

LEMMA TimeFollows ==
  ASSUME JournalIsInTime, IsGate(gate), bars \in Seq(Bar), bars' = bars,
         published + 1 \in DOMAIN bars, published \in Nat, published' = published + 1,
         NEW r, AskedOnce(r)
  PROVE  JournalIsInTime'
<1> DEFINE s == gate.receipts
           t == gate'.receipts
           k == published + 1
<1>1. s \in Seq(Members(s)) /\ t = Append(s, r) /\ r.at = bars[k].ingested
  BY DEF AskedOnce, Journalled, IsGate
<1>2. /\ Len(s) \in Nat /\ DOMAIN s = 1..Len(s) /\ DOMAIN t = 1..(Len(s) + 1)
      /\ t[Len(s) + 1] = r /\ \A i \in DOMAIN s : t[i] = s[i]
  BY <1>1, AppendIs
<1>3. Len(bars) \in Nat /\ DOMAIN bars = 1..Len(bars)
  BY BarsAre
<1>4. SUFFICES ASSUME DistinctTimes
               PROVE  /\ \A i, j \in DOMAIN t : i < j => t[i].at < t[j].at
                      /\ \A i \in DOMAIN t, l \in (k + 1)..Len(bars) : t[i].at < bars[l].ingested
  BY DEF JournalIsInTime, DistinctTimes
<1>5. /\ \A i, j \in DOMAIN s : i < j => s[i].at < s[j].at
      /\ \A i \in DOMAIN s, l \in k..Len(bars) : s[i].at < bars[l].ingested
  BY <1>4 DEF JournalIsInTime
<1>6. \A l \in (k + 1)..Len(bars) : bars[k].ingested < bars[l].ingested /\ l \in k..Len(bars)
  BY <1>3, <1>4 DEF DistinctTimes
<1>7. k \in k..Len(bars)
  BY <1>3
<1> HIDE DEF s, t, k
<1>8. \A i \in DOMAIN t : i \in DOMAIN s \/ i = Len(s) + 1
  BY <1>2
<1>9. \A i, j \in DOMAIN t : i < j => t[i].at < t[j].at
  <2>1. ASSUME NEW i \in DOMAIN t, NEW j \in DOMAIN t, i < j PROVE t[i].at < t[j].at
    <3>1. i \in DOMAIN s
      BY <1>2, <2>1
    <3>2. CASE j \in DOMAIN s
      BY <1>2, <1>5, <2>1, <3>1, <3>2
    <3>3. CASE j = Len(s) + 1
      BY <1>1, <1>2, <1>5, <1>7, <3>1, <3>3
    <3>4. QED
      BY <1>8, <3>2, <3>3
  <2>2. QED
    BY <2>1
<1>10. \A i \in DOMAIN t, l \in (k + 1)..Len(bars) : t[i].at < bars[l].ingested
  BY <1>1, <1>2, <1>5, <1>6, <1>8
<1>11. QED
  BY <1>9, <1>10

(* Steps that write nothing into the gate's journal.                       *)
Unwritten ==
  /\ gate'.receipts = gate.receipts
  /\ gate'.evaluations = gate.evaluations /\ gate'.approvals = gate.approvals
  /\ run.gated => /\ strategy'.orders = strategy.orders
                  /\ gate'.failed \/ (~gate.failed /\ strategy'.asked = strategy.asked)

LEMMA JournalStays ==
  ASSUME JournalIsSound, JournalIsInTime, OrdersAreHandedOff, UNCHANGED <<run, bars>>, Unwritten,
         bars \in Seq(Bar), published \in Nat, published' \in {published, published + 1}
  PROVE  JournalIsSound' /\ JournalIsInTime' /\ OrdersAreHandedOff'
<1>1. JournalIsSound'
  BY DEF JournalIsSound, Unwritten
<1>2. OrdersAreHandedOff'
  BY DEF OrdersAreHandedOff, Unwritten
<1>3. \A l \in (published' + 1)..Len(bars) : l \in (published + 1)..Len(bars)
  <2>1. PICK a, b, m : a = published /\ b = published' /\ m = Len(bars)
    OBVIOUS
  <2>2. a \in Nat /\ b \in {a, a + 1} /\ m \in Nat
    BY <2>1, BarsAre
  <2>3. \A l \in (b + 1)..m : l \in (a + 1)..m
    BY <2>2
  <2>4. QED
    BY <2>1, <2>3
<1>4. JournalIsInTime'
  BY <1>3 DEF JournalIsInTime, DistinctTimes, Unwritten
<1>5. QED
  BY <1>1, <1>2, <1>4

LEMMA SignalKeeps ==
  ASSUME BacktestIInv, OnBar
  PROVE  BacktestIInv'
<1>1. /\ IsVenue(venue') /\ IsGate(gate') /\ strategy' \in StrategyType /\ OneSignal
      /\ published' = published + 1 /\ published + 1 \in DOMAIN bars
      /\ UNCHANGED <<phase, run, object, bars, result>>
  BY OnBarIs
<1>2. /\ BarsAreBound /\ strategy \in StrategyType /\ IsGate(gate)
      /\ JournalIsSound /\ JournalIsInTime /\ OrdersAreHandedOff /\ ResultIsWhole
      /\ phase = "running" /\ bars \in Seq(Bar) /\ published \in Nat
  BY DEF BacktestIInv, BarsAreBound, OnBar
<1>3. BarsAreBound'
  BY <1>1, <1>2, BarsAre DEF BarsAreBound
<1>4. ResultIsWhole'
  <2>1. result = NoResult
    BY <1>2 DEF ResultIsWhole
  <2>2. QED
    BY <1>1, <1>2, <2>1 DEF ResultIsWhole, AuditIsWhole, NoResult
<1>5. JournalIsSound' /\ JournalIsInTime' /\ OrdersAreHandedOff'
  <2>1. CASE Unasked(gate, gate')
             /\ (run.gated => strategy'.asked = strategy.asked /\ strategy'.orders = strategy.orders)
    <3>1. Unwritten
      BY <1>2, <2>1 DEF Unasked, Unwritten, IsGate
    <3>2. QED
      BY <1>1, <1>2, <3>1, JournalStays
  <2>2. CASE run.gated /\ Silenced(gate, gate') /\ strategy'.orders = strategy.orders
    <3>1. Unwritten
      BY <2>2 DEF Silenced, Unwritten
    <3>2. QED
      BY <1>1, <1>2, <3>1, JournalStays
  <2>3. ASSUME NEW r, AskedOnce(r)
        PROVE  JournalIsSound' /\ JournalIsInTime' /\ OrdersAreHandedOff'
    BY <1>1, <1>2, <2>3, JournalFollows, TimeFollows, OrdersFollow
  <2>4. QED
    BY <1>1, <2>1, <2>2, <2>3 DEF OneSignal
<1>6. QED
  BY <1>1, <1>3, <1>4, <1>5 DEF BacktestIInv

LEMMA FillKeeps ==
  ASSUME IsVenue(venue), FillOrder \/ DenyOrder
  PROVE  /\ IsVenue(venue')
         /\ UNCHANGED <<phase, run, object, bars, published, strategy, gate, result>>
<1>1. venue.underWay \in Seq(SentOrder) /\ venue.quantity \in Int
  BY DEF IsVenue
<1>2. venue.underWay # <<>>
  BY DEF FillOrder, DenyOrder, Arrived
<1>3. Head(venue.underWay) \in SentOrder /\ Tail(venue.underWay) \in Seq(SentOrder)
  BY <1>1, <1>2
<1>4. CASE FillOrder
  <2> DEFINE order == Head(venue.underWay)
             rest(q) == IF q = order.quantity THEN Tail(venue.underWay)
                        ELSE <<[order EXCEPT !.quantity = @ - q, !.whole = FALSE]>>
                               \o Tail(venue.underWay)
  <2>1. PICK price \in FillPrices(order.side), q \in Pieces(order) :
          LET f == [side |-> order.side, price |-> price, quantity |-> q,
                    fee |-> Fee(price * q), time |-> bars[Meets].ingested]
          IN  venue' = [AccountAfter(venue, f) EXCEPT !.underWay = rest(q),
                                                      !.fills = Append(@, f)]
    BY <1>4 DEF FillOrder
  <2> DEFINE f == [side |-> order.side, price |-> price, quantity |-> q,
                   fee |-> Fee(price * q), time |-> bars[Meets].ingested]
             v == AccountAfter(venue, f)
             left == rest(q)
  <2>2. order.quantity \in Int /\ order.quantity \div 2 \in Int
    BY <1>3 DEF SentOrder
  <2>3. q \in Int
    BY <2>1, <2>2 DEF Pieces
  <2>4. left \in Seq(SentOrder)
    <3> DEFINE o == [order EXCEPT !.quantity = @ - q, !.whole = FALSE]
    <3>1. o \in SentOrder
      <4> HIDE DEF order
      <4>1. order \in SentOrder
        BY <1>3 DEF order
      <4>2. order.quantity - q \in Int
        BY <2>2, <2>3
      <4>3. o = [order EXCEPT !.quantity = order.quantity - q, !.whole = FALSE]
        BY <4>1 DEF SentOrder
      <4> HIDE DEF o
      <4>4. QED
        BY <4>1, <4>2, <4>3 DEF SentOrder
    <3> HIDE DEF o, order
    <3>2. <<o>> \o Tail(venue.underWay) \in Seq(SentOrder)
      BY <1>3, <3>1
    <3>3. QED
      BY <1>3, <3>2 DEF o
  <2>5. f.quantity = q
    OBVIOUS
  <2> HIDE DEF f, order
  <2>6. IsVenue(v)
    <3>1. CASE f.side = "buy"
      <4>1. v = [venue EXCEPT !.cash = venue.cash - f.price * f.quantity - f.fee,
                              !.quantity = venue.quantity + f.quantity,
                              !.cost = venue.cost + f.price * f.quantity,
                              !.realized = venue.realized - f.fee]
        BY <3>1 DEF AccountAfter, IsVenue
      <4>2. venue.quantity + f.quantity \in Int
        BY <1>1, <2>3, <2>5
      <4> HIDE DEF v
      <4>3. QED
        BY <4>1, <4>2 DEF IsVenue
    <3>2. CASE f.side # "buy"
      <4> DEFINE basis == (venue.cost * f.quantity) \div venue.quantity
      <4>1. v = [venue EXCEPT !.cash = venue.cash + f.price * f.quantity - f.fee,
                              !.quantity = venue.quantity - f.quantity,
                              !.cost = venue.cost - basis,
                              !.realized = venue.realized + f.price * f.quantity - basis - f.fee]
        BY <3>2 DEF AccountAfter, IsVenue
      <4>2. venue.quantity - f.quantity \in Int
        BY <1>1, <2>3, <2>5
      <4> HIDE DEF v, basis
      <4>3. QED
        BY <4>1, <4>2 DEF IsVenue
    <3>3. QED
      BY <3>1, <3>2
  <2>7. venue' = [v EXCEPT !.underWay = left, !.fills = Append(v.fills, f)]
    BY <2>1, <2>6 DEF f, order, IsVenue
  <2> HIDE DEF v, left
  <2>8. IsVenue(venue')
    BY <2>4, <2>6, <2>7 DEF IsVenue
  <2>9. QED
    BY <1>4, <2>8 DEF FillOrder
<1>5. CASE DenyOrder
  <2>1. venue' = [venue EXCEPT !.underWay = Tail(venue.underWay)]
    BY <1>5 DEF DenyOrder, IsVenue
  <2>2. IsVenue(venue')
    BY <1>3, <2>1 DEF IsVenue
  <2>3. QED
    BY <1>5, <2>2 DEF DenyOrder
<1>6. QED
  BY <1>4, <1>5

LEMMA PreparationKeeps ==
  ASSUME BacktestIInv, Define \/ ReplaceObject \/ RefuseRun \/ Diagnose
  PROVE  BacktestIInv'
<1>1. /\ BarsAreBound /\ strategy \in StrategyType /\ IsVenue(venue) /\ IsGate(gate)
      /\ JournalIsSound /\ JournalIsInTime /\ OrdersAreHandedOff /\ ResultIsWhole
  BY DEF BacktestIInv
<1>2. /\ phase \in {"defined", "valid"} /\ bars = <<>> /\ run \in Definitions
      /\ result = NoResult /\ gate.receipts = <<>>
  BY <1>1 DEF BarsAreBound, ResultIsWhole, Define, ReplaceObject, RefuseRun, Diagnose
<1>3. UNCHANGED <<run, bars, published, strategy, venue, gate>>
  BY DEF Define, ReplaceObject, RefuseRun, Diagnose
<1>4. JournalIsSound' /\ JournalIsInTime' /\ OrdersAreHandedOff'
  <2>1. Unwritten
    BY <1>1, <1>3 DEF Unwritten, IsGate
  <2>2. published \in Nat /\ bars \in Seq(Bar)
    BY <1>1 DEF BarsAreBound
  <2>3. QED
    BY <1>1, <1>3, <2>1, <2>2, JournalStays
<1>5. BarsAreBound' /\ (phase' # "ended" => result' = NoResult)
  <2>1. CASE Define
    <3>1. phase' \in {"valid", "ended"} /\ object' = object /\ result' = result
      BY <2>1 DEF Define
    <3>2. phase' = "valid" =>
            /\ Coherent(run)
            /\ run.source = "inline" => Ordered(run.content) /\ Bound(run, run.content)
      BY <2>1 DEF Define
    <3>3. phase' = "valid" /\ run.source = "none" => ~run.gated
      BY <3>2 DEF Coherent
    <3>4. QED
      BY <1>1, <1>2, <1>3, <3>1, <3>2, <3>3 DEF BarsAreBound
  <2>2. CASE ReplaceObject
    <3>1. object' \in Seq(Bar) /\ phase' = phase /\ result' = result
      BY <2>2, BacktestAssumption DEF ReplaceObject
    <3>2. QED
      BY <1>1, <1>2, <1>3, <3>1 DEF BarsAreBound
  <2>3. CASE RefuseRun \/ Diagnose
    <3>1. phase' = "ended" /\ object' = object
      BY <2>3 DEF RefuseRun, Diagnose, Refuse
    <3>2. QED
      BY <1>1, <1>2, <1>3, <3>1 DEF BarsAreBound
  <2>4. QED
    BY <2>1, <2>2, <2>3
<1>6. AuditIsWhole'
  <2>1. bars' = <<>>
    BY <1>2, <1>3
  <2>2. ~(result'.status = "completed" /\ run'.gated)
    <3>1. CASE Define \/ ReplaceObject
      <4>1. result' = NoResult
        BY <1>2, <3>1 DEF Define, ReplaceObject
      <4>2. QED
        BY <4>1 DEF NoResult
    <3>2. CASE RefuseRun
      <4>1. result'.status = "refused"
        BY <3>2 DEF RefuseRun, Refuse
      <4>2. QED
        BY <4>1
    <3>3. CASE Diagnose
      <4>1. ~run.gated
        BY <1>1, <3>3 DEF BarsAreBound, Diagnose
      <4>2. QED
        BY <1>3, <4>1
    <3>4. QED
      BY <3>1, <3>2, <3>3
  <2>3. QED
    BY <2>1, <2>2 DEF AuditIsWhole
<1>7. QED
  BY <1>1, <1>3, <1>4, <1>5, <1>6 DEF BacktestIInv, ResultIsWhole

LEMMA StartKeeps ==
  ASSUME BacktestIInv, StartRun
  PROVE  BacktestIInv'
<1>1. /\ BarsAreBound /\ strategy \in StrategyType /\ IsVenue(venue) /\ IsGate(gate)
      /\ JournalIsSound /\ JournalIsInTime /\ OrdersAreHandedOff /\ ResultIsWhole
  BY DEF BacktestIInv
<1>2. /\ phase = "valid" /\ LeakageFindings(run) = {} /\ phase' = "running"
      /\ UNCHANGED <<run, object, published, strategy, result>>
      /\ gate' = [gate EXCEPT !.peak = run.balance]
      /\ venue' = [venue EXCEPT !.cash = run.balance]
  BY DEF StartRun
<1>3. /\ bars = <<>> /\ run \in Definitions /\ object \in Seq(Bar)
      /\ result = NoResult /\ gate.receipts = <<>> /\ published = 0
  BY <1>1, <1>2 DEF BarsAreBound, ResultIsWhole
<1>4. bars' = run.content /\ Ordered(bars') /\ Bound(run, bars')
  <2>1. CASE run.source = "inline" /\ bars' = run.content
    BY <1>1, <1>2, <2>1 DEF BarsAreBound
  <2>2. CASE Loaded(run, object) /\ Bound(run, object) /\ bars' = object
    BY <2>2 DEF Loaded
  <2>3. QED
    BY <2>1, <2>2 DEF StartRun
<1>5. bars' \in Seq(Bar) /\ bars' # <<>>
  <2>1. bars' \in Seq(Bar)
    BY <1>3, <1>4, BacktestAssumption
  <2>2. Len(bars') >= SlowPeriod + 2 /\ SlowPeriod \in Nat
    BY <1>4, BacktestAssumption DEF Bound
  <2>3. QED
    BY <2>1, <2>2
<1>6. BarsAreBound'
  <2>1. published' \in 0..Len(bars')
    BY <1>2, <1>3, <1>5
  <2>2. QED
    BY <1>2, <1>3, <1>4, <1>5, <2>1 DEF BarsAreBound
<1>7. IsGate(gate') /\ IsVenue(venue')
  BY <1>1, <1>2 DEF IsGate, IsVenue
<1>8. /\ gate'.receipts = gate.receipts /\ gate'.failed = gate.failed
      /\ gate'.evaluations = gate.evaluations /\ gate'.approvals = gate.approvals
  BY <1>1, <1>2 DEF IsGate
<1>9. JournalIsSound'
  BY <1>1, <1>2, <1>8 DEF JournalIsSound
<1>10. OrdersAreHandedOff'
  BY <1>1, <1>2, <1>8 DEF OrdersAreHandedOff
<1>11. JournalIsInTime'
  <2>1. DOMAIN gate'.receipts = {}
    BY <1>3, <1>8
  <2>2. QED
    BY <2>1 DEF JournalIsInTime
<1>12. ResultIsWhole'
  BY <1>2, <1>3 DEF ResultIsWhole, AuditIsWhole, NoResult
<1>13. QED
  BY <1>1, <1>2, <1>6, <1>7, <1>9, <1>10, <1>11, <1>12 DEF BacktestIInv

LEMMA EndKeeps ==
  ASSUME BacktestIInv, EndRun
  PROVE  BacktestIInv'
<1>1. /\ BarsAreBound /\ strategy \in StrategyType /\ IsVenue(venue) /\ IsGate(gate)
      /\ JournalIsSound /\ JournalIsInTime /\ OrdersAreHandedOff /\ ResultIsWhole
  BY DEF BacktestIInv
<1>2. /\ phase = "running" /\ phase' = "ended"
      /\ UNCHANGED <<run, object, bars, published, strategy, venue, gate>>
      /\ result' = IF gate.failed
                   THEN [status |-> "refused", findings |-> {"risk_audit_unavailable"}]
                   ELSE IF Constructible(Completed) THEN Completed ELSE NoResult
  BY DEF EndRun
<1>3. BarsAreBound'
  BY <1>1, <1>2 DEF BarsAreBound
<1>4. JournalIsSound' /\ JournalIsInTime' /\ OrdersAreHandedOff'
  <2>1. Unwritten
    BY <1>1, <1>2 DEF Unwritten, IsGate
  <2>2. published \in Nat /\ bars \in Seq(Bar)
    BY <1>1 DEF BarsAreBound
  <2>3. QED
    BY <1>1, <1>2, <2>1, <2>2, JournalStays
<1>5. /\ Completed.status = "completed" /\ Completed.receipts = gate.receipts
      /\ Completed.evaluations = gate.evaluations /\ Completed.approvals = gate.approvals
  BY DEF Completed
<1>6. DistinctTimes => Constructible(Completed)
  <2>1. /\ gate.evaluations = Len(gate.receipts)
        /\ gate.approvals = Cardinality(Admitting(gate.receipts))
    BY <1>1 DEF JournalIsSound
  <2>2. Cardinality(Admitting(gate.receipts)) <= Len(gate.receipts)
    BY <1>1, AdmittingIs DEF IsGate
  <2>3. ASSUME DistinctTimes PROVE Sealable(gate.receipts)
    <3> DEFINE s == gate.receipts
    <3>1. \A i, j \in DOMAIN s : i < j => s[i].at < s[j].at
      BY <1>1, <2>3 DEF JournalIsInTime
    <3>2. \A i \in DOMAIN s : s[i].at \in Nat
                              /\ s[i].request.intent = [at |-> s[i].at, side |-> s[i].side]
      BY <1>1 DEF JournalIsSound, ReceiptIsSound
    <3> HIDE DEF s
    <3>3. ASSUME NEW i \in DOMAIN s, NEW j \in DOMAIN s, i < j
          PROVE  s[i].at <= s[j].at /\ s[i].request.intent # s[j].request.intent
      <4>1. PICK a, b : a = s[i].at /\ b = s[j].at
        OBVIOUS
      <4>2. a < b
        BY <3>1, <3>3, <4>1
      <4>3. a \in Nat /\ b \in Nat
        BY <3>2, <4>1
      <4>4. a <= b /\ a # b
        BY <4>2, <4>3
      <4>5. s[i].request.intent.at = a /\ s[j].request.intent.at = b
        <5>1. PICK x, y : x = s[i].request.intent /\ y = s[j].request.intent
          OBVIOUS
        <5>2. x = [at |-> s[i].at, side |-> s[i].side] /\ y = [at |-> s[j].at, side |-> s[j].side]
          BY <3>2, <5>1
        <5>3. x.at = s[i].at /\ y.at = s[j].at
          BY <5>2
        <5>4. QED
          BY <4>1, <5>1, <5>3
      <4>6. QED
        BY <4>1, <4>4, <4>5
    <3>4. QED
      BY <3>3 DEF Sealable, s
  <2>4. QED
    BY <1>5, <2>1, <2>2, <2>3 DEF Constructible
<1>7. DistinctTimes => AuditIsWhole'
  <2>1. SUFFICES ASSUME DistinctTimes PROVE AuditIsWhole'
    OBVIOUS
  <2>2. CASE gate.failed
    <3>1. result'.status = "refused"
      BY <1>2, <2>2
    <3>2. QED
      BY <3>1 DEF AuditIsWhole
  <2>3. CASE ~gate.failed
    <3> DEFINE s == gate.receipts
               told == [i \in DOMAIN s |-> [at |-> s[i].at, side |-> s[i].side]]
    <3>1. result' = Completed
      BY <1>2, <1>6, <2>1, <2>3
    <3>2. result'.status = "completed" /\ result'.receipts = s
      BY <1>5, <3>1
    <3>3. run.gated => told = strategy.asked
      <4>1. ASSUME run.gated PROVE told = strategy.asked
        <5>1. /\ Len(strategy.asked) = Len(s)
              /\ \A i \in DOMAIN s : strategy.asked[i] = [at |-> s[i].at, side |-> s[i].side]
          BY <1>1, <2>3, <4>1 DEF JournalIsSound
        <5>2. strategy.asked \in Seq(Signal) /\ s \in Seq(Members(s))
          BY <1>1 DEF StrategyType, IsGate
        <5>3. DOMAIN s = 1..Len(s)
          BY <5>2
        <5>4. strategy.asked = [i \in 1..Len(strategy.asked) |-> strategy.asked[i]]
          BY <5>2
        <5>5. QED
          BY <5>1, <5>3, <5>4
      <4>2. QED
        BY <4>1
    <3>4. run' = run /\ strategy' = strategy
      BY <1>2
    <3>5. QED
      BY <3>2, <3>3, <3>4 DEF AuditIsWhole
  <2>4. QED
    BY <2>2, <2>3
<1>8. ResultIsWhole'
  BY <1>2, <1>7 DEF ResultIsWhole, DistinctTimes
<1>9. QED
  BY <1>1, <1>2, <1>3, <1>4, <1>8 DEF BacktestIInv

LEMMA BacktestStarts ==
  ASSUME BacktestInit
  PROVE  BacktestIInv
<1>1. /\ phase = "defined" /\ run \in Definitions /\ object = run.content
      /\ bars = <<>> /\ published = 0 /\ result = NoResult
      /\ strategy = [long |-> FALSE, asked |-> <<>>, orders |-> <<>>]
      /\ venue = [cash |-> 0, quantity |-> 0, cost |-> 0, realized |-> 0, underWay |-> <<>>,
                  fills |-> <<>>]
      /\ gate = [peak |-> 0, receipts |-> <<>>, evaluations |-> 0, approvals |-> 0,
                 failed |-> FALSE]
  BY DEF BacktestInit
<1>2. BarsAreBound
  <2>1. run.content \in Seq(Bar) /\ <<>> \in Seq(Bar)
    BY <1>1, BacktestAssumption
  <2>2. published \in 0..Len(bars)
    BY <1>1
  <2>3. QED
    BY <1>1, <2>1, <2>2 DEF BarsAreBound
<1>3. strategy \in StrategyType
  BY <1>1 DEF StrategyType
<1>4. IsVenue(venue)
  BY <1>1 DEF IsVenue
<1>5. IsGate(gate)
  BY <1>1 DEF IsGate
<1>6. gate.receipts = <<>> /\ DOMAIN gate.receipts = {} /\ Len(gate.receipts) = 0
  BY <1>1
<1>7. Admitting(gate.receipts) = {} /\ Cardinality(Admitting(gate.receipts)) = 0
  BY <1>6, FS_EmptySet DEF Admitting
<1>8. JournalIsSound
  BY <1>1, <1>6, <1>7 DEF JournalIsSound
<1>9. JournalIsInTime
  BY <1>6 DEF JournalIsInTime
<1>10. OrdersAreHandedOff
  BY <1>1, <1>6, <1>7 DEF OrdersAreHandedOff
<1>11. ResultIsWhole
  BY <1>1 DEF ResultIsWhole, AuditIsWhole, NoResult
<1>12. QED
  BY <1>2, <1>3, <1>4, <1>5, <1>8, <1>9, <1>10, <1>11 DEF BacktestIInv

LEMMA BacktestStays ==
  ASSUME BacktestIInv, UNCHANGED backtestVars
  PROVE  BacktestIInv'
<1>1. /\ BarsAreBound /\ strategy \in StrategyType /\ IsVenue(venue) /\ IsGate(gate)
      /\ JournalIsSound /\ JournalIsInTime /\ OrdersAreHandedOff /\ ResultIsWhole
  BY DEF BacktestIInv
<1>2. UNCHANGED <<phase, run, object, bars, published, strategy, venue, gate, result>>
  BY DEF backtestVars
<1>3. BarsAreBound' /\ IsVenue(venue') /\ IsGate(gate')
  BY <1>1, <1>2 DEF BarsAreBound, IsVenue, IsGate
<1>4. JournalIsSound' /\ JournalIsInTime' /\ OrdersAreHandedOff'
  <2>1. Unwritten
    BY <1>1, <1>2 DEF Unwritten, IsGate
  <2>2. published \in Nat /\ bars \in Seq(Bar)
    BY <1>1 DEF BarsAreBound
  <2>3. QED
    BY <1>1, <1>2, <2>1, <2>2, JournalStays
<1>5. ResultIsWhole'
  BY <1>1, <1>2 DEF ResultIsWhole, AuditIsWhole, DistinctTimes
<1>6. QED
  BY <1>1, <1>2, <1>3, <1>4, <1>5 DEF BacktestIInv

(* What a backtest rests on: its bars are those of its definition, bound to the manifest; the
   journal of its gate holds one sound receipt per approval asked for, in order; and a result
   that has figures has the whole of it.                                                       *)
THEOREM BacktestIsSound == BacktestSpec => []BacktestIInv
<1>1. BacktestInit => BacktestIInv
  BY BacktestStarts
<1>2. BacktestIInv /\ [BacktestNext]_backtestVars => BacktestIInv'
  <2>1. SUFFICES ASSUME BacktestIInv, [BacktestNext]_backtestVars PROVE BacktestIInv'
    OBVIOUS
  <2>2. CASE Define \/ ReplaceObject \/ RefuseRun \/ Diagnose
    BY <2>1, <2>2, PreparationKeeps
  <2>3. CASE StartRun
    BY <2>1, <2>3, StartKeeps
  <2>4. CASE OnBar
    BY <2>1, <2>4, SignalKeeps
  <2>5. CASE FillOrder \/ DenyOrder
    <3>1. /\ BarsAreBound /\ strategy \in StrategyType /\ IsVenue(venue) /\ IsGate(gate)
          /\ JournalIsSound /\ JournalIsInTime /\ OrdersAreHandedOff /\ ResultIsWhole
      BY <2>1 DEF BacktestIInv
    <3>2. /\ IsVenue(venue')
          /\ UNCHANGED <<phase, run, object, bars, published, strategy, gate, result>>
      BY <2>5, <3>1, FillKeeps
    <3>3. BarsAreBound' /\ IsGate(gate')
      BY <3>1, <3>2 DEF BarsAreBound, IsGate
    <3>4. JournalIsSound' /\ JournalIsInTime' /\ OrdersAreHandedOff'
      <4>1. Unwritten
        BY <3>1, <3>2 DEF Unwritten, IsGate
      <4>2. published \in Nat /\ bars \in Seq(Bar)
        BY <3>1 DEF BarsAreBound
      <4>3. QED
        BY <3>1, <3>2, <4>1, <4>2, JournalStays
    <3>5. ResultIsWhole'
      BY <3>1, <3>2 DEF ResultIsWhole, AuditIsWhole, DistinctTimes
    <3>6. QED
      BY <3>1, <3>2, <3>3, <3>4, <3>5 DEF BacktestIInv
  <2>6. CASE EndRun
    BY <2>1, <2>6, EndKeeps
  <2>7. CASE UNCHANGED backtestVars
    BY <2>1, <2>7, BacktestStays
  <2>8. QED
    BY <2>1, <2>2, <2>3, <2>4, <2>5, <2>6, <2>7 DEF BacktestNext
<1>3. QED
  BY <1>1, <1>2, PTL DEF BacktestSpec

(* Every order of a gated run has a handoff of its own, in order, for no more than was handed
   off, whatever the sessions decided and however the simulator fills.                         *)
THEOREM OrdersHandedOff == BacktestSpec => []OrdersAreHandedOff
<1>1. BacktestIInv => OrdersAreHandedOff
  BY DEF BacktestIInv
<1>2. QED
  BY <1>1, BacktestIsSound, PTL

(* When no two bars arrived at one instant, the whole of GateDecides holds: besides the orders,
   every run that was simulated is answered, and figures of a gated run come with one receipt for
   every approval the strategy asked for.  Two approvals for the same side at one instant have
   equal intents, which the audit refuses.                                                     *)
THEOREM TheGateDecides == BacktestSpec /\ []DistinctTimes => []GateDecides
<1>1. BacktestIInv /\ DistinctTimes => GateDecides
  BY DEF BacktestIInv, ResultIsWhole, GateDecides
<1>2. QED
  BY <1>1, BacktestIsSound, PTL

(* Figures come only from the bars the manifest was frozen over, knowable when it was frozen and
   within the period, whatever became of the catalog's file.                                   *)
THEOREM FiguresFromThePast == BacktestSpec => []NoFigureFromTheFuture
<1>1. BacktestIInv => NoFigureFromTheFuture
  <2>1. SUFFICES ASSUME BacktestIInv, bars # <<>> PROVE
          /\ bars = run.manifest.content
          /\ run.manifest.basis = "ingested_at" /\ ~run.manifest.revised
          /\ \A i \in DOMAIN bars : /\ bars[i].event \in run.start..run.end
                                    /\ bars[i].ingested <= run.end
                                    /\ bars[i].ingested <= run.manifest.frozen
    BY DEF NoFigureFromTheFuture
  <2>2. /\ run \in Definitions /\ bars \in Seq(Bar) /\ bars = run.content
        /\ LeakageFindings(run) = {} /\ Ordered(bars) /\ Bound(run, bars)
    BY <2>1 DEF BacktestIInv, BarsAreBound
  <2>3. /\ bars = run.manifest.content
        /\ run.manifest.lastIngested >= LastOf(bars).ingested
        /\ \A i \in DOMAIN bars : /\ run.start <= bars[i].event /\ bars[i].event <= run.end
                                  /\ bars[i].ingested <= run.manifest.frozen
    BY <2>2 DEF Bound
  <2>4. /\ run.manifest.basis = "ingested_at" /\ ~run.manifest.revised
        /\ ~(run.manifest.lastIngested > run.end)
    <3>1. "not_point_in_time" \notin LeakageFindings(run)
          /\ "contains_provider_revisions" \notin LeakageFindings(run)
          /\ "ingested_after_period" \notin LeakageFindings(run)
      BY <2>2
    <3>2. QED
      BY <3>1 DEF LeakageFindings
  <2>5. ASSUME NEW i \in DOMAIN bars
        PROVE  /\ bars[i].event \in run.start..run.end
               /\ bars[i].ingested <= run.end
    <3>1. /\ Len(bars) \in Nat /\ DOMAIN bars = 1..Len(bars)
          /\ \A j \in DOMAIN bars : bars[j].event \in Nat /\ bars[j].ingested \in Nat
      BY <2>2, BarsAre
    <3>2. {run.start, run.end, run.manifest.lastIngested} \subseteq Nat
      BY <2>2, BacktestAssumption
    <3>3. Len(bars) \in DOMAIN bars /\ i <= Len(bars)
      BY <3>1
    <3>4. bars[i].ingested <= bars[Len(bars)].ingested
      BY <2>2, <3>3, InOrderOfArrival
    <3>5. PICK a, b, m, e : /\ a = bars[i].ingested /\ b = bars[Len(bars)].ingested
                            /\ m = run.manifest.lastIngested /\ e = run.end
      OBVIOUS
    <3>6. a \in Nat /\ b \in Nat /\ m \in Nat /\ e \in Nat
      BY <3>1, <3>2, <3>3, <3>5
    <3>7. a <= b /\ m >= b /\ ~(m > e)
      BY <2>3, <2>4, <3>4, <3>5 DEF LastOf
    <3>8. a <= e
      BY <3>6, <3>7
    <3>9. bars[i].event \in run.start..run.end
      <4>1. PICK v, w : v = bars[i].event /\ w = run.start
        OBVIOUS
      <4>2. v \in Nat /\ w \in Nat /\ w <= v /\ v <= e
        BY <2>3, <3>1, <3>2, <3>5, <4>1
      <4>3. v \in w..e
        BY <3>6, <4>2
      <4>4. QED
        BY <3>5, <4>1, <4>3
    <3>10. QED
      BY <3>5, <3>8, <3>9
  <2>6. QED
    BY <2>3, <2>4, <2>5
<1>2. QED
  BY <1>1, BacktestIsSound, PTL

-------------------------------------------------------------------------------
(* A backtest: what an exit sells *)

(* The bars arrived one at a time, what is held is a whole number of lots, and no lot is worth
   less than the notional is rounded to.                                                       *)
ExitsArePlain ==
  /\ DistinctTimes
  /\ venue.quantity % SizeIncrement = 0
  /\ \A i \in DOMAIN bars : Increment <= WorstPrice("sell", Bid(bars[i].close))

LEMMA RoundingCancels ==
  ASSUME NEW held \in Int, NEW price \in Nat \ {0}, Increment <= price,
         NEW amount, amount = ((held * price) \div Increment) * Increment, amount > 0
  PROVE  held > 0 /\ CeilDiv(amount, price) = held
<1>1. Increment \in Nat \ {0}
  BY RiskAssumption
<1>2. PICK gross \in Int : gross = held * price
  OBVIOUS
<1>3. PICK inc \in Nat \ {0} : inc = Increment
  BY <1>1
<1>4. PICK x \in Int : x = gross \div inc
  BY <1>2, <1>3
<1>5. amount = x * inc
  BY <1>2, <1>3, <1>4
<1>6. x * inc <= gross /\ gross < x * inc + inc
  BY <1>2, <1>3, <1>4
<1>7. amount \in Nat /\ amount <= gross /\ gross - price < amount
  <2>1. amount \in Int
    BY <1>3, <1>4, <1>5
  <2>2. QED
    BY <1>2, <1>3, <1>5, <1>6, <2>1
<1>8. CeilDiv(amount, price) \in Nat
      /\ \A q \in Int : amount <= q * price <=> CeilDiv(amount, price) <= q
  BY <1>7, CeilDivIs
<1>9. CeilDiv(amount, price) <= held
  BY <1>2, <1>7, <1>8
<1>10. ~(CeilDiv(amount, price) <= held - 1)
  <2>1. (held - 1) * price = gross - price
    BY <1>2
  <2>2. ~(amount <= (held - 1) * price)
    BY <1>2, <1>7, <2>1
  <2>3. QED
    BY <1>8, <2>2
<1>11. held > 0
  <2>1. ASSUME held <= 0 PROVE FALSE
    <3>1. held * price <= 0
      BY <2>1
    <3>2. QED
      BY <1>2, <1>7, <3>1
  <2>2. QED
    BY <2>1
<1>12. QED
  <2>1. PICK c \in Nat : c = CeilDiv(amount, price)
    BY <1>8
  <2>2. c <= held /\ ~(c <= held - 1)
    BY <1>9, <1>10, <2>1
  <2>3. c = held
    BY <2>2
  <2>4. QED
    BY <1>11, <2>1, <2>3

LEMMA ExitIs ==
  ASSUME bars \in Seq(Bar), IsVenue(venue), ExitsArePlain, NEW k \in DOMAIN bars, NEW peak,
         NEW r, r = Attempt(run, bars, bars[k], venue, peak, "sell",
                            venue.quantity * bars[k].close),
         r.outcome = "handed_off", r.session.entries[1].approved = r.request.notional
  PROVE  r.quantity = r.session.portfolio.quantity[Instrument]
<1> DEFINE source == Source(bars, bars[k])
           held == venue.quantity
           requested == held * bars[k].close
           notional == ExitNotional(requested \div source.close, source)
           request == Request(run, source, "sell", notional)
           fresh == NewSession(Portfolio(venue, source, peak), Controls(run, source))
           evaluated == Evaluate(fresh, request, source.ingested)
           outcome == Outcome(request, evaluated)
           entry == evaluated.entries[1]
           a == Approved(fresh, request, source.ingested)
           price == WorstPrice("sell", Bid(source.close))
<1>1. /\ r.request = request /\ r.session = evaluated /\ r.outcome = outcome
      /\ r.quantity = IF outcome = "handed_off" THEN Lots(entry.quantity) ELSE 0
  BY DEF Attempt
<1>. held \in Int
  BY DEF IsVenue
<1>2. source = bars[k] /\ source.close \in Nat \ {0}
  <2> HIDE DEF source
  <2>1. PICK i \in DOMAIN bars : source = bars[i] /\ bars[i].ingested = bars[k].ingested
                               /\ source.close \in Nat \ {0}
    BY SourceIs DEF source
  <2>2. DOMAIN bars = 1..Len(bars) /\ Len(bars) \in Nat /\ \A j \in DOMAIN bars : bars[j].ingested \in Nat
    BY BarsAre
  <2>3. ~(bars[i].ingested < bars[k].ingested) /\ ~(bars[k].ingested < bars[i].ingested)
    <3>1. PICK x, y : x = bars[i].ingested /\ y = bars[k].ingested
      OBVIOUS
    <3>2. x = y /\ x \in Nat
      BY <2>1, <2>2, <3>1
    <3>3. ~(x < y) /\ ~(y < x)
      BY <3>2
    <3>4. QED
      BY <3>1, <3>3
  <2>4. i = k
    BY <2>2, <2>3 DEF ExitsArePlain, DistinctTimes
  <2>5. QED
    BY <2>1, <2>4
<1> HIDE DEF source
<1>3. price \in Nat \ {0} /\ Increment <= price
  <2>1. price \in Int
    BY <1>2, QuotesAre
  <2>2. QED
    BY SMTT(40), <1>2, <2>1, RiskAssumption DEF ExitsArePlain
<1>4. requested \div source.close = held
  <2>1. PICK c \in Nat \ {0}, h \in Int : c = source.close /\ h = held
    BY <1>2 DEF IsVenue
  <2>2. (h * c) \div c = h
    BY <2>1
  <2>3. QED
    BY <1>2, <2>1, <2>2
<1>5. notional = ((held * price) \div Increment) * Increment
  BY <1>4 DEF ExitNotional
<1>6. /\ request.side = "sell" /\ request.notional = notional
      /\ Quote(request) = Bid(source.close)
  BY DEF Request, Quote
<1> HIDE DEF notional, request
<1>7. entry = NewEntry(fresh, request, a, source.ingested) /\ evaluated.portfolio = fresh.portfolio
  <2>1. fresh.entries = <<>>
    BY DEF NewSession
  <2>2. /\ evaluated.entries = Append(<<>>, NewEntry(fresh, request, a, source.ingested))
        /\ evaluated.portfolio = fresh.portfolio
    BY <2>1 DEF Evaluate, NewSession
  <2> HIDE DEF evaluated, fresh
  <2>3. QED
    BY <2>2
<1>8. fresh.portfolio = Portfolio(venue, source, peak)
  BY DEF NewSession
<1> HIDE DEF evaluated, fresh, a
<1>9. /\ entry.approved = a
      /\ entry.quantity = IF a = 0 THEN 0 ELSE CeilDiv(a, price)
  BY <1>6, <1>7 DEF NewEntry, Quantity
<1>10. a = notional /\ a # 0
  <2>1. outcome = "handed_off"
    BY <1>1
  <2>2. a # 0
    BY <1>9, <2>1 DEF Outcome
  <2> HIDE DEF outcome, entry
  <2>3. QED
    BY <1>1, <1>6, <1>9, <2>2 DEF entry
<1>11. a \in Nat
  <2>1. notional \in Int
    <3>1. Increment \in Nat \ {0} /\ held * price \in Int
      BY <1>3, RiskAssumption
    <3>2. (held * price) \div Increment \in Int
      BY <3>1
    <3>3. QED
      BY <1>5, <3>1, <3>2
  <2>2. WorstPrice(request.side, Quote(request)) \in Int
    BY <1>3, <1>6
  <2> HIDE DEF price
  <2>3. QED
    BY <1>6, <2>1, <2>2, ApprovalIsWithin DEF a
<1> HIDE DEF price, entry, outcome
<1>12. held > 0 /\ CeilDiv(a, price) = held
  <2>1. a > 0
    BY <1>10, <1>11
  <2>2. QED
    BY <1>3, <1>5, <1>10, <2>1, RoundingCancels
<1>13. Lots(held) = held
  <2>1. PICK h \in Int, w \in Nat \ {0} : h = held /\ w = SizeIncrement
    BY ReplayAssumption DEF IsVenue
  <2>2. h % w = 0
    BY <2>1 DEF ExitsArePlain
  <2>3. (h \div w) * w = h
    BY <2>2
  <2>4. QED
    BY <2>1, <2>3 DEF Lots
<1>14. r.quantity = held
  BY <1>1, <1>9, <1>10, <1>12, <1>13
<1>15. Portfolio(venue, source, peak).quantity[Instrument] = held
  BY <1>12 DEF Portfolio
<1>16. QED
  BY <1>1, <1>7, <1>8, <1>14, <1>15

(* A signal leaves the journal as it was, or puts the receipt of an entry or of an exit at its end. *)
LEMMA SignalWrites ==
  ASSUME BacktestIInv, OnBar
  PROVE  \/ gate'.receipts = gate.receipts
         \/ \E r, peak, bar :
              /\ gate'.receipts = Append(gate.receipts, r) /\ bar = bars[published + 1]
              /\ \/ r.side = "buy"
                 \/ r = Attempt(run, bars, bar, venue, peak, "sell", venue.quantity * bar.close)
<1> DEFINE k == published + 1
           bar == bars[k]
           seen == PeakTaken(bar)
<1>1. /\ bars \in Seq(Bar) /\ IsGate(gate) /\ k \in DOMAIN bars
  BY OnBarIs DEF BacktestIInv, BarsAreBound
<1>2. IsGate(seen) /\ seen.receipts = gate.receipts
  BY <1>1, PeakTakenIs DEF Unasked
<1>3. \A side, requested : Attempt(run, bars, bar, venue, seen.peak, side, requested).side = side
  BY DEF Attempt
<1>4. \A side, requested :
        Approve(seen, bar, side, requested).receipts \in
          {seen.receipts,
           Append(seen.receipts, Attempt(run, bars, bar, venue, seen.peak, side, requested))}
  <2>1. ASSUME NEW side, NEW requested
        PROVE  Approve(seen, bar, side, requested).receipts \in
                 {seen.receipts,
                  Append(seen.receipts, Attempt(run, bars, bar, venue, seen.peak, side, requested))}
    <3> DEFINE r == Attempt(run, bars, bar, venue, seen.peak, side, requested)
    <3> HIDE DEF r, seen, bar
    <3>1. QED
      BY <1>2 DEF Approve, IsGate, r
  <2>2. QED
    BY <2>1
<1>5. \/ \E long \in BOOLEAN : Idle(bar, long)
      \/ Act(bar, "buy", EntryQuantity, run.notional)
      \/ Act(bar, "sell", venue.quantity, venue.quantity * bar.close)
  <2>1. strategy.long \in BOOLEAN
    BY DEF BacktestIInv, StrategyType
  <2>2. QED
    BY <2>1 DEF OnBar
<1>6. ASSUME NEW side, NEW wanted, NEW requested, Act(bar, side, wanted, requested)
      PROVE  gate' = seen \/ gate' = Approve(seen, bar, side, requested)
  BY <1>6 DEF Act
<1>7. CASE \E long \in BOOLEAN : Idle(bar, long)
  BY <1>2, <1>7 DEF Idle
<1>8. CASE Act(bar, "buy", EntryQuantity, run.notional)
  <2>1. gate' = seen \/ gate' = Approve(seen, bar, "buy", run.notional)
    BY <1>6, <1>8
  <2> DEFINE r == Attempt(run, bars, bar, venue, seen.peak, "buy", run.notional)
  <2>2. r.side = "buy"
    BY <1>3
  <2> HIDE DEF seen, r, bar
  <2>3. gate'.receipts \in {gate.receipts, Append(gate.receipts, r)}
    BY <1>2, <1>4, <2>1 DEF r
  <2>4. QED
    BY <2>2, <2>3
<1>9. CASE Act(bar, "sell", venue.quantity, venue.quantity * bar.close)
  <2>1. gate' = seen \/ gate' = Approve(seen, bar, "sell", venue.quantity * bar.close)
    BY <1>6, <1>9
  <2> HIDE DEF seen, bar
  <2>2. gate'.receipts \in
          {gate.receipts,
           Append(gate.receipts,
                  Attempt(run, bars, bar, venue, seen.peak, "sell", venue.quantity * bar.close))}
    BY <1>2, <1>4, <2>1
  <2>3. QED
    BY <2>2 DEF bar, k
<1>10. QED
  BY <1>5, <1>7, <1>8, <1>9

(* Where the bars arrived one at a time, fills are whole lots and the notional is not rounded to
   more than one lot is worth, an exit the policies did not reduce sells the whole holding: what
   ADR 0041 says of every run holds of these.                                                  *)
THEOREM ExitsSellEverything == BacktestSpec /\ []ExitsArePlain => []ExitsClose
<1>1. BacktestInit => ExitsClose
  <2>1. SUFFICES ASSUME BacktestInit PROVE ExitsClose
    OBVIOUS
  <2>2. DOMAIN gate.receipts = {}
    BY <2>1 DEF BacktestInit
  <2>3. QED
    BY <2>2 DEF ExitsClose
<1>2. BacktestIInv /\ ExitsArePlain /\ ExitsClose /\ [BacktestNext]_backtestVars => ExitsClose'
  <2>1. SUFFICES ASSUME BacktestIInv, ExitsArePlain, ExitsClose, [BacktestNext]_backtestVars
                 PROVE  ExitsClose'
    OBVIOUS
  <2>2. CASE gate'.receipts = gate.receipts
    BY <2>1, <2>2 DEF ExitsClose
  <2>3. CASE OnBar
    <3> DEFINE s == gate.receipts
               t == gate'.receipts
               Closes(r) == (r.side = "sell" /\ r.outcome = "handed_off"
                               /\ r.session.entries[1].approved = r.request.notional) =>
                              r.quantity = r.session.portfolio.quantity[Instrument]
    <3>1. ASSUME NEW r, NEW peak, NEW bar, t = Append(s, r), bar = bars[published + 1],
                 r.side = "buy"
                   \/ r = Attempt(run, bars, bar, venue, peak, "sell", venue.quantity * bar.close)
          PROVE  ExitsClose'
      <4>1. Closes(r)
        <5>1. CASE r.side = "buy"
          BY <5>1
        <5>2. CASE r = Attempt(run, bars, bar, venue, peak, "sell", venue.quantity * bar.close)
          <6>1. SUFFICES ASSUME r.outcome = "handed_off",
                                r.session.entries[1].approved = r.request.notional
                         PROVE  r.quantity = r.session.portfolio.quantity[Instrument]
            OBVIOUS
          <6>2. bars \in Seq(Bar) /\ IsVenue(venue)
            BY <2>1 DEF BacktestIInv, BarsAreBound
          <6>3. PICK k \in DOMAIN bars : k = published + 1
            BY <2>1, <2>3, OnBarIs
          <6>4. r = Attempt(run, bars, bars[k], venue, peak, "sell", venue.quantity * bars[k].close)
            BY <3>1, <5>2, <6>3
          <6>5. QED
            BY <2>1, <6>1, <6>2, <6>4, ExitIs
        <5>3. QED
          BY <3>1, <5>1, <5>2
      <4>2. /\ DOMAIN s = 1..Len(s) /\ DOMAIN t = 1..(Len(s) + 1) /\ Len(s) \in Nat
            /\ t[Len(s) + 1] = r /\ \A i \in DOMAIN s : t[i] = s[i]
        BY <2>1, <3>1, AppendIs DEF BacktestIInv, IsGate
      <4>3. \A i \in DOMAIN s : Closes(s[i])
        BY <2>1 DEF ExitsClose
      <4> HIDE DEF s, t, Closes
      <4>4. \A i \in DOMAIN t : i \in DOMAIN s \/ i = Len(s) + 1
        BY <4>2
      <4>5. \A i \in DOMAIN t : Closes(t[i])
        BY <4>1, <4>2, <4>3, <4>4
      <4>6. QED
        BY <4>5 DEF ExitsClose, Closes, t
    <3>2. QED
      BY <2>1, <2>2, <2>3, <3>1, SignalWrites
  <2>4. CASE ~OnBar
    <3>1. CASE StartRun
      <4>1. gate' = [gate EXCEPT !.peak = run.balance] /\ IsGate(gate)
        BY <2>1, <3>1 DEF StartRun, BacktestIInv
      <4>2. QED
        BY <2>2, <4>1 DEF IsGate
    <3>2. CASE UNCHANGED gate
      BY <2>2, <3>2
    <3>3. QED
      BY <2>1, <2>4, <3>1, <3>2
      DEF BacktestNext, Define, ReplaceObject, RefuseRun, Diagnose, FillOrder, DenyOrder, EndRun,
          backtestVars
  <2>5. QED
    BY <2>3, <2>4
<1>3. QED
  BY <1>1, <1>2, BacktestIsSound, PTL DEF BacktestSpec
=============================================================================
