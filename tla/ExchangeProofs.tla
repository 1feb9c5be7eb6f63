--------------------------- MODULE ExchangeProofs ---------------------------
(***************************************************************************)
(* Proofs about Exchange, for any requests, rates, rules and handlers: the *)
(* price of every leg, balances against entries, that users stay covered,  *)
(* the level 4 check, and usage against what was posted and its limits.    *)
(***************************************************************************)
EXTENDS Exchange, FiniteSetTheorems, TLAPS

-----------------------------------------------------------------------------
(* Sums over finite sets: MapThenFoldSet takes the elements one by one in   *)
(* the order of its own choice.  Its unfolding is shown to exist, and to    *)
(* be the only one, because no family of subsets of a finite set goes down  *)
(* for ever; then the order is shown not to matter.                         *)

Pick(s) == CHOOSE x \in s : TRUE

Adds(w, S, g) ==
    g = [s \in SUBSET S |-> IF s = {} THEN 0 ELSE w[Pick(s)] + g[s \ {Pick(s)}]]

Adder(w, S) == CHOOSE g : Adds(w, S, g)

\* A family of subsets of a finite set that holds a set whenever it holds every
\* smaller one holds them all.
LEMMA SubsetInduction ==
    ASSUME NEW S, IsFiniteSet(S), NEW F,
           \A T \in SUBSET S : (\A U \in SUBSET T : U # T => U \in F) => T \in F
    PROVE  SUBSET S \subseteq F
<1> DEFINE R == StrictSubsetOrdering(S)
           Bad == (SUBSET S) \ F
<1>1. IsWellFoundedOn(R, SUBSET S)
  BY FS_StrictSubsetOrderingWellFounded, FS_FiniteSubsetsOfFinite
<1>2. SUFFICES ASSUME Bad # {} PROVE FALSE
  OBVIOUS
<1>3. Bad \subseteq SUBSET S
  OBVIOUS
<1> HIDE DEF R, Bad
<1>4. PICK T \in Bad : \A U \in Bad : <<U, T>> \notin R
  BY <1>1, <1>2, <1>3, WFMin
<1> USE DEF Bad
<1>5. ASSUME NEW U \in SUBSET T, U # T PROVE U \in F
  <2>1. U \in SUBSET S /\ T \in SUBSET S
    BY <1>4, <1>5
  <2>2. <<U, T>> \in R
    BY <1>5, <2>1 DEF R, StrictSubsetOrdering
  <2> QED
    BY <1>4, <2>1, <2>2
<1> QED
  BY <1>4, <1>5

\* The sum of the community modules is the one its unfolding gives.
LEMMA SumIsAdder ==
    ASSUME NEW w, NEW S
    PROVE  SumFunctionOnSet(w, S) = Adder(w, S)[S]
BY DEF SumFunctionOnSet, FoldFunctionOnSet, MapThenFoldSet, Adder, Adds, Pick

LEMMA PickIn == ASSUME NEW s, s # {} PROVE Pick(s) \in s
BY DEF Pick

\* Two unfoldings agree on the subsets both have.
LEMMA AdderUnique ==
    ASSUME NEW w, NEW S, IsFiniteSet(S), NEW T \in SUBSET S, NEW g, NEW h,
           Adds(w, S, g), Adds(w, T, h)
    PROVE  \A s \in SUBSET T : g[s] = h[s]
<1> DEFINE F == {s \in SUBSET T : g[s] = h[s]}
<1>1. ASSUME NEW s \in SUBSET T, \A U \in SUBSET s : U # s => U \in F
      PROVE  s \in F
  <2>1. /\ g[s] = IF s = {} THEN 0 ELSE w[Pick(s)] + g[s \ {Pick(s)}]
        /\ h[s] = IF s = {} THEN 0 ELSE w[Pick(s)] + h[s \ {Pick(s)}]
    BY DEF Adds
  <2>2. s # {} => s \ {Pick(s)} \in F
    BY <1>1, PickIn
  <2> QED
    BY <2>1, <2>2
<1>2. IsFiniteSet(T)
  BY FS_Subset
<1> HIDE DEF F
<1>3. SUBSET T \subseteq F
  BY <1>1, <1>2, SubsetInduction
<1> QED
  BY <1>3 DEF F

\* There is an unfolding, made of those of the smaller sets.
LEMMA AdderExists ==
    ASSUME NEW w, NEW S, IsFiniteSet(S)
    PROVE  Adds(w, S, Adder(w, S))
<1> DEFINE F == {T \in SUBSET S : Adds(w, T, Adder(w, T))}
           V(s) == Adder(w, s)[s]
<1>1. ASSUME NEW T \in SUBSET S, \A U \in SUBSET T : U # T => U \in F
      PROVE  T \in F
  <2> DEFINE val == [s \in SUBSET T |->
                        IF s = {} THEN 0 ELSE w[Pick(s)] + V(s \ {Pick(s)})]
  <2>1. ASSUME NEW s \in SUBSET T, s # T PROVE val[s] = V(s)
    <3>1. Adds(w, s, Adder(w, s))
      BY <1>1, <2>1
    <3>2. V(s) = IF s = {} THEN 0 ELSE w[Pick(s)] + Adder(w, s)[s \ {Pick(s)}]
      BY <3>1 DEF Adds
    <3>3. ASSUME s # {} PROVE Adder(w, s)[s \ {Pick(s)}] = V(s \ {Pick(s)})
      <4>1. Pick(s) \in s
        BY <3>3, PickIn
      <4>2. Adds(w, s \ {Pick(s)}, Adder(w, s \ {Pick(s)}))
        BY <1>1, <4>1
      <4>3. IsFiniteSet(s)
        BY FS_Subset
      <4> QED
        BY <3>1, <4>2, <4>3, AdderUnique
    <3> QED
      BY <3>2, <3>3
  <2>2. Adds(w, T, val)
    <3>1. ASSUME NEW s \in SUBSET T, s # {} PROVE val[s \ {Pick(s)}] = V(s \ {Pick(s)})
      <4>1. s \ {Pick(s)} \in SUBSET T /\ s \ {Pick(s)} # T
        BY <3>1, PickIn
      <4> HIDE DEF val, V
      <4> QED
        BY <2>1, <4>1
    <3> QED
      BY <3>1 DEF Adds
  <2> QED
    BY <2>2 DEF Adder
<1> HIDE DEF F
<1>2. SUBSET S \subseteq F
  BY <1>1, SubsetInduction
<1> QED
  BY <1>2 DEF F

LEMMA SumEmpty == ASSUME NEW w PROVE SumFunctionOnSet(w, {}) = 0
<1>1. Adds(w, {}, Adder(w, {}))
  BY AdderExists, FS_EmptySet
<1> QED
  BY <1>1, SumIsAdder DEF Adds

\* A sum is the element picked and the sum of the others.
LEMMA SumPicks ==
    ASSUME NEW w, NEW S, IsFiniteSet(S), S # {}
    PROVE  SumFunctionOnSet(w, S) = w[Pick(S)] + SumFunctionOnSet(w, S \ {Pick(S)})
<1> DEFINE T == S \ {Pick(S)}
<1>1. Adds(w, S, Adder(w, S))
  BY AdderExists
<1>2. Adds(w, T, Adder(w, T))
  BY AdderExists, FS_RemoveElement
<1>3. Adder(w, S)[T] = Adder(w, T)[T]
  <2>1. T \in SUBSET S /\ T \in SUBSET T
    OBVIOUS
  <2> HIDE DEF T
  <2> QED
    BY <1>1, <1>2, <2>1, AdderUnique
<1>4. Adder(w, S)[S] = w[Pick(S)] + Adder(w, S)[T]
  BY <1>1 DEF Adds
<1> QED
  BY <1>3, <1>4, SumIsAdder

LEMMA SumInt ==
    ASSUME NEW w, NEW S, IsFiniteSet(S), \A x \in S : w[x] \in Int
    PROVE  SumFunctionOnSet(w, S) \in Int
<1> DEFINE F == {T \in SUBSET S : SumFunctionOnSet(w, T) \in Int}
<1>1. ASSUME NEW T \in SUBSET S, \A U \in SUBSET T : U # T => U \in F
      PROVE  T \in F
  <2>1. CASE T = {}
    BY <2>1, SumEmpty
  <2>2. CASE T # {}
    <3>1. Pick(T) \in T /\ IsFiniteSet(T)
      BY <2>2, PickIn, FS_Subset
    <3>2. SumFunctionOnSet(w, T \ {Pick(T)}) \in Int /\ w[Pick(T)] \in Int
      BY <1>1, <3>1
    <3>3. SumFunctionOnSet(w, T) = w[Pick(T)] + SumFunctionOnSet(w, T \ {Pick(T)})
      BY <2>2, <3>1, SumPicks
    <3> QED
      BY <3>2, <3>3
  <2> QED
    BY <2>1, <2>2
<1> HIDE DEF F
<1>2. SUBSET S \subseteq F
  BY <1>1, SubsetInduction
<1> QED
  BY <1>2 DEF F

\* Any element may be taken out first.
LEMMA SumRemove ==
    ASSUME NEW w, NEW S, IsFiniteSet(S), \A x \in S : w[x] \in Int, NEW x \in S
    PROVE  SumFunctionOnSet(w, S) = w[x] + SumFunctionOnSet(w, S \ {x})
<1> DEFINE Tot(T) == SumFunctionOnSet(w, T)
           F == {T \in SUBSET S : \A y \in T : Tot(T) = w[y] + Tot(T \ {y})}
<1>1. ASSUME NEW T \in SUBSET S, \A U \in SUBSET T : U # T => U \in F
      PROVE  T \in F
  <2> SUFFICES ASSUME NEW y \in T PROVE Tot(T) = w[y] + Tot(T \ {y})
    OBVIOUS
  <2> DEFINE p == Pick(T)
  <2>1. p \in T
    BY PickIn
  <2>2. IsFiniteSet(T)
    BY FS_Subset
  <2>3. Tot(T) = w[p] + Tot(T \ {p})
    BY <2>2, SumPicks
  <2>4. CASE p = y
    BY <2>3, <2>4
  <2>5. CASE p # y
    <3>1. Tot(T \ {p}) = w[y] + Tot((T \ {p}) \ {y})
      BY <1>1, <2>1, <2>5
    <3>2. Tot(T \ {y}) = w[p] + Tot((T \ {y}) \ {p})
      BY <1>1, <2>1, <2>5
    <3>3. (T \ {y}) \ {p} = (T \ {p}) \ {y}
      OBVIOUS
    <3>4. w[p] \in Int /\ w[y] \in Int
      BY <2>1
    <3>5. Tot((T \ {p}) \ {y}) \in Int
      <4>1. IsFiniteSet((T \ {p}) \ {y})
        BY <2>2, FS_Subset
      <4> QED
        BY <4>1, SumInt
    <3>6. Tot((T \ {y}) \ {p}) = Tot((T \ {p}) \ {y})
      BY <3>3
    <3> DEFINE rest == Tot((T \ {p}) \ {y})
    <3>7. Tot(T \ {p}) = w[y] + rest /\ Tot(T \ {y}) = w[p] + rest /\ rest \in Int
      BY <3>1, <3>2, <3>5, <3>6
    <3> HIDE DEF Tot, p, rest
    <3> QED
      BY <2>3, <3>4, <3>7
  <2> QED
    BY <2>4, <2>5
<1> HIDE DEF F
<1>2. SUBSET S \subseteq F
  BY <1>1, SubsetInduction
<1>3. S \in F
  BY <1>2
<1> QED
  BY <1>3 DEF F

\* A sum depends on nothing but what the function is on the set.
LEMMA SumSame ==
    ASSUME NEW S, IsFiniteSet(S), NEW w, NEW v, \A x \in S : w[x] = v[x]
    PROVE  SumFunctionOnSet(w, S) = SumFunctionOnSet(v, S)
<1> DEFINE F == {T \in SUBSET S : SumFunctionOnSet(w, T) = SumFunctionOnSet(v, T)}
<1>1. ASSUME NEW T \in SUBSET S, \A U \in SUBSET T : U # T => U \in F
      PROVE  T \in F
  <2>1. CASE T = {}
    BY <2>1, SumEmpty
  <2>2. CASE T # {}
    <3>1. Pick(T) \in T /\ IsFiniteSet(T)
      BY <2>2, PickIn, FS_Subset
    <3>2. SumFunctionOnSet(w, T \ {Pick(T)}) = SumFunctionOnSet(v, T \ {Pick(T)})
      BY <1>1, <3>1
    <3>3. w[Pick(T)] = v[Pick(T)]
      BY <3>1
    <3> QED
      BY <2>2, <3>1, <3>2, <3>3, SumPicks
  <2> QED
    BY <2>1, <2>2
<1> HIDE DEF F
<1>2. SUBSET S \subseteq F
  BY <1>1, SubsetInduction
<1> QED
  BY <1>2 DEF F

(* What the proofs below use: the total of a function on a finite set. *)

LEMMA TotalType ==
    ASSUME NEW S, IsFiniteSet(S), NEW w \in [S -> Int]
    PROVE  SumFunction(w) \in Int
BY SumInt DEF SumFunction

LEMMA TotalEmpty == ASSUME NEW w, DOMAIN w = {} PROVE SumFunction(w) = 0
BY SumEmpty DEF SumFunction

\* The function v is w at one index more, x.
Extends(v, w, x) ==
    /\ IsFiniteSet(DOMAIN w) /\ x \notin DOMAIN w
    /\ DOMAIN v = DOMAIN w \cup {x}
    /\ \A y \in DOMAIN v : v[y] \in Int
    /\ \A y \in DOMAIN w : v[y] = w[y]

LEMMA TotalAppend ==
    ASSUME NEW w, NEW v, NEW x, Extends(v, w, x)
    PROVE  /\ SumFunction(v) = SumFunction(w) + v[x]
           /\ SumFunction(w) \in Int /\ SumFunction(v) \in Int
<1> DEFINE S == DOMAIN w
           T == DOMAIN v
<1>1. IsFiniteSet(T) /\ x \in T /\ T \ {x} = S
  BY FS_AddElement DEF Extends
<1>2. (\A y \in T : v[y] \in Int) /\ (\A y \in S : v[y] \in Int) /\ v[x] \in Int
  BY DEF Extends
<1>3. IsFiniteSet(S) /\ \A y \in S : v[y] = w[y]
  BY DEF Extends
<1> HIDE DEF T, S
<1>4. SumFunctionOnSet(v, T) = v[x] + SumFunctionOnSet(v, S)
  BY <1>1, <1>2, SumRemove
<1>5. SumFunctionOnSet(v, S) = SumFunctionOnSet(w, S)
  BY <1>3, SumSame
<1>6. SumFunctionOnSet(v, S) \in Int
  BY <1>2, <1>3, SumInt
<1> QED
  BY <1>2, <1>4, <1>5, <1>6 DEF SumFunction, S, T

LEMMA IndexesFinite ==
    ASSUME NEW T, NEW s \in Seq(T)
    PROVE  IsFiniteSet(DOMAIN s) /\ DOMAIN s = 1..Len(s) /\ Len(s) \in Nat
BY FS_Interval

\* The entries up to one more add up to that one more.
LEMMA SumUpTo ==
    ASSUME NEW n \in Nat, NEW S, 1..(n + 1) \subseteq S, NEW w \in [S -> Int]
    PROVE  SumFunction([k \in 1..(n + 1) |-> w[k]])
               = SumFunction([k \in 1..n |-> w[k]]) + w[n + 1]
<1> DEFINE v == [k \in 1..(n + 1) |-> w[k]]
           z == [k \in 1..n |-> w[k]]
           T == 1..n
           V == 1..(n + 1)
           m == n + 1
<1>1. IsFiniteSet(T) /\ IsFiniteSet(V)
  BY FS_Interval
<1>2. V \ {m} = T /\ m \in V /\ DOMAIN v = V /\ DOMAIN z = T
  OBVIOUS
<1>3. (\A y \in V : v[y] \in Int) /\ (\A y \in T : v[y] = z[y] /\ v[y] \in Int)
      /\ v[m] = w[m]
  OBVIOUS
<1> HIDE DEF v, z, T, V, m
<1>4. SumFunctionOnSet(v, V) = v[m] + SumFunctionOnSet(v, T)
  BY <1>1, <1>2, <1>3, SumRemove
<1>5. SumFunctionOnSet(v, T) = SumFunctionOnSet(z, T)
  BY <1>1, <1>3, SumSame
<1>6. SumFunctionOnSet(v, T) \in Int /\ v[m] \in Int
  BY <1>1, <1>2, <1>3, SumInt
<1>7. SumFunction(v) = SumFunction(z) + v[m]
  BY <1>2, <1>4, <1>5, <1>6 DEF SumFunction
<1> QED
  BY <1>3, <1>7 DEF v, z, m

LEMMA SumOfFour ==
    ASSUME NEW w \in [1..4 -> Int]
    PROVE  SumFunction(w) = w[1] + w[2] + w[3] + w[4]
<1> DEFINE Tot(n) == SumFunction([k \in 1..n |-> w[k]])
<1>1. Tot(0) = 0
  BY TotalEmpty
<1>2. ASSUME NEW n \in 0..3 PROVE Tot(n + 1) = Tot(n) + w[n + 1]
  <2>1. n \in Nat /\ 1..(n + 1) \subseteq 1..4
    OBVIOUS
  <2> QED
    BY <2>1, SumUpTo
<1>3. SumFunction(w) = Tot(4)
  <2>1. w = [k \in 1..4 |-> w[k]]
    OBVIOUS
  <2> QED
    BY <2>1
<1> HIDE DEF Tot
<1>4. /\ Tot(1) = Tot(0) + w[1] /\ Tot(2) = Tot(1) + w[2]
      /\ Tot(3) = Tot(2) + w[3] /\ Tot(4) = Tot(3) + w[4]
  <2>1. Tot(0 + 1) = Tot(0) + w[0 + 1] /\ Tot(1 + 1) = Tot(1) + w[1 + 1]
    BY <1>2
  <2>2. Tot(2 + 1) = Tot(2) + w[2 + 1] /\ Tot(3 + 1) = Tot(3) + w[3 + 1]
    BY <1>2
  <2> QED
    BY <2>1, <2>2
<1> QED
  BY <1>1, <1>3, <1>4

LEMMA SumOfSix ==
    ASSUME NEW w \in [1..6 -> Int]
    PROVE  SumFunction(w) = w[1] + w[2] + w[3] + w[4] + w[5] + w[6]
<1> DEFINE Tot(n) == SumFunction([k \in 1..n |-> w[k]])
<1>1. Tot(0) = 0
  BY TotalEmpty
<1>2. ASSUME NEW n \in 0..5 PROVE Tot(n + 1) = Tot(n) + w[n + 1]
  <2>1. n \in Nat /\ 1..(n + 1) \subseteq 1..6
    OBVIOUS
  <2> QED
    BY <2>1, SumUpTo
<1>3. SumFunction(w) = Tot(6)
  <2>1. w = [k \in 1..6 |-> w[k]]
    OBVIOUS
  <2> QED
    BY <2>1
<1> HIDE DEF Tot
<1>4. /\ Tot(1) = Tot(0) + w[1] /\ Tot(2) = Tot(1) + w[2]
      /\ Tot(3) = Tot(2) + w[3] /\ Tot(4) = Tot(3) + w[4]
      /\ Tot(5) = Tot(4) + w[5] /\ Tot(6) = Tot(5) + w[6]
  <2>1. Tot(0 + 1) = Tot(0) + w[0 + 1] /\ Tot(1 + 1) = Tot(1) + w[1 + 1]
    BY <1>2
  <2>2. Tot(2 + 1) = Tot(2) + w[2 + 1] /\ Tot(3 + 1) = Tot(3) + w[3 + 1]
    BY <1>2
  <2>3. Tot(4 + 1) = Tot(4) + w[4 + 1] /\ Tot(5 + 1) = Tot(5) + w[5 + 1]
    BY <1>2
  <2> QED
    BY <2>1, <2>2, <2>3
<1> QED
  BY <1>1, <1>3, <1>4

\* The six entries of an exchange with a fee, for a user: three are of others.
LEMMA SumOfThree ==
    ASSUME NEW w \in [1..6 -> Int], w[3] = 0, w[5] = 0, w[6] = 0
    PROVE  SumFunction(w) = w[1] + w[2] + w[4]
<1>1. SumFunction(w) = w[1] + w[2] + 0 + w[4] + 0 + 0
  BY SumOfSix
<1>2. PICK x, y, z \in Int : x = w[1] /\ y = w[2] /\ z = w[4]
  OBVIOUS
<1>3. x + y + 0 + z + 0 + 0 = x + y + z
  OBVIOUS
<1> QED
  BY <1>1, <1>2, <1>3

-----------------------------------------------------------------------------
(* Prices. *)

\* Whole units are left when units are divided by units.
LEMMA QuotientIsNat ==
    ASSUME NEW a \in Nat, NEW b \in Nat \ {0}
    PROVE  a \div b \in Nat
BY SMT

USE ExchangeAssumption

\* What a handler may be executing, as far as the price is concerned: a request
\* of a caller with a rate that does not change any more.
Quote == [id : RateIds \cup {None}, rate : Rate]

InFlight(c) ==
    \/ call[c] = Idle
    \/ call[c].cmd # "Exchange"
    \/ call[c].req \in Exchanges /\ call[c].quote \in Quote

PriceInv ==
    /\ call = [c \in Handlers |-> call[c]]
    /\ \A c \in Handlers : InFlight(c)
    /\ Saved \subseteq RateIds
    /\ \A i \in Saved : fx[i].rate \in Rate
    /\ legs \in Seq(Leg)
    /\ PricedAtLegRate

\* A rate turns an amount of smallest units into one of smallest units.
LEMMA ExpectedIsNat ==
    ASSUME NEW n \in Nat, NEW rate \in Rate
    PROVE  ExpectedToAmount(n, rate) \in Nat
<1>1. rate.num \in Nat /\ rate.den \in Nat \ {0}
  BY DEF Rate
<1>2. n * rate.num \in Nat
  BY <1>1
<1> QED
  BY <1>1, <1>2, QuotientIsNat DEF ExpectedToAmount

\* A rate a request resolves to is one of its own or one that is saved.
LEMMA QuotedIsQuote ==
    ASSUME Saved \subseteq RateIds, \A i \in Saved : fx[i].rate \in Rate,
           NEW r \in Exchanges, NEW q \in Quoted(r)
    PROVE  q \in Quote
<1>1. r.rate \in Rate /\ r.rateId \in RateIds \cup {None}
  BY DEF ExchangeRequest
<1>2. CASE r.rate # NoRate
  BY <1>1, <1>2 DEF Quoted, Quote
<1>3. CASE r.rate = NoRate
  BY <1>3 DEF Quoted, Quote, Latest
<1> QED
  BY <1>2, <1>3

\* The leg of a priced request has its type, and its price.
LEMMA LegIsPriced ==
    ASSUME NEW r \in Exchanges, NEW q \in Quote, Priced(r, q.rate)
    PROVE  LET leg == LegOf(r, q, ToAmount(r, q.rate))
           IN  /\ leg \in Leg
               /\ leg.biz = r.biz /\ leg.user = r.user
               /\ WithinTolerance(ExpectedToAmount(leg.fromAmount, leg.rate),
                                  leg.toAmount, r.tolerance)
<1>1. r \in ExchangeRequest /\ q.rate \in Rate /\ q.id \in RateIds \cup {None}
  BY DEF Quote
<1>2. ExpectedToAmount(r.amount, q.rate) \in Nat
  BY <1>1, ExpectedIsNat DEF ExchangeRequest
<1>3. ToAmount(r, q.rate) \in Nat \ {0}
  BY <1>1, <1>2 DEF ToAmount, Priced, ExchangeRequest
<1> QED
  BY <1>1, <1>3 DEF LegOf, Leg, Priced, ExchangeRequest

LEMMA InitInv == Init => PriceInv
BY DEF Init, PriceInv, InFlight, Saved, PricedAtLegRate

\* A handler that starts an exchange has a rate in hand.
LEMMA BeginExchangeStep ==
    ASSUME PriceInv, NEW c \in Handlers, NEW r \in Exchanges, BeginExchange(c, r)
    PROVE  PriceInv'
<1>1. PICK q \in Quoted(r) :
        Begin(c, [cmd |-> "Exchange", req |-> r, quote |-> q, rules |-> rules])
  BY DEF BeginExchange
<1>2. q \in Quote
  BY QuotedIsQuote DEF PriceInv
<1>3. \A d \in Handlers : InFlight(d)'
  BY <1>1, <1>2 DEF PriceInv, Begin, InFlight
<1> QED
  BY <1>1, <1>3 DEF PriceInv, Begin, Saved, PricedAtLegRate

LEMMA BeginReverseStep ==
    ASSUME PriceInv, NEW c \in Handlers, NEW r \in Reversals, BeginReverse(c, r)
    PROVE  PriceInv'
<1>1. PICK i \in DOMAIN journal :
        Begin(c, [cmd |-> "Reverse", req |-> r, entries |-> journal[i].entries])
  BY DEF BeginReverse
<1>2. \A d \in Handlers : InFlight(d)'
  BY <1>1 DEF PriceInv, Begin, InFlight
<1> QED
  BY <1>1, <1>2 DEF PriceInv, Begin, Saved, PricedAtLegRate

\* The commit writes the leg at the rate the amount was computed with, whatever
\* has happened to the snapshot since.
LEMMA PostExchangeStep ==
    ASSUME PriceInv, NEW c \in Handlers, PostExchange(c)
    PROVE  PriceInv'
<1> DEFINE r == call[c].req
           q == call[c].quote
           leg == LegOf(r, q, ToAmount(r, q.rate))
<1>1. r \in Exchanges /\ q \in Quote /\ Priced(r, q.rate)
  BY DEF PriceInv, InFlight, PostExchange
<1>2. /\ legs' = Append(legs, leg)
      /\ call' = [call EXCEPT ![c] = Idle]
      /\ fx' = fx
  BY DEF PostExchange, Record
<1>3. /\ leg \in Leg
      /\ leg.biz = r.biz /\ leg.user = r.user
      /\ WithinTolerance(ExpectedToAmount(leg.fromAmount, leg.rate),
                         leg.toAmount, r.tolerance)
  BY <1>1, LegIsPriced
<1> HIDE DEF leg, r, q
<1>4. legs' \in Seq(Leg)
  BY <1>2, <1>3 DEF PriceInv
<1>5. PricedAtLegRate'
  <2> SUFFICES ASSUME NEW i \in DOMAIN legs'
               PROVE  \E x \in Exchanges :
                         /\ x.biz = legs'[i].biz /\ x.user = legs'[i].user
                         /\ WithinTolerance(
                               ExpectedToAmount(legs'[i].fromAmount, legs'[i].rate),
                               legs'[i].toAmount, x.tolerance)
    BY DEF PricedAtLegRate
  <2>1. CASE i \in DOMAIN legs
    BY <2>1, <1>2, <1>3 DEF PriceInv, PricedAtLegRate
  <2>2. CASE i \notin DOMAIN legs
    <3>1. legs'[i] = leg
      BY <2>2, <1>2, <1>3 DEF PriceInv
    <3> QED
      BY <3>1, <1>1, <1>3
  <2> QED
    BY <2>1, <2>2
<1>6. \A d \in Handlers : InFlight(d)'
  BY <1>2 DEF PriceInv, InFlight
<1> QED
  BY <1>2, <1>4, <1>5, <1>6 DEF PriceInv, Saved

\* A saved rate is a rate, also one that replaces another.
LEMMA SaveRateStep ==
    ASSUME PriceInv, NEW q \in Quotes, SaveRate(q)
    PROVE  PriceInv'
<1>1. q.id \in RateIds /\ q.rate \in Rate
  OBVIOUS
<1>2. /\ Saved' \subseteq RateIds
      /\ \A i \in Saved' : fx'[i].rate \in Rate
  <2>1. CASE q.id \in Saved
    <3>1. fx' = [fx EXCEPT ![q.id].rate = q.rate, ![q.id].at = LastQuote + 1]
      BY <2>1 DEF SaveRate
    <3> QED
      BY <3>1, <1>1 DEF PriceInv, Saved
  <2>2. CASE q.id \notin Saved
    <3> DEFINE row == [base |-> q.base, quote |-> q.quote, rate |-> q.rate,
                       at |-> LastQuote + 1]
    <3>1. fx' = [i \in Saved \cup {q.id} |-> IF i = q.id THEN row ELSE fx[i]]
      BY <2>2 DEF SaveRate
    <3>2. row.rate = q.rate
      OBVIOUS
    <3> HIDE DEF row
    <3> QED
      BY <3>1, <3>2, <1>1 DEF PriceInv, Saved
  <2> QED
    BY <2>1, <2>2
<1>3. UNCHANGED <<legs, call>>
  BY DEF SaveRate
<1> QED
  BY <1>2, <1>3 DEF PriceInv, InFlight, PricedAtLegRate

\* The other commands neither take a rate nor write a leg.
LEMMA OtherStep ==
    ASSUME PriceInv, NEW c \in Handlers,
           call' = [call EXCEPT ![c] = Idle] \/ call' = call,
           UNCHANGED <<fx, legs>>
    PROVE  PriceInv'
<1>1. \A d \in Handlers : InFlight(d)'
  BY DEF PriceInv, InFlight
<1> QED
  BY <1>1 DEF PriceInv, Saved, PricedAtLegRate

LEMMA NextInv == PriceInv /\ [Next]_vars => PriceInv'
<1> SUFFICES ASSUME PriceInv, [Next]_vars
             PROVE  PriceInv'
  OBVIOUS
<1>1. ASSUME NEW q \in Quotes, SaveRate(q) PROVE PriceInv'
  BY <1>1, SaveRateStep
<1>2. ASSUME NEW loaded \in Loaded, Reload(loaded) PROVE PriceInv'
  BY <1>2 DEF Reload, PriceInv, InFlight, Saved, PricedAtLegRate
<1>3. ASSUME NEW c \in Handlers, NEW r \in Exchanges, BeginExchange(c, r) PROVE PriceInv'
  BY <1>3, BeginExchangeStep
<1>4. ASSUME NEW c \in Handlers, NEW r \in Reversals, BeginReverse(c, r) PROVE PriceInv'
  BY <1>4, BeginReverseStep
<1>5. ASSUME NEW c \in Handlers, PostExchange(c) PROVE PriceInv'
  BY <1>5, PostExchangeStep
<1>6. ASSUME NEW c \in Handlers, PostReverse(c) PROVE PriceInv'
  BY <1>6, OtherStep DEF PostReverse, Record
<1>7. ASSUME NEW c \in Handlers, Abort(c) PROVE PriceInv'
  BY <1>7, OtherStep DEF Abort
<1>8. CASE UNCHANGED vars
  BY <1>8 DEF vars, PriceInv, InFlight, Saved, PricedAtLegRate
<1> QED
  BY <1>1, <1>2, <1>3, <1>4, <1>5, <1>6, <1>7, <1>8 DEF Next

\* Every exchange is priced at the rate its leg records, within the tolerance
\* its caller allowed, for any feed and any number of overlapping commands.
THEOREM LegsPriced == Spec => []PricedAtLegRate
<1>1. PriceInv => PricedAtLegRate
  BY DEF PriceInv
<1> QED
  BY <1>1, InitInv, NextInv, PTL DEF Spec

-----------------------------------------------------------------------------
(* Entries. *)

LEMMA SignedInt == ASSUME NEW e \in Entry PROVE Signed(e) \in Int
BY DEF Entry, Signed

LEMMA PartInt ==
    ASSUME NEW h, NEW a, NEW e \in Entry
    PROVE  Part(h, a, e) \in Int
BY SignedInt DEF Part

LEMMA NetInt ==
    ASSUME NEW h, NEW a, NEW es \in Seq(Entry)
    PROVE  Net(h, a, es) \in Int
<1> DEFINE w == [k \in DOMAIN es |-> Part(h, a, es[k])]
<1>1. w \in [DOMAIN es -> Int]
  BY PartInt
<1>2. IsFiniteSet(DOMAIN es)
  BY IndexesFinite
<1> HIDE DEF w
<1>3. SumFunction(w) \in Int
  BY <1>1, <1>2, TotalType
<1> QED
  BY <1>3 DEF Net, w

\* The entries of an exchange have the type of entries.
LEMMA EntriesType ==
    ASSUME NEW r \in Exchanges, NEW to \in Nat \ {0}
    PROVE  ExchangeEntries(r, to) \in Seq(Entry)
<1>1. /\ r.user \in Holders /\ r.from \in Assets /\ r.to \in Assets
      /\ r.feeAsset \in Assets /\ r.amount \in Nat \ {0} /\ r.fee \in Nat
      /\ Clearing \in Holders /\ FeeIncome \in Holders
  BY DEF ExchangeRequest, Holders, SystemHolders
<1>2. ASSUME NEW h \in Holders, NEW a \in Assets, NEW n \in Nat \ {0}
      PROVE  In(h, a, n) \in Entry /\ Out(h, a, n) \in Entry
  BY DEF In, Out, Entry
<1>3. CASE r.fee = 0
  BY <1>1, <1>2, <1>3 DEF ExchangeEntries
<1>4. CASE r.fee # 0
  <2> DEFINE sold == Out(r.user, r.from, r.amount)
             charged == Out(r.user, r.feeAsset, r.fee)
             earned == In(FeeIncome, r.feeAsset, r.fee)
             bought == In(r.user, r.to, to)
             taken == In(Clearing, r.from, r.amount)
             given == Out(Clearing, r.to, to)
  <2>1. /\ sold \in Entry /\ charged \in Entry /\ earned \in Entry
        /\ bought \in Entry /\ taken \in Entry /\ given \in Entry
    BY <1>1, <1>2, <1>4
  <2>2. ExchangeEntries(r, to) = <<sold, charged, earned, bought, taken, given>>
    BY <1>4 DEF ExchangeEntries
  <2> HIDE DEF sold, charged, earned, bought, taken, given
  <2> QED
    BY <2>1, <2>2
<1> QED
  BY <1>3, <1>4

LEMMA MirroredType ==
    ASSUME NEW es \in Seq(Entry)
    PROVE  /\ Mirrored(es) \in Seq(Entry) /\ Len(Mirrored(es)) = Len(es)
           /\ \A k \in DOMAIN es :
                 /\ Mirrored(es)[k].holder = es[k].holder
                 /\ Mirrored(es)[k].asset = es[k].asset
                 /\ Mirrored(es)[k].amount = es[k].amount
                 /\ Mirrored(es)[k].dir = IF es[k].dir = "IN" THEN "OUT" ELSE "IN"
<1> DEFINE m(k) == [es[k] EXCEPT !.dir = IF @ = "IN" THEN "OUT" ELSE "IN"]
<1>1. ASSUME NEW k \in DOMAIN es
      PROVE  /\ m(k) \in Entry
             /\ m(k).holder = es[k].holder /\ m(k).asset = es[k].asset
             /\ m(k).amount = es[k].amount
             /\ m(k).dir = IF es[k].dir = "IN" THEN "OUT" ELSE "IN"
  <2> DEFINE x == es[k]
             d == IF x.dir = "IN" THEN "OUT" ELSE "IN"
  <2>1. x \in Entry
    OBVIOUS
  <2>0. d \in {"IN", "OUT"}
    OBVIOUS
  <2>2. m(k) = [x EXCEPT !.dir = d]
    OBVIOUS
  <2> HIDE DEF x, d, m
  <2>3. /\ m(k) \in Entry
        /\ m(k).holder = x.holder /\ m(k).asset = x.asset
        /\ m(k).amount = x.amount /\ m(k).dir = d
    BY <2>0, <2>1, <2>2 DEF Entry
  <2> QED
    BY <2>3 DEF x, d
<1>2. Mirrored(es) = [k \in 1..Len(es) |-> m(k)]
  BY DEF Mirrored
<1> HIDE DEF m
<1> QED
  BY <1>1, <1>2

\* What an exchange changes for a user: the amount sold and the fee go out, the
\* amount bought comes in.
Gain(u, a, r, to) ==
    IF u # r.user THEN 0
    ELSE (IF a = r.to THEN to ELSE 0)
         - (IF a = r.from THEN r.amount ELSE 0)
         - (IF a = r.feeAsset THEN r.fee ELSE 0)

LEMMA PartOfEntry ==
    ASSUME NEW h, NEW a, NEW x, NEW b, NEW n
    PROVE  /\ Part(h, a, In(x, b, n)) = IF h = x /\ a = b THEN n ELSE 0
           /\ Part(h, a, Out(x, b, n)) = IF h = x /\ a = b THEN -n ELSE 0
BY DEF Part, In, Out, Signed

\* An entry the other way round is the same part with the other sign.
LEMMA PartMirrored ==
    ASSUME NEW h, NEW a, NEW e \in Entry, NEW f, f.holder = e.holder,
           f.asset = e.asset, f.amount = e.amount,
           f.dir = IF e.dir = "IN" THEN "OUT" ELSE "IN"
    PROVE  Part(h, a, f) = -Part(h, a, e)
BY DEF Part, Signed, Entry

LEMMA NetOfExchange ==
    ASSUME NEW r \in Exchanges, NEW to \in Nat \ {0}, NEW u \in Users, NEW a \in Assets
    PROVE  /\ Net(u, a, ExchangeEntries(r, to)) = Gain(u, a, r, to)
           /\ Net(u, a, Mirrored(ExchangeEntries(r, to))) = -Gain(u, a, r, to)
<1> DEFINE es == ExchangeEntries(r, to)
           ms == Mirrored(es)
           w == [k \in DOMAIN es |-> Part(u, a, es[k])]
           v == [k \in DOMAIN ms |-> Part(u, a, ms[k])]
<1>1. es \in Seq(Entry)
  BY EntriesType
<1>2. /\ r.amount \in Nat /\ r.fee \in Nat /\ r.from # r.to
      /\ u # Clearing /\ u # FeeIncome
  BY DEF ExchangeRequest, SystemHolders
<1>3. DOMAIN ms = DOMAIN es /\ \A k \in DOMAIN es : w[k] \in Int /\ v[k] = -w[k]
  <2> HIDE DEF es
  <2>1. /\ ms \in Seq(Entry) /\ Len(ms) = Len(es)
        /\ \A k \in DOMAIN es :
              /\ ms[k].holder = es[k].holder /\ ms[k].asset = es[k].asset
              /\ ms[k].amount = es[k].amount
              /\ ms[k].dir = IF es[k].dir = "IN" THEN "OUT" ELSE "IN"
    BY <1>1, MirroredType
  <2>2. DOMAIN ms = DOMAIN es
    BY <1>1, <2>1
  <2> HIDE DEF ms
  <2>3. \A k \in DOMAIN es : es[k] \in Entry
    BY <1>1
  <2>4. \A k \in DOMAIN es : Part(u, a, ms[k]) = -Part(u, a, es[k])
    BY <2>1, <2>3, PartMirrored
  <2> QED
    BY <2>2, <2>3, <2>4, PartInt
<1>4. w \in [DOMAIN es -> Int] /\ v \in [DOMAIN es -> Int]
  <2> HIDE DEF es, ms
  <2>1. w = [k \in DOMAIN es |-> w[k]] /\ v = [k \in DOMAIN es |-> v[k]]
    BY <1>3
  <2> HIDE DEF w, v
  <2>2. \A k \in DOMAIN es : w[k] \in Int /\ v[k] \in Int
    BY <1>3
  <2> QED
    BY <2>1, <2>2
<1>5. CASE r.fee = 0
  <2>1. es = <<Out(r.user, r.from, r.amount), In(r.user, r.to, to),
               In(Clearing, r.from, r.amount), Out(Clearing, r.to, to)>>
    BY <1>5 DEF ExchangeEntries
  <2>2. /\ DOMAIN es = 1..4
        /\ es[1] = Out(r.user, r.from, r.amount) /\ es[2] = In(r.user, r.to, to)
        /\ es[3] = In(Clearing, r.from, r.amount) /\ es[4] = Out(Clearing, r.to, to)
    BY <2>1
  <2> HIDE DEF es, ms
  <2>3. /\ w[1] = IF u = r.user /\ a = r.from THEN -r.amount ELSE 0
        /\ w[2] = IF u = r.user /\ a = r.to THEN to ELSE 0
        /\ w[3] = 0 /\ w[4] = 0
    BY <1>2, <2>2, PartOfEntry
  <2>4. w \in [1..4 -> Int] /\ v \in [1..4 -> Int]
    BY <1>4, <2>2
  <2> HIDE DEF w, v
  <2>5. /\ SumFunction(w) = w[1] + w[2] + w[3] + w[4]
        /\ SumFunction(v) = v[1] + v[2] + v[3] + v[4]
    BY <2>4, SumOfFour
  <2>6. v[1] = -w[1] /\ v[2] = -w[2] /\ v[3] = -w[3] /\ v[4] = -w[4]
    BY <1>3, <2>2
  <2>7. SumFunction(w) = Gain(u, a, r, to) /\ SumFunction(v) = -Gain(u, a, r, to)
    BY <1>2, <1>5, <2>3, <2>5, <2>6 DEF Gain
  <2> QED
    BY <2>7 DEF Net, es, ms, w, v
<1>6. CASE r.fee # 0
  <2>1. es = <<Out(r.user, r.from, r.amount), Out(r.user, r.feeAsset, r.fee),
               In(FeeIncome, r.feeAsset, r.fee), In(r.user, r.to, to),
               In(Clearing, r.from, r.amount), Out(Clearing, r.to, to)>>
    BY <1>6 DEF ExchangeEntries
  <2>2. /\ DOMAIN es = 1..6
        /\ es[1] = Out(r.user, r.from, r.amount)
        /\ es[2] = Out(r.user, r.feeAsset, r.fee)
        /\ es[3] = In(FeeIncome, r.feeAsset, r.fee) /\ es[4] = In(r.user, r.to, to)
        /\ es[5] = In(Clearing, r.from, r.amount) /\ es[6] = Out(Clearing, r.to, to)
    BY <2>1
  <2> HIDE DEF es, ms
  <2>3. /\ w[1] = IF u = r.user /\ a = r.from THEN -r.amount ELSE 0
        /\ w[2] = IF u = r.user /\ a = r.feeAsset THEN -r.fee ELSE 0
        /\ w[4] = IF u = r.user /\ a = r.to THEN to ELSE 0
        /\ w[3] = 0 /\ w[5] = 0 /\ w[6] = 0
    <3>1. /\ w[1] = Part(u, a, es[1]) /\ w[2] = Part(u, a, es[2]) /\ w[3] = Part(u, a, es[3])
          /\ w[4] = Part(u, a, es[4]) /\ w[5] = Part(u, a, es[5]) /\ w[6] = Part(u, a, es[6])
      BY <2>2
    <3> HIDE DEF w
    <3>2. /\ w[1] = IF u = r.user /\ a = r.from THEN -r.amount ELSE 0
          /\ w[2] = IF u = r.user /\ a = r.feeAsset THEN -r.fee ELSE 0
          /\ w[4] = IF u = r.user /\ a = r.to THEN to ELSE 0
      BY <2>2, <3>1, PartOfEntry
    <3>3. w[3] = 0 /\ w[5] = 0 /\ w[6] = 0
      BY <1>2, <2>2, <3>1, PartOfEntry
    <3> QED
      BY <3>2, <3>3
  <2>4. w \in [1..6 -> Int] /\ v \in [1..6 -> Int]
    BY <1>4, <2>2
  <2> HIDE DEF w, v
  <2>5. /\ v[1] = -w[1] /\ v[2] = -w[2] /\ v[3] = -w[3]
        /\ v[4] = -w[4] /\ v[5] = -w[5] /\ v[6] = -w[6]
    BY <1>3, <2>2
  <2>6. SumFunction(w) = w[1] + w[2] + w[4] /\ SumFunction(v) = -(w[1] + w[2] + w[4])
    <3>1. w[1] \in Int /\ w[2] \in Int /\ w[4] \in Int
      BY <1>2, <2>3
    <3>2. w[3] = 0 /\ w[5] = 0 /\ w[6] = 0
      BY <2>3
    <3>3. SumFunction(w) = w[1] + w[2] + w[4]
      BY <2>4, <3>2, SumOfThree
    <3>4. \A x \in Int : -x = 0 - x
      OBVIOUS
    <3>5. v[3] = 0 /\ v[5] = 0 /\ v[6] = 0
      <4>1. w[3] \in Int /\ w[5] \in Int /\ w[6] \in Int
        BY <3>2
      <4>2. v[3] = 0 - w[3] /\ v[5] = 0 - w[5] /\ v[6] = 0 - w[6]
        BY <4>1, <3>4, <2>5, Zenon
      <4> QED
        BY <4>2, <3>2
    <3>6. SumFunction(v) = v[1] + v[2] + v[4]
      BY <2>4, <3>5, SumOfThree
    <3>7. PICK x, y, z \in Int : x = w[1] /\ y = w[2] /\ z = w[4]
      BY <3>1
    <3>8. (-x) + (-y) + (-z) = -(x + y + z)
      OBVIOUS
    <3> QED
      BY <3>3, <3>6, <3>7, <3>8, <2>5, Zenon
  <2>7. w[1] + w[2] + w[4] = Gain(u, a, r, to)
    <3>1. CASE u # r.user
      BY <2>3, <3>1 DEF Gain
    <3>2. CASE u = r.user
      <4> DEFINE sold == IF a = r.from THEN r.amount ELSE 0
                 charged == IF a = r.feeAsset THEN r.fee ELSE 0
                 bought == IF a = r.to THEN to ELSE 0
      <4>1. w[1] = -sold /\ w[2] = -charged /\ w[4] = bought
        BY <2>3, <3>2
      <4>2. sold \in Int /\ charged \in Int /\ bought \in Int
        BY <1>2
      <4>3. Gain(u, a, r, to) = bought - sold - charged
        BY <3>2 DEF Gain
      <4> HIDE DEF sold, charged, bought
      <4> QED
        BY <4>1, <4>2, <4>3
    <3> QED
      BY <3>1, <3>2
  <2> QED
    BY <2>6, <2>7 DEF Net, es, ms, w, v
<1> QED
  BY <1>5, <1>6

-----------------------------------------------------------------------------
(* Vouchers, legs, and what the handlers have read. *)

\* The entries of an exchange whose fee is not in the asset it bought.
Exchanged(es) ==
    \E r \in Exchanges, to \in Nat \ {0} :
        /\ r.fee = 0 \/ r.feeAsset # r.to
        /\ es = ExchangeEntries(r, to)

\* The rate_id of an exchange of r is saved, or came with a rate of r's own.
Traced(id, r) == id \in Saved \cup {None} \/ (r.rate # NoRate /\ r.rateId = id)

\* A handler applies the rules of some configuration, names a rate_id it looked
\* up or was given with a rate, and reverses the entries of an exchange.
Known(c) ==
    call[c] # Idle =>
        /\ call[c].cmd = "Exchange" =>
              call[c].rules \in Loaded /\ Traced(call[c].quote.id, call[c].req)
        /\ call[c].cmd = "Reverse" =>
              call[c].req \in Reversals /\ Exchanged(call[c].entries)

\* The leg an exchange left beside its voucher.
LegFor(l, p) ==
    /\ l.biz = p.biz
    /\ \E r \in Exchanges : r.biz = p.biz /\ Traced(l.rateId, r)
    /\ \E r \in Exchanges :
          /\ p.entries = ExchangeEntries(r, l.toAmount)
          /\ l.from = r.from /\ l.fromAmount = r.amount /\ l.to = r.to
          /\ l.fee = r.fee

HasLeg(i) == \E k \in DOMAIN legs : LegFor(legs[k], journal[i])
HasVoucher(k) ==
    \E i \in DOMAIN journal : journal[i].cmd = "Exchange" /\ journal[i].biz = legs[k].biz

\* Vouchers of exchanges and legs belong together, one to one.
LegsOfVouchers ==
    /\ \A i \in DOMAIN journal : journal[i].cmd = "Exchange" => HasLeg(i)
    /\ \A k \in DOMAIN legs : HasVoucher(k)
    /\ \A k, m \in DOMAIN legs : legs[k].biz = legs[m].biz => k = m

BookInv ==
    /\ avail \in [Holders -> [Assets -> Int]]
    /\ usage \in [Users -> [Assets -> [amount : Nat, count : Nat]]]
    /\ rules \in Loaded
    /\ journal \in Seq(Posting)
    /\ \A c \in Handlers : Known(c)
    /\ \A i \in DOMAIN journal :
          journal[i].cmd = "Exchange" => Exchanged(journal[i].entries)
    /\ LegsOfVouchers

\* What an exchange does when it commits, and what it did that under.
Buys(r, q, to, ls) ==
    /\ r \in Exchanges /\ q \in Quote /\ to \in Nat \ {0} /\ ls \in Loaded
    /\ Traced(q.id, r)
    /\ WithinRules(r.user, r.from, r.amount, ls)
    /\ Covers(r.user, r.from, Need(r)) /\ FeeCovered(r)
    /\ ~KeyTaken("Exchange", r.biz)
    /\ avail' = Updated(ExchangeEntries(r, to))
    /\ journal' = Append(journal,
           [cmd |-> "Exchange", biz |-> r.biz, entries |-> ExchangeEntries(r, to)])
    /\ usage' = Used(r.user, r.from, r.amount, ls)
    /\ LegOf(r, q, to) \in Leg
    /\ legs' = Append(legs, LegOf(r, q, to))
    /\ UNCHANGED <<fx, rules>>

\* What a reversal does when it commits.
Undoes(b, es) ==
    /\ b \in BizNos /\ Exchanged(es)
    /\ \A k \in DOMAIN es : es[k].dir = "IN" =>
          Covers(es[k].holder, es[k].asset, es[k].amount)
    /\ avail' = Updated(Mirrored(es))
    /\ journal' = Append(journal,
           [cmd |-> "Reverse", biz |-> b, entries |-> Mirrored(es)])
    /\ UNCHANGED <<usage, legs, fx, rules>>

\* Every other step leaves the books alone, and no rate_id is lost.
Keeps == UNCHANGED <<avail, usage, journal, legs>> /\ Saved \subseteq Saved'

LEMMA PostExchangeBuys ==
    ASSUME PriceInv, BookInv, NEW c \in Handlers, PostExchange(c)
    PROVE  \E r, q, to, ls : Buys(r, q, to, ls)
<1> DEFINE r == call[c].req
           q == call[c].quote
           to == ToAmount(r, q.rate)
           ls == call[c].rules
<1>1. r \in Exchanges /\ q \in Quote /\ Priced(r, q.rate)
  BY DEF PriceInv, InFlight, PostExchange
<1>2. ls \in Loaded /\ Traced(q.id, r)
  BY DEF BookInv, Known, PostExchange
<1>3. LegOf(r, q, to) \in Leg
  BY <1>1, LegIsPriced
<1>4. to \in Nat \ {0}
  BY <1>3 DEF LegOf, Leg
<1>5. Buys(r, q, to, ls)
  BY <1>1, <1>2, <1>3, <1>4 DEF Buys, PostExchange, Record
<1> QED
  BY <1>5

LEMMA PostReverseUndoes ==
    ASSUME BookInv, NEW c \in Handlers, PostReverse(c)
    PROVE  \E b, es : Undoes(b, es)
<1>1. call[c].req \in Reversals /\ Exchanged(call[c].entries)
  BY DEF BookInv, Known, PostReverse
<1>2. Undoes(call[c].req.biz, call[c].entries)
  BY <1>1 DEF Undoes, PostReverse, Record
<1> QED
  BY <1>2

LEMMA SaveRateKeeps ==
    ASSUME NEW q \in Quotes, SaveRate(q)
    PROVE  Keeps
<1>1. CASE q.id \in Saved
  <2>1. fx' = [fx EXCEPT ![q.id].rate = q.rate, ![q.id].at = LastQuote + 1]
    BY <1>1 DEF SaveRate
  <2> QED
    BY <2>1 DEF Keeps, Saved, SaveRate
<1>2. CASE q.id \notin Saved
  <2>1. Saved' = Saved \cup {q.id}
    BY <1>2 DEF SaveRate, Saved
  <2> QED
    BY <2>1 DEF Keeps, SaveRate
<1> QED
  BY <1>1, <1>2

LEMMA StepOfBooks ==
    ASSUME PriceInv, BookInv, [Next]_vars
    PROVE  \/ Keeps
           \/ \E r, q, to, ls : Buys(r, q, to, ls)
           \/ \E b, es : Undoes(b, es)
<1>1. ASSUME NEW q \in Quotes, SaveRate(q) PROVE Keeps
  BY <1>1, SaveRateKeeps
<1>2. ASSUME NEW loaded \in Loaded, Reload(loaded) PROVE Keeps
  BY <1>2 DEF Reload, Keeps, Saved
<1>3. ASSUME NEW c \in Handlers, NEW r \in Exchanges, BeginExchange(c, r) PROVE Keeps
  BY <1>3 DEF BeginExchange, Begin, Keeps, Saved
<1>4. ASSUME NEW c \in Handlers, NEW r \in Reversals, BeginReverse(c, r) PROVE Keeps
  BY <1>4 DEF BeginReverse, Begin, Keeps, Saved
<1>5. ASSUME NEW c \in Handlers, Abort(c) PROVE Keeps
  BY <1>5 DEF Abort, Keeps, Saved
<1>6. UNCHANGED vars => Keeps
  BY DEF vars, Keeps, Saved
<1> QED
  BY <1>1, <1>2, <1>3, <1>4, <1>5, <1>6, PostExchangeBuys, PostReverseUndoes DEF Next

LEMMA ExchangedType ==
    ASSUME NEW es, Exchanged(es)
    PROVE  es \in Seq(Entry) /\ Mirrored(es) \in Seq(Entry)
<1>1. es \in Seq(Entry)
  BY EntriesType DEF Exchanged
<1> QED
  BY <1>1, MirroredType

LEMMA UpdatedType ==
    ASSUME BookInv, NEW es \in Seq(Entry)
    PROVE  Updated(es) \in [Holders -> [Assets -> Int]]
<1>1. ASSUME NEW h \in Holders, NEW a \in Assets
      PROVE  avail[h][a] + Net(h, a, es) \in Int
  BY NetInt DEF BookInv
<1> QED
  BY <1>1 DEF Updated

LEMMA MatchingFinite ==
    ASSUME NEW a, NEW ls \in Loaded
    PROVE  /\ IsFiniteSet(Matching(a, ls)) /\ Cardinality(Matching(a, ls)) \in Nat
           /\ Matching(a, ls) \subseteq DOMAIN ls
           /\ \A k \in DOMAIN ls : k \in Nat /\ ls[k] \in Rule
<1>1. ls \in Seq(Rule)
  OBVIOUS
<1>2. IsFiniteSet(DOMAIN ls)
  BY <1>1, IndexesFinite
<1>3. Matching(a, ls) \subseteq DOMAIN ls
  BY DEF Matching
<1>4. IsFiniteSet(Matching(a, ls))
  BY <1>2, <1>3, FS_Subset
<1> QED
  BY <1>1, <1>3, <1>4, FS_CardinalityType

LEMMA UsedType ==
    ASSUME BookInv, NEW u \in Users, NEW a \in Assets, NEW n \in Nat, NEW ls \in Loaded
    PROVE  Used(u, a, n, ls) \in [Users -> [Assets -> [amount : Nat, count : Nat]]]
<1> DEFINE k == Cardinality(Matching(a, ls))
           row == [amount |-> usage[u][a].amount + k * n, count |-> usage[u][a].count + k]
<1>1. k \in Nat
  BY MatchingFinite
<1>2. usage[u][a].amount \in Nat /\ usage[u][a].count \in Nat
  BY DEF BookInv
<1>3. k * n \in Nat
  BY <1>1
<1>4. row \in [amount : Nat, count : Nat]
  <2> DEFINE x == usage[u][a]
             kn == k * n
  <2>1. x.amount \in Nat /\ x.count \in Nat /\ kn \in Nat
    BY <1>2, <1>3
  <2> HIDE DEF x, k, kn
  <2>2. x.amount + kn \in Nat /\ x.count + k \in Nat
    BY <2>1, <1>1
  <2> QED
    BY <2>2 DEF x, kn
<1>5. Used(u, a, n, ls) = [usage EXCEPT ![u] = [usage[u] EXCEPT ![a] = row]]
  BY DEF Used, BookInv
<1> HIDE DEF row
<1> QED
  BY <1>4, <1>5 DEF BookInv

LEMMA KnownStep ==
    ASSUME PriceInv, BookInv, [Next]_vars, Saved \subseteq Saved'
    PROVE  \A d \in Handlers : Known(d)'
<1> SUFFICES ASSUME NEW d \in Handlers PROVE Known(d)'
  OBVIOUS
<1>0. Known(d) /\ DOMAIN call = Handlers
  BY DEF BookInv, PriceInv
<1>1. CASE call'[d] = call[d]
  BY <1>0, <1>1 DEF Known, Traced
<1>2. CASE call'[d] = Idle
  BY <1>2 DEF Known
<1>3. ASSUME NEW c \in Handlers, NEW r \in Exchanges, BeginExchange(c, r) PROVE Known(d)'
  <2>1. PICK q \in Quoted(r) :
          Begin(c, [cmd |-> "Exchange", req |-> r, quote |-> q, rules |-> rules])
    BY <1>3 DEF BeginExchange
  <2>2. Traced(q.id, r)
    <3>1. CASE r.rate # NoRate
      BY <3>1 DEF Quoted, Traced
    <3>2. CASE r.rate = NoRate
      BY <3>2 DEF Quoted, Latest, Traced
    <3> QED
      BY <3>1, <3>2
  <2>3. CASE c = d
    BY <2>1, <2>2, <2>3, <1>0 DEF Begin, Known, Traced, BookInv
  <2>4. CASE c # d
    BY <2>1, <2>4, <1>0, <1>1 DEF Begin
  <2> QED
    BY <2>3, <2>4
<1>4. ASSUME NEW c \in Handlers, NEW r \in Reversals, BeginReverse(c, r) PROVE Known(d)'
  <2>1. PICK i \in DOMAIN journal :
          /\ journal[i].cmd # "Reverse"
          /\ Begin(c, [cmd |-> "Reverse", req |-> r, entries |-> journal[i].entries])
    BY <1>4 DEF BeginReverse
  <2>2. Exchanged(journal[i].entries)
    <3>1. journal[i] \in Posting
      BY DEF BookInv
    <3>2. journal[i].cmd = "Exchange"
      BY <2>1, <3>1 DEF Posting
    <3> QED
      BY <3>2 DEF BookInv
  <2>3. CASE c = d
    BY <2>1, <2>2, <2>3, <1>0 DEF Begin, Known
  <2>4. CASE c # d
    BY <2>1, <2>4, <1>0, <1>1 DEF Begin
  <2> QED
    BY <2>3, <2>4
<1>5. ASSUME NEW c \in Handlers, PostExchange(c) \/ PostReverse(c) \/ Abort(c)
      PROVE  Known(d)'
  <2>1. call' = [call EXCEPT ![c] = Idle]
    BY <1>5 DEF PostExchange, PostReverse, Abort, Record
  <2> QED
    BY <2>1, <1>0, <1>1, <1>2
<1>6. ASSUME NEW q \in Quotes, SaveRate(q) PROVE Known(d)'
  BY <1>6, <1>1 DEF SaveRate
<1>7. ASSUME NEW loaded \in Loaded, Reload(loaded) PROVE Known(d)'
  BY <1>7, <1>1 DEF Reload
<1>8. CASE UNCHANGED vars
  BY <1>8, <1>1 DEF vars
<1> QED
  BY <1>3, <1>4, <1>5, <1>6, <1>7, <1>8 DEF Next

\* A sequence with one element more has one index more.
LEMMA OneMore ==
    ASSUME NEW T, NEW s \in Seq(T), NEW x \in T, NEW t, t = Append(s, x)
    PROVE  \E k : /\ t \in Seq(T) /\ IsFiniteSet(DOMAIN s)
                  /\ k \notin DOMAIN s /\ DOMAIN t = DOMAIN s \cup {k}
                  /\ t[k] = x /\ \A i \in DOMAIN s : t[i] = s[i]
<1>1. IsFiniteSet(DOMAIN s)
  BY IndexesFinite
<1>2. LET k == Len(s) + 1
      IN  /\ t \in Seq(T)
          /\ k \notin DOMAIN s /\ DOMAIN t = DOMAIN s \cup {k}
          /\ t[k] = x /\ \A i \in DOMAIN s : t[i] = s[i]
  OBVIOUS
<1> QED
  BY <1>1, <1>2

LEMMA JournalMore ==
    ASSUME BookInv, NEW p \in Posting, journal' = Append(journal, p)
    PROVE  \E k : /\ journal' \in Seq(Posting) /\ IsFiniteSet(DOMAIN journal)
                  /\ k \notin DOMAIN journal
                  /\ DOMAIN journal' = DOMAIN journal \cup {k}
                  /\ journal'[k] = p
                  /\ \A i \in DOMAIN journal : journal'[i] = journal[i]
<1>1. journal \in Seq(Posting)
  BY DEF BookInv
<1>2. IsFiniteSet(DOMAIN journal)
  BY <1>1, IndexesFinite
<1>3. LET k == Len(journal) + 1
      IN  /\ journal' \in Seq(Posting)
          /\ k \notin DOMAIN journal
          /\ DOMAIN journal' = DOMAIN journal \cup {k}
          /\ journal'[k] = p
          /\ \A i \in DOMAIN journal : journal'[i] = journal[i]
  BY <1>1
<1> QED
  BY <1>2, <1>3

LEMMA VoucherType ==
    ASSUME NEW cmd \in {"Exchange", "Reverse"}, NEW b \in BizNos, NEW es \in Seq(Entry)
    PROVE  [cmd |-> cmd, biz |-> b, entries |-> es] \in Posting
BY DEF Posting

LEMMA LegForKept ==
    ASSUME Saved \subseteq Saved', NEW l, NEW p, LegFor(l, p)
    PROVE  LegFor(l, p)'
BY DEF LegFor, Traced

LEMMA KeepsLegs ==
    ASSUME LegsOfVouchers, Keeps
    PROVE  LegsOfVouchers'
<1>1. ASSUME NEW i, HasLeg(i) PROVE HasLeg(i)'
  BY <1>1, LegForKept DEF HasLeg, Keeps, LegFor, Traced
<1>2. ASSUME NEW k, HasVoucher(k) PROVE HasVoucher(k)'
  BY <1>2 DEF HasVoucher, Keeps
<1> QED
  BY <1>1, <1>2 DEF LegsOfVouchers, Keeps

\* What a voucher more changes for those that are there.
LEMMA OldVouchers ==
    ASSUME BookInv, NEW p \in Posting, journal' = Append(journal, p),
           DOMAIN legs \subseteq DOMAIN legs',
           \A m \in DOMAIN legs : legs'[m] = legs[m],
           Saved \subseteq Saved'
    PROVE  \E k :
              /\ journal' \in Seq(Posting) /\ k \notin DOMAIN journal
              /\ DOMAIN journal' = DOMAIN journal \cup {k} /\ journal'[k] = p
              /\ \A i \in DOMAIN journal : journal'[i] = journal[i]
              /\ \A i \in DOMAIN journal : HasLeg(i) => HasLeg(i)'
              /\ \A m \in DOMAIN legs : HasVoucher(m)'
<1>0. journal \in Seq(Posting)
  BY DEF BookInv
<1>1. PICK k : /\ journal' \in Seq(Posting) /\ k \notin DOMAIN journal
               /\ DOMAIN journal' = DOMAIN journal \cup {k} /\ journal'[k] = p
               /\ \A i \in DOMAIN journal : journal'[i] = journal[i]
  BY <1>0, OneMore
<1>2. ASSUME NEW i \in DOMAIN journal, HasLeg(i) PROVE HasLeg(i)'
  <2>1. PICK m \in DOMAIN legs : LegFor(legs[m], journal[i])
    BY <1>2 DEF HasLeg
  <2> DEFINE l == legs[m]
             v == journal[i]
  <2>2. LegFor(l, v) /\ legs'[m] = l /\ journal'[i] = v /\ m \in DOMAIN legs'
    BY <1>1, <2>1
  <2>3. /\ l.biz = v.biz
        /\ \E r \in Exchanges : r.biz = v.biz /\ Traced(l.rateId, r)'
        /\ \E r \in Exchanges :
              /\ v.entries = ExchangeEntries(r, l.toAmount)
              /\ l.from = r.from /\ l.fromAmount = r.amount /\ l.to = r.to
              /\ l.fee = r.fee
    BY <2>2 DEF LegFor, Traced
  <2> HIDE DEF l, v
  <2> QED
    BY <2>2, <2>3 DEF HasLeg, LegFor, Traced
<1>3. ASSUME NEW m \in DOMAIN legs PROVE HasVoucher(m)'
  <2>1. PICK i \in DOMAIN journal :
          journal[i].cmd = "Exchange" /\ journal[i].biz = legs[m].biz
    BY DEF BookInv, LegsOfVouchers, HasVoucher
  <2> QED
    BY <1>1, <2>1 DEF HasVoucher
<1> QED
  BY <1>1, <1>2, <1>3

LEMMA UndoesLegs ==
    ASSUME BookInv, NEW b, NEW es, Undoes(b, es)
    PROVE  LegsOfVouchers'
<1> DEFINE p == [cmd |-> "Reverse", biz |-> b, entries |-> Mirrored(es)]
<1>1. p \in Posting
  BY ExchangedType, VoucherType DEF Undoes
<1>2. journal' = Append(journal, p) /\ legs' = legs /\ Saved \subseteq Saved'
  BY DEF Undoes, Saved
<1>3. p.cmd # "Exchange"
  OBVIOUS
<1> HIDE DEF p
<1>4. PICK k : /\ DOMAIN journal' = DOMAIN journal \cup {k} /\ journal'[k] = p
               /\ \A i \in DOMAIN journal : journal'[i] = journal[i]
               /\ \A i \in DOMAIN journal : HasLeg(i) => HasLeg(i)'
               /\ \A m \in DOMAIN legs : HasVoucher(m)'
  BY <1>1, <1>2, OldVouchers
<1>5. ASSUME NEW i \in DOMAIN journal', journal'[i].cmd = "Exchange" PROVE HasLeg(i)'
  BY <1>3, <1>4, <1>5 DEF BookInv, LegsOfVouchers
<1> QED
  BY <1>2, <1>4, <1>5 DEF BookInv, LegsOfVouchers

LEMMA BuysLegs ==
    ASSUME PriceInv, BookInv, NEW r, NEW q, NEW to, NEW ls, Buys(r, q, to, ls)
    PROVE  LegsOfVouchers'
<1> DEFINE es == ExchangeEntries(r, to)
           p == [cmd |-> "Exchange", biz |-> r.biz, entries |-> es]
           l == LegOf(r, q, to)
<1>1. p \in Posting
  <2>1. es \in Seq(Entry)
    BY EntriesType DEF Buys
  <2>2. r.biz \in BizNos
    BY DEF Buys, BizNos
  <2> HIDE DEF es
  <2> QED
    BY <2>1, <2>2, VoucherType
<1>2. /\ journal' = Append(journal, p) /\ legs' = Append(legs, l) /\ l \in Leg
      /\ Saved = Saved' /\ Traced(q.id, r) /\ r \in Exchanges
      /\ ~KeyTaken("Exchange", r.biz)
  BY DEF Buys, Saved
<1>3. p.cmd = "Exchange" /\ p.biz = r.biz /\ l.biz = r.biz
  BY DEF LegOf
<1>4. LegFor(l, p)
  BY <1>2 DEF LegFor, LegOf
<1> HIDE DEF p, l
<1>5. PICK n : /\ n \notin DOMAIN legs /\ DOMAIN legs' = DOMAIN legs \cup {n}
               /\ legs'[n] = l /\ \A i \in DOMAIN legs : legs'[i] = legs[i]
  <2>1. legs \in Seq(Leg) /\ l \in Leg /\ legs' = Append(legs, l)
    BY <1>2 DEF PriceInv
  <2> QED
    BY <2>1, OneMore
<1>6. PICK k : /\ DOMAIN journal' = DOMAIN journal \cup {k} /\ journal'[k] = p
               /\ \A i \in DOMAIN journal : journal'[i] = journal[i]
               /\ \A i \in DOMAIN journal : HasLeg(i) => HasLeg(i)'
               /\ \A m \in DOMAIN legs : HasVoucher(m)'
  BY <1>1, <1>2, <1>5, OldVouchers
<1>7. HasLeg(k)'
  <2>1. /\ l.biz = p.biz
        /\ \E x \in Exchanges : x.biz = p.biz /\ Traced(l.rateId, x)'
        /\ \E x \in Exchanges :
              /\ p.entries = ExchangeEntries(x, l.toAmount)
              /\ l.from = x.from /\ l.fromAmount = x.amount /\ l.to = x.to
              /\ l.fee = x.fee
    BY <1>2, <1>4 DEF LegFor, Traced
  <2>2. n \in DOMAIN legs' /\ legs'[n] = l /\ journal'[k] = p
    BY <1>5, <1>6
  <2> QED
    BY <2>1, <2>2 DEF HasLeg, LegFor, Traced
<1>8. HasVoucher(n)'
  BY <1>3, <1>5, <1>6 DEF HasVoucher
<1>9. ASSUME NEW m \in DOMAIN legs PROVE legs[m].biz # r.biz
  BY <1>2 DEF BookInv, LegsOfVouchers, HasVoucher, KeyTaken
<1>10. \A j, m \in DOMAIN legs' : legs'[j].biz = legs'[m].biz => j = m
  BY <1>3, <1>5, <1>9 DEF BookInv, LegsOfVouchers
<1>11. \A i \in DOMAIN journal' : journal'[i].cmd = "Exchange" => HasLeg(i)'
  BY <1>6, <1>7 DEF BookInv, LegsOfVouchers
<1>12. \A m \in DOMAIN legs' : HasVoucher(m)'
  BY <1>5, <1>6, <1>8
<1> QED
  BY <1>10, <1>11, <1>12 DEF LegsOfVouchers

LEMMA ExchangedKept ==
    ASSUME BookInv, NEW p \in Posting, journal' = Append(journal, p),
           p.cmd = "Exchange" => Exchanged(p.entries)
    PROVE  /\ journal' \in Seq(Posting)
           /\ \A i \in DOMAIN journal' :
                 journal'[i].cmd = "Exchange" => Exchanged(journal'[i].entries)
<1>0. journal \in Seq(Posting)
  BY DEF BookInv
<1>1. PICK k : /\ journal' \in Seq(Posting)
               /\ DOMAIN journal' = DOMAIN journal \cup {k} /\ journal'[k] = p
               /\ \A i \in DOMAIN journal : journal'[i] = journal[i]
  BY <1>0, OneMore
<1> QED
  BY <1>1 DEF BookInv

LEMMA BookStep == PriceInv /\ BookInv /\ [Next]_vars => BookInv'
<1> SUFFICES ASSUME PriceInv, BookInv, [Next]_vars PROVE BookInv'
  OBVIOUS
<1>1. Saved \subseteq Saved' => \A c \in Handlers : Known(c)'
  BY KnownStep
<1>2. rules' \in Loaded
  <2>1. ASSUME NEW loaded \in Loaded, Reload(loaded) PROVE rules' \in Loaded
    BY <2>1 DEF Reload
  <2>2. ASSUME NEW c \in Handlers, PostExchange(c) \/ PostReverse(c) PROVE rules' \in Loaded
    BY <2>2 DEF PostExchange, PostReverse, Record, BookInv
  <2> QED
    BY <2>1, <2>2
    DEF BookInv, Next, SaveRate, BeginExchange, BeginReverse, Begin, Abort, vars
<1>3. CASE Keeps
  <2>1. LegsOfVouchers'
    BY <1>3, KeepsLegs DEF BookInv
  <2> QED
    BY <1>1, <1>2, <1>3, <2>1 DEF Keeps, BookInv
<1>4. ASSUME NEW r, NEW q, NEW to, NEW ls, Buys(r, q, to, ls) PROVE BookInv'
  <2> DEFINE es == ExchangeEntries(r, to)
             p == [cmd |-> "Exchange", biz |-> r.biz, entries |-> es]
  <2>1. r \in Exchanges /\ to \in Nat \ {0} /\ ls \in Loaded /\ FeeCovered(r)
    BY <1>4 DEF Buys
  <2>2. /\ avail' = Updated(es) /\ journal' = Append(journal, p)
        /\ usage' = Used(r.user, r.from, r.amount, ls) /\ Saved' = Saved
    BY <1>4 DEF Buys, Saved
  <2>3. es \in Seq(Entry)
    BY <2>1, EntriesType
  <2>4. Exchanged(es)
    <3>1. r.fee = 0 \/ r.feeAsset # r.to
      BY <2>1 DEF FeeCovered
    <3> QED
      BY <2>1, <3>1 DEF Exchanged
  <2>5. r.biz \in BizNos /\ r.user \in Users /\ r.from \in Assets /\ r.amount \in Nat
    BY <2>1 DEF BizNos, ExchangeRequest
  <2> HIDE DEF es
  <2>6. p \in Posting /\ p.entries = es
    BY <2>3, <2>5, VoucherType
  <2> HIDE DEF p
  <2>7. avail' \in [Holders -> [Assets -> Int]]
    BY <2>2, <2>3, UpdatedType
  <2>8. usage' \in [Users -> [Assets -> [amount : Nat, count : Nat]]]
    BY <2>1, <2>2, <2>5, UsedType
  <2>9. /\ journal' \in Seq(Posting)
        /\ \A i \in DOMAIN journal' :
              journal'[i].cmd = "Exchange" => Exchanged(journal'[i].entries)
    BY <2>2, <2>4, <2>6, ExchangedKept
  <2>10. LegsOfVouchers'
    BY <1>4, BuysLegs
  <2> QED
    BY <1>1, <1>2, <2>2, <2>7, <2>8, <2>9, <2>10 DEF BookInv
<1>5. ASSUME NEW b, NEW es, Undoes(b, es) PROVE BookInv'
  <2> DEFINE ms == Mirrored(es)
             p == [cmd |-> "Reverse", biz |-> b, entries |-> ms]
  <2>1. /\ avail' = Updated(ms) /\ journal' = Append(journal, p)
        /\ usage' = usage /\ Saved' = Saved /\ b \in BizNos
    BY <1>5 DEF Undoes, Saved
  <2>2. ms \in Seq(Entry)
    BY <1>5, ExchangedType DEF Undoes
  <2> HIDE DEF ms
  <2>3. p \in Posting /\ p.cmd # "Exchange"
    BY <2>1, <2>2, VoucherType
  <2> HIDE DEF p
  <2>4. avail' \in [Holders -> [Assets -> Int]]
    BY <2>1, <2>2, UpdatedType
  <2>5. /\ journal' \in Seq(Posting)
        /\ \A i \in DOMAIN journal' :
              journal'[i].cmd = "Exchange" => Exchanged(journal'[i].entries)
    BY <2>1, <2>3, ExchangedKept
  <2>6. LegsOfVouchers'
    BY <1>5, UndoesLegs
  <2> QED
    BY <1>1, <1>2, <2>1, <2>4, <2>5, <2>6 DEF BookInv
<1> QED
  BY <1>3, <1>4, <1>5, StepOfBooks

LEMMA BookInit == Init => BookInv
<1> SUFFICES ASSUME Init PROVE BookInv
  OBVIOUS
<1>1. avail \in [Holders -> [Assets -> Int]]
  BY DEF Init
<1>2. usage \in [Users -> [Assets -> [amount : Nat, count : Nat]]]
  BY DEF Init
<1>3. journal \in Seq(Posting) /\ DOMAIN journal = {} /\ DOMAIN legs = {}
  BY DEF Init
<1>4. rules \in Loaded /\ \A c \in Handlers : Known(c)
  BY DEF Init, Known
<1> QED
  BY <1>1, <1>2, <1>3, <1>4 DEF BookInv, LegsOfVouchers

LEMMA BooksHold == Spec => [](PriceInv /\ BookInv)
BY InitInv, NextInv, BookInit, BookStep, PTL DEF Spec

-----------------------------------------------------------------------------
(* Balances are their entries. *)

Opened(h, a) == IF h \in Users THEN Opening[h][a] ELSE 0

\* A voucher more adds its entries to the sum and to the balances alike.
LEMMA VoucherAdds ==
    ASSUME BookInv, BalancesFromEntries, NEW p \in Posting,
           journal' = Append(journal, p), avail' = Updated(p.entries)
    PROVE  BalancesFromEntries'
<1>0. journal \in Seq(Posting)
  BY DEF BookInv
<1>1. PICK k : /\ journal' \in Seq(Posting) /\ IsFiniteSet(DOMAIN journal)
               /\ k \notin DOMAIN journal
               /\ DOMAIN journal' = DOMAIN journal \cup {k}
               /\ journal'[k] = p
               /\ \A i \in DOMAIN journal : journal'[i] = journal[i]
  BY JournalMore
<1> SUFFICES ASSUME NEW h \in Holders, NEW a \in Assets
             PROVE  avail'[h][a] = Opened(h, a)
                        + SumFunction([i \in DOMAIN journal' |-> Net(h, a, journal'[i].entries)])
  BY DEF BalancesFromEntries, Opened
<1> DEFINE w == [i \in DOMAIN journal |-> Net(h, a, journal[i].entries)]
           v == [i \in DOMAIN journal' |-> Net(h, a, journal'[i].entries)]
<1>2. \A x \in Posting : Net(h, a, x.entries) \in Int
  BY NetInt DEF Posting
<1>3. (\A i \in DOMAIN journal : journal[i] \in Posting)
      /\ (\A i \in DOMAIN journal' : journal'[i] \in Posting)
  BY <1>0, <1>1
<1>4. /\ IsFiniteSet(DOMAIN w) /\ k \notin DOMAIN w
      /\ DOMAIN v = DOMAIN w \cup {k}
      /\ \A i \in DOMAIN v : v[i] \in Int
      /\ \A i \in DOMAIN w : v[i] = w[i]
  BY <1>1, <1>2, <1>3
<1>10. v[k] = Net(h, a, p.entries)
  BY <1>1
<1>5. avail[h][a] = Opened(h, a) + SumFunction(w)
  BY DEF BalancesFromEntries, Opened
<1>6. avail'[h][a] = avail[h][a] + Net(h, a, p.entries)
  BY DEF Updated
<1> HIDE DEF w, v
<1>7. SumFunction(v) = SumFunction(w) + v[k] /\ SumFunction(w) \in Int
  <2>1. Extends(v, w, k)
    BY <1>4 DEF Extends
  <2> QED
    BY <2>1, TotalAppend
<1>8. v[k] \in Int /\ Opened(h, a) \in Int
  BY <1>4 DEF Opened
<1>9. avail'[h][a] = Opened(h, a) + SumFunction(v)
  BY <1>5, <1>6, <1>7, <1>8, <1>10
<1> QED
  BY <1>9 DEF v

LEMMA BalanceStep ==
    PriceInv /\ BookInv /\ BalancesFromEntries /\ [Next]_vars => BalancesFromEntries'
<1> SUFFICES ASSUME PriceInv, BookInv, BalancesFromEntries, [Next]_vars
             PROVE  BalancesFromEntries'
  OBVIOUS
<1>1. CASE Keeps
  BY <1>1 DEF Keeps, BalancesFromEntries
<1>2. ASSUME NEW r, NEW q, NEW to, NEW ls, Buys(r, q, to, ls)
      PROVE  BalancesFromEntries'
  <2> DEFINE es == ExchangeEntries(r, to)
             p == [cmd |-> "Exchange", biz |-> r.biz, entries |-> es]
  <2>1. es \in Seq(Entry) /\ r.biz \in BizNos
    BY <1>2, EntriesType DEF Buys, BizNos
  <2>2. avail' = Updated(es) /\ journal' = Append(journal, p)
    BY <1>2 DEF Buys
  <2> HIDE DEF es
  <2>3. p \in Posting /\ p.entries = es
    BY <2>1, VoucherType
  <2> HIDE DEF p
  <2> QED
    BY <2>2, <2>3, VoucherAdds
<1>3. ASSUME NEW b, NEW es, Undoes(b, es) PROVE BalancesFromEntries'
  <2> DEFINE ms == Mirrored(es)
             p == [cmd |-> "Reverse", biz |-> b, entries |-> ms]
  <2>1. ms \in Seq(Entry) /\ b \in BizNos
    BY <1>3, ExchangedType DEF Undoes
  <2>2. avail' = Updated(ms) /\ journal' = Append(journal, p)
    BY <1>3 DEF Undoes
  <2> HIDE DEF ms
  <2>3. p \in Posting /\ p.entries = ms
    BY <2>1, VoucherType
  <2> HIDE DEF p
  <2> QED
    BY <2>2, <2>3, VoucherAdds
<1> QED
  BY <1>1, <1>2, <1>3, StepOfBooks

\* Whatever exchanges and reversals overlap, every balance is what it was
\* opened with and the entries of all vouchers.
THEOREM BalancesAreEntries == Spec => []BalancesFromEntries
<1>1. Init => BalancesFromEntries
  <2> SUFFICES ASSUME Init, NEW h \in Holders, NEW a \in Assets
               PROVE  avail[h][a] = Opened(h, a)
                        + SumFunction([i \in DOMAIN journal |-> Net(h, a, journal[i].entries)])
    BY DEF BalancesFromEntries, Opened
  <2>1. DOMAIN journal = {} /\ avail[h][a] = Opened(h, a) /\ Opened(h, a) \in Int
    BY DEF Init, Opened
  <2> DEFINE w == [i \in DOMAIN journal |-> Net(h, a, journal[i].entries)]
  <2>2. DOMAIN w = {}
    BY <2>1
  <2> HIDE DEF w
  <2>3. SumFunction(w) = 0
    BY <2>2, TotalEmpty
  <2>4. avail[h][a] = Opened(h, a) + SumFunction(w)
    BY <2>1, <2>3
  <2> QED
    BY <2>4 DEF w
<1> QED
  BY <1>1, BooksHold, BalanceStep, PTL DEF Spec

-----------------------------------------------------------------------------
(* Users stay covered. *)

\* An exchange takes from a user no more than was found there: the amount and
\* the fee together where both are in one asset, and nothing where it buys.
LEMMA BuysCovered ==
    ASSUME BookInv, UsersCovered, NEW r, NEW q, NEW to, NEW ls, Buys(r, q, to, ls)
    PROVE  UsersCovered'
<1> SUFFICES ASSUME NEW u \in Users, NEW a \in Assets \ Overdraft
             PROVE  avail'[u][a] >= 0
  BY DEF UsersCovered
<1>1. r \in Exchanges /\ to \in Nat \ {0}
  BY DEF Buys
<1>2. /\ r.user \in Users /\ r.from \in Assets /\ r.feeAsset \in Assets
      /\ r.amount \in Nat /\ r.fee \in Nat /\ r.from # r.to
  BY <1>1 DEF ExchangeRequest
<1>3. avail[u][a] \in Int /\ avail[u][a] >= 0 /\ u \in Holders /\ u \notin SystemHolders
  BY DEF BookInv, UsersCovered, Holders
<1>4. avail'[u][a] = avail[u][a] + Gain(u, a, r, to)
  <2>1. avail'[u][a] = avail[u][a] + Net(u, a, ExchangeEntries(r, to))
    BY <1>3 DEF Buys, Updated
  <2> QED
    BY <1>1, <2>1, NetOfExchange
<1>5. u = r.user /\ a = r.from => avail[u][a] >= Need(r)
  BY <1>3 DEF Buys, Covers
<1>6. u = r.user /\ a = r.feeAsset /\ a # r.from =>
          r.fee = 0 \/ (a # r.to /\ avail[u][a] >= r.fee)
  BY <1>3 DEF Buys, FeeCovered, Covers
<1> DEFINE n == avail[u][a]
           g == Gain(u, a, r, to)
<1>7. n + g \in Int /\ n + g >= 0
  <2>1. CASE u # r.user
    <3>1. g = 0
      BY <2>1 DEF Gain
    <3> QED
      BY <1>3, <3>1
  <2>2. CASE u = r.user /\ a = r.from
    <3>1. g = 0 - r.amount - (IF a = r.feeAsset THEN r.fee ELSE 0)
      BY <1>2, <2>2 DEF Gain
    <3>2. n >= r.amount + (IF a = r.feeAsset THEN r.fee ELSE 0)
      BY <1>2, <1>5, <2>2 DEF Need
    <3> DEFINE m == r.amount
               f == IF a = r.feeAsset THEN r.fee ELSE 0
    <3>3. n \in Int /\ m \in Int /\ f \in Int
      BY <1>2, <1>3
    <3>4. g = 0 - m - f /\ n >= m + f
      BY <3>1, <3>2
    <3> HIDE DEF n, g, m, f
    <3> QED
      BY <3>3, <3>4
  <2>3. CASE u = r.user /\ a # r.from /\ a = r.feeAsset
    <3>1. CASE r.fee = 0
      <4>1. g = IF a = r.to THEN to ELSE 0
        BY <1>1, <2>3, <3>1 DEF Gain
      <4>2. g \in Nat
        BY <1>1, <4>1
      <4> HIDE DEF g
      <4> QED
        BY <1>3, <4>2
    <3>2. CASE a # r.to /\ avail[u][a] >= r.fee
      <4>1. g = 0 - r.fee
        BY <1>2, <2>3, <3>2 DEF Gain
      <4> HIDE DEF g
      <4> QED
        BY <1>2, <1>3, <3>2, <4>1
    <3> QED
      BY <1>6, <2>3, <3>1, <3>2
  <2>4. CASE u = r.user /\ a # r.from /\ a # r.feeAsset
    <3>1. g = IF a = r.to THEN to ELSE 0
      BY <1>1, <2>4 DEF Gain
    <3>2. g \in Nat
      BY <1>1, <3>1
    <3> HIDE DEF g
    <3> QED
      BY <1>3, <3>2
  <2> QED
    BY <2>1, <2>2, <2>3, <2>4
<1> QED
  BY <1>4, <1>7

\* A reversal takes back from a user the amount bought, which must be there,
\* and gives back what was sold and the fee.
LEMMA UndoesCovered ==
    ASSUME BookInv, UsersCovered, NEW b, NEW es, Undoes(b, es)
    PROVE  UsersCovered'
<1> SUFFICES ASSUME NEW u \in Users, NEW a \in Assets \ Overdraft
             PROVE  avail'[u][a] >= 0
  BY DEF UsersCovered
<1>1. PICK r \in Exchanges, to \in Nat \ {0} :
        (r.fee = 0 \/ r.feeAsset # r.to) /\ es = ExchangeEntries(r, to)
  BY DEF Undoes, Exchanged
<1>2. /\ r.user \in Users /\ r.amount \in Nat /\ r.fee \in Nat /\ r.from # r.to
  BY DEF ExchangeRequest
<1>3. avail[u][a] \in Int /\ avail[u][a] >= 0 /\ u \in Holders /\ u \notin SystemHolders
  BY DEF BookInv, UsersCovered, Holders
<1>4. avail'[u][a] = avail[u][a] - Gain(u, a, r, to)
  <2>1. avail'[u][a] = avail[u][a] + Net(u, a, Mirrored(ExchangeEntries(r, to)))
    BY <1>1, <1>3 DEF Undoes, Updated
  <2>2. Net(u, a, Mirrored(ExchangeEntries(r, to))) = -Gain(u, a, r, to)
    BY NetOfExchange
  <2>3. Gain(u, a, r, to) \in Int
    <3> DEFINE x == IF a = r.to THEN to ELSE 0
               y == IF a = r.from THEN r.amount ELSE 0
               z == IF a = r.feeAsset THEN r.fee ELSE 0
    <3>1. x \in Int /\ y \in Int /\ z \in Int
      BY <1>2
    <3>2. Gain(u, a, r, to) = IF u # r.user THEN 0 ELSE x - y - z
      BY DEF Gain
    <3> HIDE DEF x, y, z
    <3> QED
      BY <3>1, <3>2
  <2> DEFINE g == Gain(u, a, r, to)
  <2> HIDE DEF g
  <2> QED
    BY <1>3, <2>1, <2>2, <2>3 DEF g
<1>5. u = r.user /\ a = r.to => avail[u][a] >= to
  <2>1. \E k \in DOMAIN es : es[k] = In(r.user, r.to, to)
    <3>1. CASE r.fee = 0
      <4>1. 2 \in DOMAIN es /\ es[2] = In(r.user, r.to, to)
        BY <1>1, <3>1 DEF ExchangeEntries
      <4> QED
        BY <4>1
    <3>2. CASE r.fee # 0
      <4>1. 4 \in DOMAIN es /\ es[4] = In(r.user, r.to, to)
        BY <1>1, <3>2 DEF ExchangeEntries
      <4> QED
        BY <4>1
    <3> QED
      BY <3>1, <3>2
  <2>2. Covers(r.user, r.to, to)
    <3>1. PICK k \in DOMAIN es : es[k] = In(r.user, r.to, to)
      BY <2>1
    <3>2. /\ es[k].dir = "IN" /\ es[k].holder = r.user
          /\ es[k].asset = r.to /\ es[k].amount = to
      BY <3>1 DEF In
    <3>3. es[k].dir = "IN" => Covers(es[k].holder, es[k].asset, es[k].amount)
      BY DEF Undoes
    <3> QED
      BY <3>2, <3>3
  <2> QED
    BY <1>3, <2>2 DEF Covers
<1> DEFINE n == avail[u][a]
           g == Gain(u, a, r, to)
<1>6. n - g >= 0
  <2>1. CASE u # r.user
    <3>1. g = 0
      BY <2>1 DEF Gain
    <3> QED
      BY <1>3, <3>1
  <2>2. CASE u = r.user /\ a = r.to
    <3>1. g = to
      BY <1>1, <1>2, <2>2 DEF Gain
    <3> HIDE DEF g
    <3> QED
      BY <1>3, <1>5, <2>2, <3>1
  <2>3. CASE u = r.user /\ a # r.to
    <3> DEFINE y == IF a = r.from THEN r.amount ELSE 0
               z == IF a = r.feeAsset THEN r.fee ELSE 0
    <3>1. g = 0 - y - z
      BY <2>3 DEF Gain
    <3>2. y \in Nat /\ z \in Nat
      BY <1>2
    <3> HIDE DEF g, y, z
    <3> QED
      BY <1>3, <3>1, <3>2
  <2> QED
    BY <2>1, <2>2, <2>3
<1> QED
  BY <1>4, <1>6

LEMMA CoveredStep == PriceInv /\ BookInv /\ UsersCovered /\ [Next]_vars => UsersCovered'
<1>1. Keeps /\ UsersCovered => UsersCovered'
  BY DEF Keeps, UsersCovered
<1> QED
  BY <1>1, BuysCovered, UndoesCovered, StepOfBooks

\* However exchanges and reversals overlap, no user is left below zero in an
\* asset that may not be overdrawn, by an amount with its fee or by a reversal.
THEOREM UsersStayCovered == Spec => []UsersCovered
<1>1. Init => UsersCovered
  BY DEF Init, UsersCovered, Holders
<1> QED
  BY <1>1, BooksHold, CoveredStep, PTL DEF Spec

-----------------------------------------------------------------------------
(* The level 4 check. *)

LEMMA MaxOfOne == ASSUME NEW k \in Int PROVE Max({k}) = k /\ Min({k}) = k
BY DEF Max, Min

\* A sum over one entry is its amount.
LEMMA SumOfOne ==
    ASSUME NEW es \in Seq(Entry), NEW k \in DOMAIN es
    PROVE  Sum({k}, es) = es[k].amount /\ AssetOf({k}, es) = es[k].asset
<1> DEFINE w == [i \in {k} |-> es[i].amount]
<1>1. es[k].amount \in Int /\ k \in Int
  <2>1. es[k] \in Entry
    OBVIOUS
  <2> QED
    BY <2>1 DEF Entry
<1>2. SumFunctionOnSet(w, {k}) = w[k] + SumFunctionOnSet(w, {k} \ {k})
  <2>1. IsFiniteSet({k}) /\ \A x \in {k} : w[x] \in Int
    BY <1>1, FS_Singleton
  <2> HIDE DEF w
  <2> QED
    BY <2>1, SumRemove
<1>3. {k} \ {k} = {} /\ DOMAIN w = {k} /\ w[k] = es[k].amount
  OBVIOUS
<1>4. SumFunction(w) = es[k].amount
  <2> DEFINE n == es[k].amount
  <2>1. n \in Int /\ w[k] = n
    BY <1>1
  <2> HIDE DEF w, n
  <2>2. SumFunctionOnSet(w, {k}) = n + SumFunctionOnSet(w, {})
    BY <1>2, <1>3, <2>1
  <2>3. SumFunctionOnSet(w, {k}) = n
    BY <2>1, <2>2, SumEmpty
  <2>4. SumFunction(w) = n
    BY <1>3, <2>3 DEF SumFunction
  <2> QED
    BY <2>4 DEF n
<1> QED
  BY <1>1, <1>4, MaxOfOne DEF Sum, AssetOf

\* A job on all assets sees all entries, one on an asset those of that asset.
LEMMA SeenEntries ==
    ASSUME NEW p, NEW a \in Assets
    PROVE  /\ Seen(p, None) = DOMAIN p.entries
           /\ Seen(p, a) = {k \in DOMAIN p.entries : p.entries[k].asset = a}
BY DEF Seen

\* A job on one asset reports every voucher that it sees an entry of.
LEMMA OneSideReported ==
    ASSUME NEW p, NEW a \in Assets
    PROVE  FxTieOut(p, a) <=> Seen(p, a) = {}
<1>1. ASSUME Seen(p, a) # {} PROVE ~FxTieOut(p, a)
  <2> DEFINE assets == {p.entries[k].asset : k \in Seen(p, a)}
  <2>1. assets = {a}
    BY <1>1, SeenEntries
  <2>2. Cardinality({a}) = 1
    BY FS_Singleton
  <2> HIDE DEF assets
  <2>3. ~(Cardinality(assets) >= 2)
    BY <2>1, <2>2
  <2>4. FxTieOut(p, a) => Cardinality(assets) >= 2
    BY <1>1, Zenon DEF FxTieOut, assets
  <2> QED
    BY <2>3, <2>4
<1>2. Seen(p, a) = {} => FxTieOut(p, a)
  BY DEF FxTieOut
<1> QED
  BY <1>1, <1>2

\* The voucher of an exchange without a fee and its leg agree.
LEMMA FeelessAgrees ==
    ASSUME PriceInv, BookInv, NEW i \in DOMAIN journal, Feeless(journal[i]),
           \A r \in Exchanges : r.biz = journal[i].biz => ~Untraced(r)
    PROVE  FxTieOut(journal[i], None)
<1> DEFINE p == journal[i]
           es == p.entries
<1>0. /\ p.cmd = "Exchange" /\ Seen(p, None) = DOMAIN es
      /\ \A k \in DOMAIN es : es[k].holder # FeeIncome
  BY DEF Feeless, Seen
<1>1. PICK m \in DOMAIN legs : LegFor(legs[m], p)
  BY <1>0 DEF BookInv, LegsOfVouchers, HasLeg
<1> DEFINE l == legs[m]
<1>2. l \in Leg /\ m \in Int
  BY DEF PriceInv
<1>3. PICK r \in Exchanges :
        /\ es = ExchangeEntries(r, l.toAmount)
        /\ l.from = r.from /\ l.fromAmount = r.amount /\ l.to = r.to
        /\ l.fee = r.fee
  BY <1>1 DEF LegFor
<1>4. /\ l.toAmount \in Nat \ {0} /\ r.user \in Users /\ r.from # r.to
      /\ r.amount \in Nat /\ r.user # Clearing
  BY <1>2 DEF Leg, ExchangeRequest, SystemHolders
<1>5. es \in Seq(Entry)
  BY <1>3, <1>4, EntriesType
<1>6. r.fee = 0
  <2> SUFFICES ASSUME r.fee # 0 PROVE FALSE
    OBVIOUS
  <2>1. 3 \in DOMAIN es /\ es[3] = In(FeeIncome, r.feeAsset, r.fee)
    BY <1>3 DEF ExchangeEntries
  <2> QED
    BY <1>0, <2>1 DEF In
<1>7. /\ DOMAIN es = {1, 2, 3, 4}
      /\ es[1] = Out(r.user, r.from, r.amount) /\ es[2] = In(r.user, r.to, l.toAmount)
      /\ es[3] = In(Clearing, r.from, r.amount) /\ es[4] = Out(Clearing, r.to, l.toAmount)
  <2>1. es = <<Out(r.user, r.from, r.amount), In(r.user, r.to, l.toAmount),
               In(Clearing, r.from, r.amount), Out(Clearing, r.to, l.toAmount)>>
    BY <1>3, <1>6 DEF ExchangeEntries
  <2> HIDE DEF es, l
  <2> QED
    BY <2>1
<1>8. Clearing \notin Users /\ Clearing # FeeIncome
  BY DEF SystemHolders, Clearing, FeeIncome
<1> HIDE DEF es, l
<1>9. {k \in DOMAIN es : es[k].holder \in Users /\ es[k].dir = "OUT"} = {1}
  BY <1>4, <1>7, <1>8 DEF In, Out
<1>10. {k \in DOMAIN es : es[k].holder \in Users /\ es[k].dir = "IN"} = {2}
  BY <1>4, <1>7, <1>8 DEF In, Out
<1>11. Cardinality({es[k].asset : k \in DOMAIN es}) >= 2
  <2> DEFINE both == {es[k].asset : k \in DOMAIN es}
             one == {r.from}
  <2>1. both = one \cup {r.to}
    BY <1>7 DEF In, Out
  <2>2. IsFiniteSet(one) /\ Cardinality(one) = 1 /\ r.to \notin one
    BY <1>4, FS_Singleton
  <2> HIDE DEF both, one
  <2>3. Cardinality(one \cup {r.to}) = Cardinality(one) + 1
    BY <2>2, FS_AddElement
  <2>4. Cardinality(both) >= 2
    BY <2>1, <2>2, <2>3
  <2> QED
    BY <2>4 DEF both
<1>12. LegsUnder(p.biz) = {m} /\ l = legs[Min({m})]
  <2>1. LegsUnder(p.biz) = {m}
    BY <1>1 DEF LegFor, LegsUnder, BookInv, LegsOfVouchers, l
  <2>2. Min({m}) = m
    BY <1>2, MaxOfOne
  <2> QED
    BY <2>1, <2>2 DEF l
<1>13. /\ Sum({1}, es) = l.fromAmount /\ AssetOf({1}, es) = l.from
       /\ Sum({2}, es) = l.toAmount /\ AssetOf({2}, es) = l.to
  <2>1. /\ Sum({1}, es) = es[1].amount /\ AssetOf({1}, es) = es[1].asset
        /\ Sum({2}, es) = es[2].amount /\ AssetOf({2}, es) = es[2].asset
    BY <1>5, <1>7, SumOfOne
  <2>2. /\ es[1].amount = r.amount /\ es[1].asset = r.from
        /\ es[2].amount = l.toAmount /\ es[2].asset = r.to
    BY <1>7 DEF In, Out
  <2> QED
    BY <1>3, <2>1, <2>2
<1>14. l.fee = 0 /\ (l.rateId # None => l.rateId \in Saved)
  <2>1. PICK x \in Exchanges : x.biz = p.biz /\ Traced(l.rateId, x)
    BY <1>1 DEF LegFor, l
  <2>2. ~Untraced(x)
    BY <2>1
  <2> QED
    BY <1>3, <1>6, <2>1, <2>2 DEF Traced, Untraced
<1> HIDE DEF p
<1>15. FxTieOut(p, None)
  <2> DEFINE seen == Seen(p, None)
             outs == {k \in seen : es[k].holder \in Users /\ es[k].dir = "OUT"}
             ins == {k \in seen : es[k].holder \in Users /\ es[k].dir = "IN"}
             fees == {k \in seen : es[k].holder = FeeIncome /\ es[k].dir = "IN"}
             assets == {es[k].asset : k \in seen}
             found == LegsUnder(p.biz)
             leg == legs[Min(found)]
             Fee == /\ Sum(fees, es) = leg.fee
                    /\ AssetOf(fees, es) = leg.feeAsset
  <2>1. /\ outs = {1} /\ ins = {2} /\ Cardinality(assets) >= 2 /\ found = {m}
    BY <1>0, <1>9, <1>10, <1>11, <1>12
  <2>2. leg = l
    BY <1>12
  <2>3. /\ outs # {} /\ ins # {}
        /\ Cardinality(assets) >= 2
        /\ found # {}
        /\ Sum(outs, es) = leg.fromAmount /\ AssetOf(outs, es) = leg.from
        /\ Sum(ins, es) = leg.toAmount /\ AssetOf(ins, es) = leg.to
        /\ leg.fee > 0 => Fee
        /\ leg.rateId # None => leg.rateId \in Saved
        => FxTieOut(p, None)
    BY Zenon DEF FxTieOut, es
  <2> HIDE DEF seen, outs, ins, fees, assets, found, leg, Fee
  <2>4. ~(leg.fee > 0)
    BY <1>14, <2>2
  <2> QED
    BY <1>13, <1>14, <2>1, <2>2, <2>3, <2>4
<1> QED
  BY <1>15 DEF p

\* Level 4 reports an exchange without a fee when its rate_id cannot be found,
\* which takes a request with a rate of its own, and to jobs on one of its
\* assets, and in no other case, for any requests, rates and interleavings.
THEOREM FeelessExchangesTieOut == Spec => []FeelessTieOut
<1>1. PriceInv /\ BookInv => FeelessTieOut
  BY FeelessAgrees, OneSideReported DEF FeelessTieOut
<1> QED
  BY <1>1, BooksHold, PTL

-----------------------------------------------------------------------------
(* Usage and daily amounts. *)

LEMMA Product ==
    ASSUME NEW x \in Nat, NEW y \in Nat, NEW m \in Nat, x <= y
    PROVE  x * m \in Nat /\ y * m \in Nat /\ x * m <= y * m
<1>1. PICK z \in Nat : y = x + z
  <2>1. y - x \in Nat /\ y = x + (y - x)
    OBVIOUS
  <2> QED
    BY <2>1
<1>2. z * m \in Nat /\ x * m \in Nat /\ y * m \in Nat
  OBVIOUS
<1>3. y * m = x * m + z * m
  BY <1>1
<1> QED
  BY <1>2, <1>3

\* Usage stays above what is sold times a number of rules that is not larger,
\* and below it times a number that is not smaller.
LEMMA UsageAbove ==
    ASSUME NEW sold \in Nat, NEW n \in Nat, NEW used \in Nat, NEW k \in Nat,
           NEW x \in Nat, NEW y \in Nat, used >= x * sold, y <= x, y <= k
    PROVE  used + k * n >= y * (sold + n)
<1> DEFINE a == y * sold
           b == y * n
           c == x * sold
           d == k * n
<1>1. a \in Nat /\ b \in Nat /\ c \in Nat /\ d \in Nat /\ a <= c /\ b <= d
  BY Product
<1>2. y * (sold + n) = a + b
  OBVIOUS
<1> HIDE DEF a, b, c, d
<1>3. used >= c
  BY DEF c
<1>4. used + d >= a + b
  BY <1>1, <1>3
<1> QED
  BY <1>2, <1>4 DEF d

LEMMA UsageBelow ==
    ASSUME NEW sold \in Nat, NEW n \in Nat, NEW used \in Nat, NEW k \in Nat,
           NEW x \in Nat, NEW y \in Nat, used <= x * sold, x <= y, k <= y
    PROVE  used + k * n <= y * (sold + n)
<1> DEFINE a == y * sold
           b == y * n
           c == x * sold
           d == k * n
<1>1. a \in Nat /\ b \in Nat /\ c \in Nat /\ d \in Nat /\ c <= a /\ d <= b
  BY Product
<1>2. y * (sold + n) = a + b
  OBVIOUS
<1> HIDE DEF a, b, c, d
<1>3. used <= c
  BY DEF c
<1>4. used + d <= a + b
  BY <1>1, <1>3
<1> QED
  BY <1>2, <1>4 DEF d

LEMMA SoldFinite ==
    ASSUME PriceInv, NEW u, NEW a
    PROVE  /\ IsFiniteSet(Sold(u, a)) /\ Cardinality(Sold(u, a)) \in Nat
           /\ Sold(u, a) \subseteq DOMAIN legs
           /\ \A i \in DOMAIN legs : legs[i].fromAmount \in Nat
<1>1. legs \in Seq(Leg)
  BY DEF PriceInv
<1>2. IsFiniteSet(DOMAIN legs)
  BY <1>1, IndexesFinite
<1>3. Sold(u, a) \subseteq DOMAIN legs
  BY DEF Sold
<1>4. IsFiniteSet(Sold(u, a))
  BY <1>2, <1>3, FS_Subset
<1>5. \A i \in DOMAIN legs : legs[i] \in Leg
  BY <1>1
<1> QED
  BY <1>3, <1>4, <1>5, FS_CardinalityType DEF Leg

\* One leg more is one sale more for its user and asset, and none for others.
LEMMA SoldMore ==
    ASSUME PriceInv, NEW l \in Leg, legs' = Append(legs, l), NEW u, NEW a
    PROVE  IF l.user = u /\ l.from = a
           THEN /\ SoldAmount(u, a)' = SoldAmount(u, a) + l.fromAmount
                /\ Cardinality(Sold(u, a)') = Cardinality(Sold(u, a)) + 1
           ELSE /\ SoldAmount(u, a)' = SoldAmount(u, a)
                /\ Sold(u, a)' = Sold(u, a)
<1>0. legs \in Seq(Leg)
  BY DEF PriceInv
<1>1. PICK k : /\ k \notin DOMAIN legs /\ DOMAIN legs' = DOMAIN legs \cup {k}
               /\ legs'[k] = l /\ \A i \in DOMAIN legs : legs'[i] = legs[i]
  BY <1>0, OneMore
<1>2. /\ IsFiniteSet(Sold(u, a)) /\ Sold(u, a) \subseteq DOMAIN legs
      /\ \A i \in DOMAIN legs : legs[i].fromAmount \in Nat
  BY SoldFinite
<1>3. l.fromAmount \in Nat
  BY DEF Leg
<1> DEFINE w == [i \in Sold(u, a) |-> legs[i].fromAmount]
           v == [i \in Sold(u, a)' |-> legs'[i].fromAmount]
<1>4. SoldAmount(u, a) = SumFunction(w) /\ SoldAmount(u, a)' = SumFunction(v)
  BY DEF SoldAmount
<1>5. CASE l.user = u /\ l.from = a
  <2>1. Sold(u, a)' = Sold(u, a) \cup {k} /\ k \notin Sold(u, a)
    BY <1>1, <1>2, <1>5 DEF Sold
  <2>2. /\ IsFiniteSet(DOMAIN w) /\ k \notin DOMAIN w
        /\ DOMAIN v = DOMAIN w \cup {k}
        /\ \A i \in DOMAIN w : v[i] = w[i]
        /\ v[k] = l.fromAmount
    BY <1>1, <1>2, <2>1
  <2>3. \A i \in DOMAIN v : v[i] \in Int
    BY <1>1, <1>2, <1>3, <2>1
  <2> HIDE DEF w, v
  <2>4. SumFunction(v) = SumFunction(w) + v[k]
    <3>1. Extends(v, w, k)
      BY <2>2, <2>3 DEF Extends
    <3> QED
      BY <3>1, TotalAppend
  <2>5. Cardinality(Sold(u, a) \cup {k}) = Cardinality(Sold(u, a)) + 1
    BY <1>2, <2>1, FS_AddElement
  <2> QED
    BY <1>4, <1>5, <2>1, <2>2, <2>4, <2>5
<1>6. CASE ~(l.user = u /\ l.from = a)
  <2>1. Sold(u, a)' = Sold(u, a)
    BY <1>1, <1>2, <1>6 DEF Sold
  <2>2. v = w
    BY <1>1, <1>2, <2>1
  <2> QED
    BY <1>4, <1>6, <2>1, <2>2
<1> QED
  BY <1>5, <1>6

\* The rules that match an asset in some configuration.
RuleCounts(a) == {Cardinality(Matching(a, l)) : l \in Loaded}

\* The usage row of u in a counts what u has sold of a.
Counted(u, a) ==
    /\ SoldAmount(u, a) \in Nat
    /\ \E least, most \in RuleCounts(a) :
          /\ usage[u][a].amount >= least * SoldAmount(u, a)
          /\ usage[u][a].amount <= most * SoldAmount(u, a)
          /\ usage[u][a].count >= least * Cardinality(Sold(u, a))
          /\ usage[u][a].count <= most * Cardinality(Sold(u, a))

UsageInv == \A u \in Users, a \in Assets : Counted(u, a)

LEMMA RuleCountsNat == \A a : RuleCounts(a) \subseteq Nat
BY MatchingFinite DEF RuleCounts

\* The usage that a sale of n under k rules makes of what was used before.
LEMMA CountedMore ==
    ASSUME NEW a, NEW k \in RuleCounts(a), NEW n \in Nat,
           NEW sold \in Nat, NEW times \in Nat, NEW amount \in Nat, NEW count \in Nat,
           NEW least \in RuleCounts(a), NEW most \in RuleCounts(a),
           amount >= least * sold, amount <= most * sold,
           count >= least * times, count <= most * times
    PROVE  \E lo, hi \in RuleCounts(a) :
              /\ amount + k * n >= lo * (sold + n) /\ amount + k * n <= hi * (sold + n)
              /\ count + k >= lo * (times + 1) /\ count + k <= hi * (times + 1)
<1>1. k \in Nat /\ least \in Nat /\ most \in Nat
  BY RuleCountsNat
<1>2. k * 1 = k
  BY <1>1
<1>3. ASSUME NEW lo \in Nat, lo <= least, lo <= k
      PROVE  amount + k * n >= lo * (sold + n) /\ count + k >= lo * (times + 1)
  <2>1. amount + k * n >= lo * (sold + n)
    BY <1>1, <1>3, UsageAbove
  <2>2. count + k * 1 >= lo * (times + 1)
    BY <1>1, <1>3, UsageAbove
  <2> QED
    BY <1>2, <2>1, <2>2
<1>4. ASSUME NEW hi \in Nat, most <= hi, k <= hi
      PROVE  amount + k * n <= hi * (sold + n) /\ count + k <= hi * (times + 1)
  <2>1. amount + k * n <= hi * (sold + n)
    BY <1>1, <1>4, UsageBelow
  <2>2. count + k * 1 <= hi * (times + 1)
    BY <1>1, <1>4, UsageBelow
  <2> QED
    BY <1>2, <2>1, <2>2
<1>5. PICK lo \in RuleCounts(a) : lo \in Nat /\ lo <= least /\ lo <= k
  <2>1. CASE least <= k
    BY <1>1, <2>1
  <2>2. CASE k <= least
    BY <1>1, <2>2
  <2> QED
    BY <1>1, <2>1, <2>2
<1>6. PICK hi \in RuleCounts(a) : hi \in Nat /\ most <= hi /\ k <= hi
  <2>1. CASE most <= k
    BY <1>1, <2>1
  <2>2. CASE k <= most
    BY <1>1, <2>2
  <2> QED
    BY <1>1, <2>1, <2>2
<1> QED
  BY <1>3, <1>4, <1>5, <1>6

LEMMA BuysCounted ==
    ASSUME PriceInv, BookInv, UsageInv,
           NEW r, NEW q, NEW to, NEW ls, Buys(r, q, to, ls)
    PROVE  UsageInv'
<1> SUFFICES ASSUME NEW u \in Users, NEW a \in Assets PROVE Counted(u, a)'
  BY DEF UsageInv
<1> DEFINE l == LegOf(r, q, to)
           k == Cardinality(Matching(r.from, ls))
           row == usage[u][a]
<1>1. /\ r.user \in Users /\ r.from \in Assets /\ r.amount \in Nat /\ ls \in Loaded
  BY DEF Buys, ExchangeRequest
<1>2. /\ l \in Leg /\ legs' = Append(legs, l)
      /\ l.user = r.user /\ l.from = r.from /\ l.fromAmount = r.amount
  BY DEF Buys, LegOf
<1>3. Counted(u, a) /\ row.amount \in Nat /\ row.count \in Nat
  BY DEF UsageInv, BookInv
<1>4. Cardinality(Sold(u, a)) \in Nat
  BY SoldFinite
<1>5. usage' = [usage EXCEPT ![r.user][r.from] =
                    [amount |-> @.amount + k * r.amount, count |-> @.count + k]]
  BY DEF Buys, Used
<1> HIDE DEF l
<1>6. CASE r.user = u /\ r.from = a
  <2>1. /\ SoldAmount(u, a)' = SoldAmount(u, a) + r.amount
        /\ Cardinality(Sold(u, a)') = Cardinality(Sold(u, a)) + 1
    BY <1>2, <1>6, SoldMore
  <2>2. /\ usage'[u][a].amount = row.amount + k * r.amount
        /\ usage'[u][a].count = row.count + k
    BY <1>1, <1>5, <1>6 DEF BookInv
  <2>3. k \in RuleCounts(a)
    BY <1>1, <1>6 DEF RuleCounts
  <2>4. PICK least, most \in RuleCounts(a) :
          /\ row.amount >= least * SoldAmount(u, a)
          /\ row.amount <= most * SoldAmount(u, a)
          /\ row.count >= least * Cardinality(Sold(u, a))
          /\ row.count <= most * Cardinality(Sold(u, a))
    BY <1>3 DEF Counted
  <2> DEFINE sold == SoldAmount(u, a)
             times == Cardinality(Sold(u, a))
             n == r.amount
             amount == row.amount
             count == row.count
  <2>5. sold \in Nat /\ times \in Nat /\ n \in Nat /\ amount \in Nat /\ count \in Nat
    BY <1>1, <1>3, <1>4 DEF Counted
  <2>6. /\ SoldAmount(u, a)' = sold + n /\ Cardinality(Sold(u, a)') = times + 1
        /\ usage'[u][a].amount = amount + k * n /\ usage'[u][a].count = count + k
        /\ amount >= least * sold /\ amount <= most * sold
        /\ count >= least * times /\ count <= most * times
    BY <2>1, <2>2, <2>4
  <2> HIDE DEF sold, times, n, amount, count, k
  <2>7. \E lo, hi \in RuleCounts(a) :
              /\ amount + k * n >= lo * (sold + n) /\ amount + k * n <= hi * (sold + n)
              /\ count + k >= lo * (times + 1) /\ count + k <= hi * (times + 1)
    BY <2>3, <2>5, <2>6, CountedMore
  <2>8. sold + n \in Nat
    BY <2>5
  <2>9. PICK lo \in RuleCounts(a), hi \in RuleCounts(a) :
              /\ amount + k * n >= lo * (sold + n) /\ amount + k * n <= hi * (sold + n)
              /\ count + k >= lo * (times + 1) /\ count + k <= hi * (times + 1)
    BY <2>7
  <2>10. /\ usage'[u][a].amount >= lo * SoldAmount(u, a)'
         /\ usage'[u][a].amount <= hi * SoldAmount(u, a)'
         /\ usage'[u][a].count >= lo * Cardinality(Sold(u, a)')
         /\ usage'[u][a].count <= hi * Cardinality(Sold(u, a)')
    BY <2>6, <2>9
  <2>11. SoldAmount(u, a)' \in Nat
    BY <2>6, <2>8
  <2> QED
    BY <2>10, <2>11 DEF Counted, RuleCounts
<1>7. CASE ~(r.user = u /\ r.from = a)
  <2>1. SoldAmount(u, a)' = SoldAmount(u, a) /\ Sold(u, a)' = Sold(u, a)
    BY <1>2, <1>7, SoldMore
  <2>2. usage'[u][a] = usage[u][a]
    BY <1>1, <1>5, <1>7 DEF BookInv
  <2> QED
    BY <1>3, <2>1, <2>2 DEF Counted, RuleCounts
<1> QED
  BY <1>6, <1>7

LEMMA SoldSame ==
    ASSUME legs' = legs, NEW u, NEW a
    PROVE  SoldAmount(u, a)' = SoldAmount(u, a) /\ Sold(u, a)' = Sold(u, a)
<1>1. Sold(u, a)' = Sold(u, a)
  BY DEF Sold
<1>2. SoldAmount(u, a) = SumFunction([i \in Sold(u, a) |-> legs[i].fromAmount])
  BY DEF SoldAmount
<1>3. SoldAmount(u, a)' = SumFunction([i \in Sold(u, a)' |-> legs'[i].fromAmount])
  BY DEF SoldAmount
<1> QED
  BY <1>1, <1>2, <1>3

LEMMA CountedStep == PriceInv /\ BookInv /\ UsageInv /\ [Next]_vars => UsageInv'
<1> SUFFICES ASSUME PriceInv, BookInv, UsageInv, [Next]_vars PROVE UsageInv'
  OBVIOUS
<1>1. ASSUME UNCHANGED <<usage, legs>> PROVE UsageInv'
  <2> SUFFICES ASSUME NEW u \in Users, NEW a \in Assets PROVE Counted(u, a)'
    BY DEF UsageInv
  <2>1. Counted(u, a)
    BY DEF UsageInv
  <2>2. SoldAmount(u, a)' = SoldAmount(u, a) /\ Sold(u, a)' = Sold(u, a)
    BY <1>1, SoldSame
  <2> QED
    BY <1>1, <2>1, <2>2 DEF Counted, RuleCounts
<1>2. CASE Keeps
  BY <1>1, <1>2 DEF Keeps
<1>3. ASSUME NEW b, NEW es, Undoes(b, es) PROVE UsageInv'
  BY <1>1, <1>3 DEF Undoes
<1> QED
  BY <1>2, <1>3, BuysCounted, StepOfBooks

LEMMA CountedInit == Init => UsageInv
<1> SUFFICES ASSUME Init, NEW u \in Users, NEW a \in Assets PROVE Counted(u, a)
  BY DEF UsageInv
<1>1. Sold(u, a) = {} /\ usage[u][a].amount = 0 /\ usage[u][a].count = 0
  BY DEF Init, Sold
<1>2. SoldAmount(u, a) = 0
  <2> DEFINE w == [i \in Sold(u, a) |-> legs[i].fromAmount]
  <2>1. DOMAIN w = {}
    BY <1>1
  <2> HIDE DEF w
  <2>2. SumFunction(w) = 0
    BY <2>1, TotalEmpty
  <2> QED
    BY <2>2 DEF SoldAmount, w
<1>3. Cardinality(Sold(u, a)) = 0
  BY <1>1, FS_EmptySet
<1>4. PICK k \in RuleCounts(a) : k \in Nat
  <2>1. PICK l \in Loaded : Cardinality(Matching(a, l)) \in RuleCounts(a)
    BY DEF RuleCounts
  <2> QED
    BY <2>1, RuleCountsNat
<1>5. k * 0 = 0
  BY <1>4
<1>6. /\ usage[u][a].amount >= k * SoldAmount(u, a)
      /\ usage[u][a].amount <= k * SoldAmount(u, a)
      /\ usage[u][a].count >= k * Cardinality(Sold(u, a))
      /\ usage[u][a].count <= k * Cardinality(Sold(u, a))
  BY <1>1, <1>2, <1>3, <1>5
<1> QED
  BY <1>2, <1>4, <1>6 DEF Counted

\* The usage rows count the exchanges that were posted, once for each rule, and
\* nothing of those that were refused or failed.
THEOREM UsageCountsPosted == Spec => []UsageOfPosted
<1>1. UsageInv => UsageOfPosted
  BY DEF UsageInv, Counted, UsageOfPosted, RuleCounts
<1> QED
  BY <1>1, BooksHold, CountedInit, CountedStep, PTL DEF Spec

\* A sale that the rules with a daily amount let through leaves the day's sales
\* within that amount.
LEMMA BuysWithin ==
    ASSUME PriceInv, BookInv, UsageInv, WithinDailyAmount,
           NEW r, NEW q, NEW to, NEW ls, Buys(r, q, to, ls)
    PROVE  WithinDailyAmount'
<1> SUFFICES ASSUME NEW u \in Users, NEW a \in Assets,
                    \A l \in Loaded : DailyAmounts(a, l) # {}
             PROVE  \E l \in Loaded : \E d \in DailyAmounts(a, l) : SoldAmount(u, a)' <= d
  BY DEF WithinDailyAmount
<1> DEFINE l == LegOf(r, q, to)
           m == Matching(a, ls)
<1>1. /\ r.user \in Users /\ r.from \in Assets /\ r.amount \in Nat /\ ls \in Loaded
  BY DEF Buys, ExchangeRequest
<1>2. /\ l \in Leg /\ legs' = Append(legs, l)
      /\ l.user = r.user /\ l.from = r.from /\ l.fromAmount = r.amount
  BY DEF Buys, LegOf
<1> HIDE DEF l
<1>3. CASE r.user = u /\ r.from = a
  <2>1. SoldAmount(u, a)' = SoldAmount(u, a) + r.amount /\ SoldAmount(u, a) \in Nat
    BY <1>2, <1>3, SoldMore DEF UsageInv, Counted
  <2>2. PICK k \in m : ls[k].dailyAmount # 0
    BY <1>1 DEF DailyAmounts
  <2>3. /\ IsFiniteSet(m) /\ k \in Nat /\ ls[k].dailyAmount \in Nat
        /\ \A j \in m : j \in Nat
    BY <1>1, <2>2, MatchingFinite DEF Rule
  <2>4. usage[u][a].amount + Applied(k, m) * r.amount <= ls[k].dailyAmount
    BY <1>3, <2>2, <2>3 DEF Buys, WithinRules
  <2>5. Applied(k, m) \in Nat /\ Applied(k, m) >= 1
    <3> DEFINE t == {j \in m : j <= k}
    <3>1. IsFiniteSet(t) /\ k \in t
      BY <2>2, <2>3, FS_Subset
    <3> HIDE DEF t
    <3>2. Cardinality(t) \in Nat /\ Cardinality(t) # 0
      BY <3>1, FS_CardinalityType, FS_EmptySet
    <3>3. Cardinality(t) >= 1
      BY <3>2
    <3> QED
      BY <3>2, <3>3 DEF Applied, t
  <2>6. Applied(k, m) * r.amount \in Nat /\ Applied(k, m) * r.amount >= r.amount
    <3>1. 1 * r.amount <= Applied(k, m) * r.amount /\ Applied(k, m) * r.amount \in Nat
      BY <1>1, <2>5, Product
    <3> QED
      BY <1>1, <3>1
  <2>7. usage[u][a].amount \in Nat /\ usage[u][a].amount >= SoldAmount(u, a)
    <3>1. PICK least \in RuleCounts(a) :
            usage[u][a].amount >= least * SoldAmount(u, a)
      BY DEF UsageInv, Counted
    <3>2. least \in Nat /\ least >= 1
      <4>1. PICK x \in Loaded : least = Cardinality(Matching(a, x))
        BY DEF RuleCounts
      <4>2. Matching(a, x) # {}
        BY <4>1 DEF DailyAmounts
      <4>3. IsFiniteSet(Matching(a, x)) /\ Cardinality(Matching(a, x)) \in Nat
        BY <4>1, MatchingFinite
      <4>4. Cardinality(Matching(a, x)) # 0
        BY <4>2, <4>3, FS_EmptySet
      <4> QED
        BY <4>1, <4>3, <4>4
    <3>3. 1 * SoldAmount(u, a) <= least * SoldAmount(u, a)
          /\ least * SoldAmount(u, a) \in Nat
      BY <2>1, <3>2, Product
    <3>4. usage[u][a].amount \in Nat
      BY DEF BookInv
    <3> QED
      BY <2>1, <3>1, <3>3, <3>4
  <2>8. ls[k].dailyAmount \in DailyAmounts(a, ls)
    BY <2>2 DEF DailyAmounts
  <2> DEFINE x == usage[u][a].amount
             y == Applied(k, m) * r.amount
             z == ls[k].dailyAmount
             sold == SoldAmount(u, a)
  <2>9. sold + r.amount <= z
    <3>1. x \in Nat /\ y \in Nat /\ z \in Nat /\ sold \in Nat
      BY <2>1, <2>3, <2>6, <2>7
    <3>2. x + y <= z /\ y >= r.amount /\ x >= sold
      BY <2>4, <2>6, <2>7
    <3> HIDE DEF x, y, z, sold
    <3> QED
      BY <1>1, <3>1, <3>2
  <2>10. SoldAmount(u, a)' <= z
    BY <2>1, <2>9
  <2> HIDE DEF z
  <2>11. z \in DailyAmounts(a, ls)
    BY <2>8 DEF z
  <2>12. \E d \in DailyAmounts(a, ls) : SoldAmount(u, a)' <= d
    BY <2>10, <2>11, Zenon
  <2> QED
    BY <1>1, <2>12, Zenon
<1>4. CASE ~(r.user = u /\ r.from = a)
  <2>1. SoldAmount(u, a)' = SoldAmount(u, a)
    BY <1>2, <1>4, SoldMore
  <2>2. \E x \in Loaded : \E d \in DailyAmounts(a, x) : SoldAmount(u, a) <= d
    BY DEF WithinDailyAmount
  <2> QED
    BY <2>1, <2>2
<1> QED
  BY <1>3, <1>4

LEMMA WithinStep ==
    PriceInv /\ BookInv /\ UsageInv /\ WithinDailyAmount /\ [Next]_vars
        => WithinDailyAmount'
<1> SUFFICES ASSUME PriceInv, BookInv, UsageInv, WithinDailyAmount, [Next]_vars
             PROVE  WithinDailyAmount'
  OBVIOUS
<1>1. ASSUME legs' = legs PROVE WithinDailyAmount'
  <2>1. \A u, a : SoldAmount(u, a)' = SoldAmount(u, a)
    BY <1>1, SoldSame
  <2> QED
    BY <2>1 DEF WithinDailyAmount
<1> QED
  BY <1>1, BuysWithin, StepOfBooks DEF Keeps, Undoes

\* Where every configuration limits an asset by the day, nobody sells more of it
\* in the day than some configuration allows, for any rules, however often they
\* are reloaded and however exchanges overlap.
THEOREM SalesWithinDailyAmount == Spec => []WithinDailyAmount
<1>1. Init /\ UsageInv => WithinDailyAmount
  <2> SUFFICES ASSUME Init, NEW u \in Users, NEW a \in Assets,
                      \A l \in Loaded : DailyAmounts(a, l) # {}
               PROVE  \E l \in Loaded : \E d \in DailyAmounts(a, l) : SoldAmount(u, a) <= d
    BY DEF WithinDailyAmount
  <2>1. SoldAmount(u, a) = 0
    <3> DEFINE w == [i \in Sold(u, a) |-> legs[i].fromAmount]
    <3>1. DOMAIN w = {}
      BY DEF Init, Sold
    <3> HIDE DEF w
    <3>2. SumFunction(w) = 0
      BY <3>1, TotalEmpty
    <3> QED
      BY <3>2 DEF SoldAmount, w
  <2>2. PICK l \in Loaded : \E d \in DailyAmounts(a, l) : TRUE
    OBVIOUS
  <2>3. DailyAmounts(a, l) \subseteq Nat
    BY MatchingFinite DEF DailyAmounts, Rule
  <2> QED
    BY <2>1, <2>2, <2>3
<1> QED
  BY <1>1, BooksHold, CountedInit, CountedStep, WithinStep, PTL DEF Spec
=============================================================================
