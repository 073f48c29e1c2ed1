----------------------------- MODULE LedgerProofs -----------------------------
(***************************************************************************)
(* Proofs about the ledger of the position keeper: that its snapshots sum  *)
(* up what was booked, and that no profit or loss is counted twice, or     *)
(* lost but with the list of a failed tick.  For every set of trades and   *)
(* prices, every week and every number of positions, days and faults, and  *)
(* whether or not asyncpg takes the keeper's dates.                        *)
(*                                                                         *)
(* The sums are functions on the indices of a sequence.  What they add up  *)
(* to is shown by the least index that would break it.                     *)
(***************************************************************************)
EXTENDS TradingProofs, WellFoundedInduction

-----------------------------------------------------------------------------
(* Induction over an interval *)

LEMMA Least ==
    ASSUME NEW T, T \subseteq Nat, T # {}
    PROVE  \E n \in T : \A m \in T : n <= m
<1> DEFINE R == OpToRel(<, Nat)
<1>1. IsWellFoundedOn(R, Nat)
  BY NatLessThanWellFounded
<1>2. \A m, n \in Nat : m < n => <<m, n>> \in R
  BY DEF OpToRel
<1> HIDE DEF R
<1>3. PICK n \in T : \A m \in T : ~(<<m, n>> \in R)
  BY <1>1, WFMin
<1>4. \A m \in T : ~(m < n)
  BY <1>2, <1>3
<1>5. \A m \in T : n <= m
  BY <1>4
<1>6. QED
  BY <1>5

LEMMA Induct ==
    ASSUME NEW N \in Nat, NEW T, 0 \in T, \A n \in 0..(N - 1) : n \in T => n + 1 \in T
    PROVE  \A n \in 0..N : n \in T
<1> DEFINE rest == {n \in 0..N : n \notin T}
<1>1. ASSUME rest # {} PROVE FALSE
  <2>1. rest \subseteq Nat
    OBVIOUS
  <2> HIDE DEF rest
  <2>2. PICK n \in rest : \A m \in rest : n <= m
    BY <1>1, <2>1, Least
  <2>3. n \in 1..N /\ n \notin T
    BY <2>2 DEF rest
  <2>4. n - 1 \in 0..(N - 1) /\ n - 1 \notin rest /\ n - 1 + 1 = n
    BY <2>1, <2>2, <2>3
  <2>5. n - 1 \in T
    BY <2>3, <2>4 DEF rest
  <2>6. QED
    BY <2>3, <2>4, <2>5
<1>2. QED
  BY <1>1

-----------------------------------------------------------------------------
(* Sums *)

SumOver(seq, g) == [n \in 0..Len(seq) |-> IF n = 0 THEN 0 ELSE g[n - 1] + seq[n]]

LEMMA SumExists == ASSUME NEW seq \in Seq(Int) PROVE \E g : g = SumOver(seq, g)
<1> DEFINE N == Len(seq)
           Upto(m, g) == [n \in 0..m |-> IF n = 0 THEN 0 ELSE g[n - 1] + seq[n]]
           T == {m \in 0..N : \E g : g = Upto(m, g)}
<1>0. N \in Nat
  OBVIOUS
<1>1. 0 \in T
  <2> DEFINE g == [n \in 0..0 |-> 0]
  <2>1. g = [n \in 0..0 |-> g[n]] /\ \A n \in 0..0 : g[n] = 0
    OBVIOUS
  <2> HIDE DEF g
  <2>2. \A n \in 0..0 : g[n] = IF n = 0 THEN 0 ELSE g[n - 1] + seq[n]
    BY <2>1
  <2>3. g = Upto(0, g)
    BY <2>1, <2>2
  <2>4. QED
    BY <1>0, <2>3
<1>2. ASSUME NEW m \in 0..(N - 1), m \in T PROVE m + 1 \in T
  <2>1. PICK g : g = Upto(m, g)
    BY <1>2
  <2> DEFINE h == [n \in 0..(m + 1) |-> IF n = m + 1 THEN g[m] + seq[m + 1] ELSE g[n]]
  <2>2. \A n \in 0..m : g[n] = IF n = 0 THEN 0 ELSE g[n - 1] + seq[n]
    BY <2>1
  <2>3. \A n \in 0..m : h[n] = g[n]
    OBVIOUS
  <2>4. h[m + 1] = g[m] + seq[m + 1]
    OBVIOUS
  <2>5. DOMAIN h = 0..(m + 1) /\ h = [n \in 0..(m + 1) |-> h[n]]
    OBVIOUS
  <2> HIDE DEF h
  <2>6. ASSUME NEW n \in 0..(m + 1) PROVE h[n] = IF n = 0 THEN 0 ELSE h[n - 1] + seq[n]
    <3>1. CASE n = m + 1
      BY <2>3, <2>4, <3>1
    <3>2. CASE n \in 0..m
      <4>1. n # 0 => n - 1 \in 0..m
        BY <3>2
      <4>2. QED
        BY <2>2, <2>3, <3>2, <4>1
    <3>3. QED
      BY <3>1, <3>2
  <2>7. h = Upto(m + 1, h)
    BY <2>5, <2>6
  <2>8. QED
    BY <1>0, <2>7
<1> HIDE DEF T, N
<1>3. \A m \in 0..N : m \in T
  BY <1>0, <1>1, <1>2, Induct
<1>4. N \in T
  BY <1>0, <1>3
<1>5. QED
  BY <1>4 DEF T, N, SumOver

\* The recursion, and that it stays among the integers.
LEMMA SumsRecur ==
    ASSUME NEW seq \in Seq(Int)
    PROVE  /\ Sums(seq)[0] = 0
           /\ \A n \in 1..Len(seq) : Sums(seq)[n] = Sums(seq)[n - 1] + seq[n]
           /\ \A n \in 0..Len(seq) : Sums(seq)[n] \in Int
<1> DEFINE N == Len(seq)
           s == Sums(seq)
<1>0. N \in Nat /\ \A n \in 1..N : seq[n] \in Int
  OBVIOUS
<1>1. Sums(seq) = SumOver(seq, Sums(seq))
  BY SumExists, Zenon DEF Sums, SumOver
<1>2. \A n \in 0..N : s[n] = IF n = 0 THEN 0 ELSE s[n - 1] + seq[n]
  BY <1>1 DEF SumOver
<1> HIDE DEF s, N
<1>3. s[0] = 0
  BY <1>0, <1>2
<1>4. \A n \in 1..N : s[n] = s[n - 1] + seq[n]
  BY <1>0, <1>2
<1> DEFINE T == {n \in 0..N : s[n] \in Int}
<1>5. 0 \in T
  BY <1>0, <1>3
<1>6. ASSUME NEW n \in 0..(N - 1), n \in T PROVE n + 1 \in T
  <2>1. n + 1 \in 1..N /\ n + 1 - 1 = n
    BY <1>0
  <2>2. QED
    BY <1>0, <1>4, <1>6, <2>1
<1> HIDE DEF T
<1>7. \A n \in 0..N : n \in T
  BY <1>0, <1>5, <1>6, Induct
<1>8. \A n \in 0..N : s[n] \in Int
  BY <1>7 DEF T
<1>9. QED
  BY <1>3, <1>4, <1>8 DEF s, N

\* Sequences that agree up to an index have the same sum up to it.
LEMMA SumsAgree ==
    ASSUME NEW s \in Seq(Int), NEW t \in Seq(Int), NEW N \in Nat, N <= Len(s), N <= Len(t),
           \A n \in 1..N : s[n] = t[n]
    PROVE  Sums(s)[N] = Sums(t)[N]
<1> DEFINE T == {n \in 0..N : Sums(s)[n] = Sums(t)[n]}
<1>1. 0 \in T
  BY SumsRecur
<1>2. ASSUME NEW n \in 0..(N - 1), n \in T PROVE n + 1 \in T
  <2>1. n + 1 \in 1..N /\ n + 1 \in 1..Len(s) /\ n + 1 \in 1..Len(t) /\ n + 1 - 1 = n
    OBVIOUS
  <2>2. Sums(s)[n + 1] = Sums(s)[n] + s[n + 1] /\ Sums(t)[n + 1] = Sums(t)[n] + t[n + 1]
    BY <2>1, SumsRecur
  <2>3. QED
    BY <1>2, <2>1, <2>2
<1> HIDE DEF T
<1>3. \A n \in 0..N : n \in T
  BY <1>1, <1>2, Induct
<1>4. QED
  BY <1>3 DEF T

LEMMA TotalType == ASSUME NEW s \in Seq(Int) PROVE Total(s) \in Int
<1>1. Len(s) \in Nat /\ Len(s) \in 0..Len(s)
  OBVIOUS
<1>2. QED
  BY <1>1, SumsRecur DEF Total

LEMMA TotalEmpty == Total(<<>>) = 0
<1>1. <<>> \in Seq(Int) /\ Len(<<>>) = 0
  OBVIOUS
<1>2. QED
  BY <1>1, SumsRecur DEF Total

LEMMA TotalAppend ==
    ASSUME NEW s \in Seq(Int), NEW x \in Int
    PROVE  Total(Append(s, x)) = Total(s) + x
<1> DEFINE t == Append(s, x)
           N == Len(s)
<1>1. /\ t \in Seq(Int) /\ Len(t) = N + 1 /\ N \in Nat /\ t[N + 1] = x
      /\ N <= Len(s) /\ N <= Len(t) /\ \A n \in 1..N : s[n] = t[n]
  OBVIOUS
<1> HIDE DEF t, N
<1>2. Sums(s)[N] = Sums(t)[N]
  BY <1>1, SumsAgree
<1>3. Sums(t)[N + 1] = Sums(t)[N + 1 - 1] + t[N + 1] /\ N + 1 - 1 = N
  BY <1>1, SumsRecur
<1>4. Total(s) = Sums(s)[N] /\ Total(t) = Sums(t)[N + 1]
  BY <1>1 DEF Total, N
<1>5. QED
  BY <1>1, <1>2, <1>3, <1>4 DEF t

\* One item more or less.
LEMMA TotalReplace ==
    ASSUME NEW s \in Seq(Int), NEW t \in Seq(Int), Len(s) = Len(t), NEW i \in 1..Len(s),
           \A j \in 1..Len(s) : j # i => s[j] = t[j]
    PROVE  Total(t) = Total(s) - s[i] + t[i]
<1> DEFINE N == Len(s)
           T == {n \in 0..N : n >= i => Sums(t)[n] = Sums(s)[n] - s[i] + t[i]}
<1>0. N \in Nat /\ i \in 1..N /\ s[i] \in Int /\ t[i] \in Int /\ Len(t) = N
  OBVIOUS
<1>1. 0 \in T
  BY <1>0
<1>2. ASSUME NEW n \in 0..(N - 1), n \in T PROVE n + 1 \in T
  <2>1. n + 1 \in 1..N /\ n + 1 - 1 = n /\ n \in 0..N
    BY <1>0
  <2>2. /\ Sums(s)[n + 1] = Sums(s)[n] + s[n + 1] /\ Sums(t)[n + 1] = Sums(t)[n] + t[n + 1]
        /\ Sums(s)[n] \in Int /\ Sums(t)[n] \in Int
    BY <1>0, <2>1, SumsRecur
  <2>3. CASE n + 1 < i
    BY <2>1, <2>3
  <2>4. CASE n + 1 = i
    <3>1. \A j \in 1..n : s[j] = t[j]
      BY <1>0, <2>1, <2>4
    <3>2. Sums(s)[n] = Sums(t)[n]
      BY <1>0, <2>1, <3>1, SumsAgree
    <3>3. QED
      BY <1>0, <2>1, <2>2, <2>4, <3>2
  <2>5. CASE n >= i
    <3>1. s[n + 1] = t[n + 1] /\ s[n + 1] \in Int
      BY <1>0, <2>1, <2>5
    <3>2. Sums(t)[n] = Sums(s)[n] - s[i] + t[i]
      BY <1>2, <2>5
    <3>3. QED
      BY <1>0, <2>1, <2>2, <3>1, <3>2
  <2>6. QED
    BY <1>0, <2>1, <2>3, <2>4, <2>5
<1>3. \A n \in 0..N : n \in T
  <2> HIDE DEF T, N
  <2>1. QED
    BY <1>0, <1>1, <1>2, Induct
<1>4. N \in T
  BY <1>0, <1>3
<1>5. QED
  BY <1>0, <1>4 DEF Total

LEMMA TotalOrdered ==
    ASSUME NEW s \in Seq(Int), NEW t \in Seq(Int), Len(s) = Len(t),
           \A i \in 1..Len(s) : s[i] <= t[i]
    PROVE  Total(s) <= Total(t)
<1> DEFINE N == Len(s)
           T == {n \in 0..N : Sums(s)[n] <= Sums(t)[n]}
<1>0. N \in Nat /\ Len(t) = N
  OBVIOUS
<1>1. 0 \in T
  BY <1>0, SumsRecur
<1>2. ASSUME NEW n \in 0..(N - 1), n \in T PROVE n + 1 \in T
  <2>1. n + 1 \in 1..N /\ n + 1 - 1 = n /\ n \in 0..N
    BY <1>0
  <2>2. /\ Sums(s)[n + 1] = Sums(s)[n] + s[n + 1] /\ Sums(t)[n + 1] = Sums(t)[n] + t[n + 1]
        /\ Sums(s)[n] \in Int /\ Sums(t)[n] \in Int
    BY <1>0, <2>1, SumsRecur
  <2>3. s[n + 1] \in Int /\ t[n + 1] \in Int /\ s[n + 1] <= t[n + 1]
    BY <1>0, <2>1
  <2>4. Sums(s)[n + 1] <= Sums(t)[n + 1]
    BY <1>2, <2>2, <2>3
  <2>5. QED
    BY <1>0, <2>1, <2>4
<1>3. \A n \in 0..N : n \in T
  <2> HIDE DEF T, N
  <2>1. QED
    BY <1>0, <1>1, <1>2, Induct
<1>4. QED
  BY <1>0, <1>3 DEF Total

LEMMA TotalZero ==
    ASSUME NEW s \in Seq(Int), \A i \in 1..Len(s) : s[i] = 0
    PROVE  Total(s) = 0
<1> DEFINE N == Len(s)
           T == {n \in 0..N : Sums(s)[n] = 0}
<1>0. N \in Nat
  OBVIOUS
<1>1. 0 \in T
  BY <1>0, SumsRecur
<1>2. ASSUME NEW n \in 0..(N - 1), n \in T PROVE n + 1 \in T
  <2>1. n + 1 \in 1..N /\ n + 1 - 1 = n
    BY <1>0
  <2>2. Sums(s)[n + 1] = Sums(s)[n] + s[n + 1] /\ s[n + 1] = 0
    BY <2>1, SumsRecur
  <2>3. QED
    BY <1>2, <2>1, <2>2
<1>3. \A n \in 0..N : n \in T
  <2> HIDE DEF T, N
  <2>1. QED
    BY <1>0, <1>1, <1>2, Induct
<1>4. QED
  BY <1>0, <1>3 DEF Total

\* A sequence after another.
LEMMA TotalJoined ==
    ASSUME NEW s \in Seq(Int), NEW t \in Seq(Int)
    PROVE  Total(s \o t) = Total(s) + Total(t)
<1> DEFINE N == Len(s)
           M == Len(t)
           u == s \o t
           T == {m \in 0..M : Sums(u)[N + m] = Sums(s)[N] + Sums(t)[m]}
<1>0. /\ N \in Nat /\ M \in Nat /\ u \in Seq(Int) /\ Len(u) = N + M
      /\ \A n \in 1..N : s[n] = u[n]
      /\ \A m \in 1..M : u[N + m] = t[m]
  OBVIOUS
<1> HIDE DEF u
<1>1. 0 \in T
  <2>1. Sums(s)[N] = Sums(u)[N]
    <3>1. N <= Len(s) /\ N <= Len(u)
      BY <1>0
    <3> HIDE DEF N
    <3>2. QED
      BY <1>0, <3>1, SumsAgree
  <2>2. Sums(t)[0] = 0 /\ Sums(s)[N] \in Int
    BY <1>0, SumsRecur
  <2>3. QED
    BY <1>0, <2>1, <2>2
<1>2. ASSUME NEW m \in 0..(M - 1), m \in T PROVE m + 1 \in T
  <2>1. m + 1 \in 1..M /\ m + 1 - 1 = m /\ N + (m + 1) \in 1..Len(u) /\ N + (m + 1) - 1 = N + m
    BY <1>0
  <2>2. /\ Sums(t)[m + 1] = Sums(t)[m] + t[m + 1] /\ Sums(t)[m] \in Int
        /\ Sums(s)[N] \in Int
    BY <1>0, <2>1, SumsRecur
  <2>3. Sums(u)[N + (m + 1)] = Sums(u)[N + m] + u[N + (m + 1)]
    <3> DEFINE k == N + (m + 1)
    <3>1. k \in 1..Len(u) /\ k - 1 = N + m
      BY <2>1
    <3> HIDE DEF k
    <3>2. Sums(u)[k] = Sums(u)[k - 1] + u[k]
      BY <1>0, <3>1, SumsRecur
    <3>3. QED
      BY <3>1, <3>2 DEF k
  <2>4. u[N + (m + 1)] = t[m + 1] /\ t[m + 1] \in Int
    BY <1>0, <2>1
  <2>5. QED
    BY <1>0, <1>2, <2>1, <2>2, <2>3, <2>4
<1>3. \A m \in 0..M : m \in T
  <2> HIDE DEF T, N, M
  <2>1. QED
    BY <1>0, <1>1, <1>2, Induct
<1>4. M \in T
  BY <1>0, <1>3
<1>5. QED
  BY <1>0, <1>4 DEF Total, u

-----------------------------------------------------------------------------
(* What the log books on some days *)

Entry == [pnl : Int, day : Nat]

Picked(log, days) == [i \in DOMAIN log |-> IF log[i].day \in days THEN log[i].pnl ELSE 0]

LEMMA PickedType ==
    ASSUME NEW log \in Seq(Entry), NEW days
    PROVE  /\ BookedOn(log, days) = Total(Picked(log, days))
           /\ Picked(log, days) \in Seq(Int) /\ Len(Picked(log, days)) = Len(log)
           /\ \A i \in 1..Len(log) :
                Picked(log, days)[i] = IF log[i].day \in days THEN log[i].pnl ELSE 0
<1>1. BookedOn(log, days) = Total(Picked(log, days))
  BY DEF BookedOn, Picked
<1>2. Len(log) \in Nat /\ DOMAIN log = 1..Len(log) /\ \A i \in 1..Len(log) : log[i] \in Entry
  OBVIOUS
<1>3. \A i \in 1..Len(log) : (IF log[i].day \in days THEN log[i].pnl ELSE 0) \in Int
  BY <1>2 DEF Entry
<1>4. Picked(log, days) = [i \in 1..Len(log) |-> IF log[i].day \in days THEN log[i].pnl ELSE 0]
  BY <1>2 DEF Picked
<1>5. Picked(log, days) \in [1..Len(log) -> Int]
  BY <1>3, <1>4
<1>6. QED
  BY <1>1, <1>2, <1>4, <1>5

LEMMA BookedOnType ==
    ASSUME NEW log \in Seq(Entry), NEW days PROVE BookedOn(log, days) \in Int
BY PickedType, TotalType

LEMMA BookedOnAppend ==
    ASSUME NEW log \in Seq(Entry), NEW r \in Entry, NEW days
    PROVE  BookedOn(Append(log, r), days) =
              BookedOn(log, days) + IF r.day \in days THEN r.pnl ELSE 0
<1> DEFINE x == IF r.day \in days THEN r.pnl ELSE 0
           more == Append(log, r)
           s == Picked(log, days)
           t == Picked(more, days)
           N == Len(log)
<1>1. /\ more \in Seq(Entry) /\ Len(more) = N + 1 /\ N \in Nat
      /\ more[N + 1] = r /\ \A i \in 1..N : more[i] = log[i]
  OBVIOUS
<1>2. x \in Int
  BY DEF Entry
<1>3. /\ s \in Seq(Int) /\ Len(s) = N /\ t \in Seq(Int) /\ Len(t) = N + 1
  BY <1>1, PickedType
<1>4. t[N + 1] = x /\ \A i \in 1..N : t[i] = s[i]
  <2> HIDE DEF more
  <2>1. \A i \in 1..(N + 1) : t[i] = IF more[i].day \in days THEN more[i].pnl ELSE 0
    <3>1. \A i \in 1..Len(more) : t[i] = IF more[i].day \in days THEN more[i].pnl ELSE 0
      BY <1>1, PickedType
    <3>2. QED
      BY <1>1, <3>1
  <2>2. \A i \in 1..N : s[i] = IF log[i].day \in days THEN log[i].pnl ELSE 0
    BY PickedType
  <2> HIDE DEF s, t, N
  <2>3. QED
    BY <1>1, <2>1, <2>2
<1>5. BookedOn(log, days) = Total(s) /\ BookedOn(more, days) = Total(t)
  BY <1>1, PickedType
<1> HIDE DEF more, s, t, N, x
<1>6. Append(s, x) \in Seq(Int) /\ Len(Append(s, x)) = N + 1
      /\ \A i \in 1..(N + 1) : Append(s, x)[i] = t[i]
  BY <1>1, <1>2, <1>3, <1>4
<1>7. t = Append(s, x)
  BY <1>3, <1>6, SeqEqual
<1>8. QED
  BY <1>2, <1>3, <1>5, <1>7, TotalAppend DEF x, more

LEMMA BookedOnNone ==
    ASSUME NEW log \in Seq(Entry), NEW days, \A i \in DOMAIN log : log[i].day \notin days
    PROVE  BookedOn(log, days) = 0
<1>1. DOMAIN log = 1..Len(log)
  OBVIOUS
<1>2. \A i \in 1..Len(Picked(log, days)) : Picked(log, days)[i] = 0
  BY <1>1, PickedType
<1>3. QED
  BY <1>2, PickedType, TotalZero

LEMMA BookedOnEmpty == ASSUME NEW days PROVE BookedOn(<<>>, days) = 0
<1> DEFINE log == <<>>
<1>1. log \in Seq(Entry) /\ \A i \in DOMAIN log : log[i].day \notin days
  OBVIOUS
<1> HIDE DEF log
<1>2. BookedOn(log, days) = 0
  BY <1>1, BookedOnNone
<1>3. QED
  BY <1>2 DEF log

\* A loss goes on with the streak, a win ends it.
LEMMA StreakAppend ==
    ASSUME NEW log \in Seq(Entry), NEW r \in Entry
    PROVE  /\ Cardinality(LossStreak(log)) \in Nat
           /\ Cardinality(LossStreak(Append(log, r))) =
                IF r.pnl < 0 THEN Cardinality(LossStreak(log)) + 1
                ELSE IF r.pnl > 0 THEN 0 ELSE Cardinality(LossStreak(log))
<1> DEFINE more == Append(log, r)
           N == Len(log)
<1>1. /\ more \in Seq(Entry) /\ Len(more) = N + 1 /\ N \in Nat
      /\ DOMAIN log = 1..N /\ DOMAIN more = 1..(N + 1)
      /\ more[N + 1] = r /\ \A i \in 1..N : more[i] = log[i]
  OBVIOUS
<1>2. /\ \A i \in 1..N : log[i].pnl \in Int
      /\ r.pnl \in Int
  <2>1. \A i \in 1..N : log[i] \in Entry
    OBVIOUS
  <2>2. QED
    BY <2>1 DEF Entry
<1>3. IsFiniteSet(LossStreak(log)) /\ Cardinality(LossStreak(log)) \in Nat
  <2>1. LossStreak(log) \in SUBSET (1..N)
    BY <1>1 DEF LossStreak
  <2>2. IsFiniteSet(1..N)
    BY <1>1, FS_Interval
  <2>3. QED
    BY <2>1, <2>2, FS_Subset, FS_CardinalityType
<1>4. LossStreak(more) = {i \in 1..(N + 1) : more[i].pnl < 0 /\ \A j \in i..(N + 1) : more[j].pnl <= 0}
  BY <1>1 DEF LossStreak
<1>5. LossStreak(log) = {i \in 1..N : log[i].pnl < 0 /\ \A j \in i..N : log[j].pnl <= 0}
  BY <1>1 DEF LossStreak
<1>a. N + 1 \notin LossStreak(log)
  BY <1>1, <1>5
<1> HIDE DEF more, N
<1>6. CASE r.pnl > 0
  <2>1. \A i \in 1..(N + 1) : N + 1 \in i..(N + 1) /\ ~(more[N + 1].pnl <= 0)
    BY <1>1, <1>2, <1>6
  <2>2. LossStreak(more) = {}
    BY <1>4, <2>1
  <2>3. QED
    BY <1>2, <1>3, <1>6, <2>2, FS_EmptySet DEF more
<1>7. ASSUME r.pnl <= 0, NEW i \in 1..N
      PROVE  i \in LossStreak(more) <=> i \in LossStreak(log)
  <2>1. i \in 1..(N + 1) /\ i..N \subseteq i..(N + 1) /\ i..N \subseteq 1..N
        /\ \A j \in i..(N + 1) : j \in i..N \/ j = N + 1
    BY <1>1
  <2>2. (\A j \in i..(N + 1) : more[j].pnl <= 0) <=> (\A j \in i..N : log[j].pnl <= 0)
    BY <1>1, <1>7, <2>1
  <2>3. QED
    BY <1>1, <1>4, <1>5, <2>1, <2>2
<1>8. N + 1 \in LossStreak(more) <=> r.pnl < 0
  <2>1. N + 1 \in 1..(N + 1) /\ \A j \in (N + 1)..(N + 1) : j = N + 1
    BY <1>1
  <2>2. r.pnl < 0 => r.pnl <= 0
    BY <1>2
  <2>3. QED
    BY <1>1, <1>4, <2>1, <2>2
<1>9. CASE r.pnl < 0
  <2>1. LossStreak(more) = LossStreak(log) \cup {N + 1}
    <3>1. r.pnl <= 0
      BY <1>2, <1>9
    <3>2. \A i \in LossStreak(more) \cup LossStreak(log) : i \in 1..N \/ i = N + 1
      BY <1>1, <1>4, <1>5
    <3>3. QED
      BY <1>7, <1>8, <1>9, <3>1, <3>2
  <2>2. QED
    BY <1>3, <1>a, <1>9, <2>1, FS_AddElement DEF more
<1>10. CASE r.pnl = 0
  <2>1. LossStreak(more) = LossStreak(log)
    <3>1. r.pnl <= 0 /\ ~(r.pnl < 0)
      BY <1>2, <1>10
    <3>2. \A i \in LossStreak(more) \cup LossStreak(log) : i \in 1..N
      BY <1>1, <1>4, <1>5, <1>8, <3>1
    <3>3. \A i \in 1..N : i \in LossStreak(more) <=> i \in LossStreak(log)
      BY <1>7, <3>1
    <3>4. QED
      BY <3>2, <3>3
  <2>2. QED
    BY <1>3, <1>10, <2>1 DEF more
<1>11. QED
  BY <1>2, <1>6, <1>9, <1>10

-----------------------------------------------------------------------------
(* What refresh_account_snapshot does to a snapshot that adds up *)

USE TradesAssumption, PricesAssumption, NumbersAssumption, NoneAssumption

\* Later days fall into later weeks.
LEMMA WeeksOrdered == \A d, e \in Nat : d <= e => WeekOf(d) <= WeekOf(e)
<1> SUFFICES ASSUME NEW d \in Nat, NEW e \in Nat, d <= e PROVE WeekOf(d) <= WeekOf(e)
  OBVIOUS
<1> DEFINE W == WeekLength
           p == d \div W
           q == e \div W
<1>1. W \in Nat /\ W > 0 /\ p \in Nat /\ q \in Nat
  OBVIOUS
<1>2. /\ d = (W * p) + (d % W) /\ (d % W) \in 0..(W - 1)
      /\ e = (W * q) + (e % W) /\ (e % W) \in 0..(W - 1)
  OBVIOUS
<1> HIDE DEF p, q
<1>3. ASSUME p > q PROVE FALSE
  <2>1. p - q - 1 \in Nat /\ W * p = W * q + W + W * (p - q - 1)
    BY <1>1, <1>3
  <2>2. W * (p - q - 1) >= 0 /\ W * q \in Nat /\ W * (p - q - 1) \in Nat
    BY <1>1, <2>1
  <2>3. QED
    BY <1>1, <1>2, <2>1, <2>2
<1>4. QED
  BY <1>1, <1>3 DEF p, q, WeekOf

LEMMA RolledFacts ==
    ASSUME NEW a \in Account, NEW day \in Nat
    PROVE  LET b == Rolled(a, day) IN
           /\ b.equity = a.equity /\ b.streak = a.streak
           /\ b.day = day /\ b.week = WeekOf(day)
           /\ b.daily = IF a.day = day THEN a.daily ELSE 0
           /\ b.weekly = IF a.week = WeekOf(day) THEN a.weekly ELSE 0
<1> DEFINE daily == IF a.day = day THEN a.daily ELSE 0
           weekly == IF a.week = WeekOf(day) THEN a.weekly ELSE 0
<1>1. Rolled(a, day) = [a EXCEPT !.daily = daily, !.day = day, !.weekly = weekly,
                                 !.week = WeekOf(day)]
  BY DEF Rolled, Account
<1> HIDE DEF daily, weekly
<1>2. QED
  BY <1>1 DEF Account, daily, weekly

LEMMA BookedFacts ==
    ASSUME NEW a \in Account, NEW pnl \in Int
    PROVE  LET b == Booked(a, pnl) IN
           /\ b.equity = a.equity + pnl /\ b.daily = a.daily + pnl /\ b.weekly = a.weekly + pnl
           /\ b.streak = IF pnl < 0 THEN a.streak + 1 ELSE IF pnl > 0 THEN 0 ELSE a.streak
           /\ b.day = a.day /\ b.week = a.week
<1> DEFINE streak == IF pnl < 0 THEN a.streak + 1 ELSE IF pnl > 0 THEN 0 ELSE a.streak
           equity == a.equity + pnl
           daily == a.daily + pnl
           weekly == a.weekly + pnl
<1>1. Booked(a, pnl) = [a EXCEPT !.equity = equity, !.daily = daily, !.weekly = weekly,
                                 !.streak = streak]
  BY DEF Booked, Account
<1> HIDE DEF streak, equity, daily, weekly
<1>2. QED
  BY <1>1 DEF Account, streak, equity, daily, weekly

\* A snapshot of a log none of whose days is later than its own.
Dated(a, log) ==
    /\ AddsUp(a, log)
    /\ a.week = WeekOf(a.day)
    /\ \A i \in DOMAIN log : log[i].day <= a.day

LEMMA RolledAddsUp ==
    ASSUME NEW a \in Account, NEW log \in Seq(Entry), Dated(a, log),
           NEW day \in Nat, a.day <= day
    PROVE  Dated(Rolled(a, day), log)
<1> DEFINE b == Rolled(a, day)
<1>1. /\ b.equity = a.equity /\ b.streak = a.streak /\ b.day = day /\ b.week = WeekOf(day)
      /\ b.daily = IF a.day = day THEN a.daily ELSE 0
      /\ b.weekly = IF a.week = WeekOf(day) THEN a.weekly ELSE 0
  BY RolledFacts
<1>2. /\ a.day \in Nat /\ \A i \in DOMAIN log : log[i].day \in Nat /\ log[i].day <= a.day
      /\ a.week = WeekOf(a.day)
  <2>1. \A i \in DOMAIN log : log[i] \in Entry
    OBVIOUS
  <2>2. QED
    BY <2>1 DEF Account, Entry, Dated
<1>3. b.daily = BookedOn(log, {day})
  <2>1. CASE a.day = day
    BY <1>1, <2>1 DEF Dated, AddsUp
  <2>2. CASE a.day # day
    <3>1. \A i \in DOMAIN log : log[i].day \notin {day}
      BY <1>2, <2>2
    <3>2. QED
      BY <1>1, <2>2, <3>1, BookedOnNone
  <2>3. QED
    BY <2>1, <2>2
<1>4. b.weekly = BookedOn(log, DaysOf(WeekOf(day)))
  <2>1. CASE a.week = WeekOf(day)
    BY <1>1, <2>1 DEF Dated, AddsUp
  <2>2. CASE a.week # WeekOf(day)
    <3>1. WeekOf(a.day) < WeekOf(day)
      BY <1>2, <2>2, WeeksOrdered, WeekIsNat
    <3>2. \A i \in DOMAIN log : WeekOf(log[i].day) <= WeekOf(a.day)
      BY <1>2, WeeksOrdered
    <3>3. \A i \in DOMAIN log : WeekOf(log[i].day) # WeekOf(day)
      <4>1. TAKE i \in DOMAIN log
      <4>2. /\ WeekOf(log[i].day) <= WeekOf(a.day) /\ WeekOf(log[i].day) \in Nat
            /\ WeekOf(a.day) \in Nat /\ WeekOf(day) \in Nat
        BY <1>2, <3>2, WeekIsNat
      <4>3. QED
        BY <3>1, <4>2
    <3>4. \A i \in DOMAIN log : log[i].day \notin DaysOf(WeekOf(day))
      BY <3>3 DEF DaysOf
    <3>5. QED
      BY <1>1, <2>2, <3>4, BookedOnNone
  <2>3. QED
    BY <2>1, <2>2
<1>5. \A i \in DOMAIN log : log[i].day <= day
  BY <1>2
<1> HIDE DEF b
<1>6. AddsUp(b, log)
  BY <1>1, <1>3, <1>4 DEF Dated, AddsUp
<1>7. Dated(b, log)
  BY <1>1, <1>5, <1>6 DEF Dated
<1>8. QED
  BY <1>7 DEF b

LEMMA BookedAddsUp ==
    ASSUME NEW a \in Account, NEW log \in Seq(Entry), Dated(a, log), NEW pnl \in Int
    PROVE  Dated(Booked(a, pnl), Append(log, [pnl |-> pnl, day |-> a.day]))
<1> DEFINE b == Booked(a, pnl)
           r == [pnl |-> pnl, day |-> a.day]
           more == Append(log, r)
<1>1. /\ b.equity = a.equity + pnl /\ b.daily = a.daily + pnl /\ b.weekly = a.weekly + pnl
      /\ b.streak = IF pnl < 0 THEN a.streak + 1 ELSE IF pnl > 0 THEN 0 ELSE a.streak
      /\ b.day = a.day /\ b.week = a.week
  BY BookedFacts
<1>2. r \in Entry /\ r.pnl = pnl /\ r.day = a.day /\ a.day \in Nat /\ a.week = WeekOf(a.day)
  BY DEF Entry, Account, Dated
<1> HIDE DEF b, r
<1>3. \A days : BookedOn(more, days) = BookedOn(log, days) + IF a.day \in days THEN pnl ELSE 0
  BY <1>2, BookedOnAppend
<1>4. a.day \in Nat /\ a.day \in {a.day} /\ a.day \in DaysOf(a.week)
  BY <1>2 DEF DaysOf
<1>5. /\ BookedOn(more, Nat) = BookedOn(log, Nat) + pnl
      /\ BookedOn(more, {a.day}) = BookedOn(log, {a.day}) + pnl
      /\ BookedOn(more, DaysOf(a.week)) = BookedOn(log, DaysOf(a.week)) + pnl
  BY <1>3, <1>4
<1>6. b.streak = Cardinality(LossStreak(more))
  BY <1>1, <1>2, StreakAppend DEF Dated, AddsUp
<1>7. /\ a.equity = Seed + BookedOn(log, Nat) /\ a.daily = BookedOn(log, {a.day})
      /\ a.weekly = BookedOn(log, DaysOf(a.week)) /\ BookedOn(log, Nat) \in Int
  BY BookedOnType DEF Dated, AddsUp
<1>8. \A i \in DOMAIN more : more[i].day <= b.day
  <2>1. \A i \in DOMAIN more : (i \in DOMAIN log /\ more[i] = log[i]) \/ more[i] = r
    BY <1>2
  <2>2. QED
    BY <1>1, <1>2, <2>1 DEF Dated
<1> HIDE DEF more
<1>9. AddsUp(b, more)
  BY <1>1, <1>5, <1>6, <1>7 DEF AddsUp
<1>10. Dated(b, more)
  BY <1>1, <1>2, <1>8, <1>9 DEF Dated
<1>11. QED
  BY <1>10 DEF b, r, more

-----------------------------------------------------------------------------
(* The newest snapshot adds up *)

\* The log as it will be once the first n profits of the tick are booked.
Extended(log, closed, n, day) == log \o [i \in 1..n |-> [pnl |-> closed[i], day |-> day]]

Drafted == Extended(booked, keeper.closed, keeper.next - 1, keeper.draft.day)

\* The newest row sums up the log, and the draft of a tick the log with what it
\* has booked so far.
Ledger ==
    /\ Dated(account, booked) /\ account.day <= today
    /\ keeper.pc # "book" => keeper.next = 1
    /\ keeper.pc = "book" => Dated(keeper.draft, Drafted) /\ keeper.draft.day <= today

LEMMA ExtendedNone ==
    ASSUME NEW log \in Seq(Entry), NEW closed, NEW day PROVE Extended(log, closed, 0, day) = log
<1> DEFINE more == [i \in 1..0 |-> [pnl |-> closed[i], day |-> day]]
<1>1. more = <<>>
  OBVIOUS
<1> HIDE DEF more
<1>2. log \o more = log
  BY <1>1
<1>3. QED
  BY <1>2 DEF Extended, more

LEMMA ExtendedNext ==
    ASSUME NEW log \in Seq(Entry), NEW closed \in Seq(Int), NEW n \in 0..(Len(closed) - 1),
           NEW day \in Nat
    PROVE  /\ Extended(log, closed, n, day) \in Seq(Entry)
           /\ Extended(log, closed, n + 1, day) =
                Append(Extended(log, closed, n, day), [pnl |-> closed[n + 1], day |-> day])
<1> DEFINE item(i) == [pnl |-> closed[i], day |-> day]
           s == [i \in 1..n |-> item(i)]
           t == [i \in 1..(n + 1) |-> item(i)]
<1>1. n \in Nat /\ n + 1 \in Nat /\ \A i \in 1..(n + 1) : i \in 1..Len(closed)
  OBVIOUS
<1>2. \A i \in 1..(n + 1) : closed[i] \in Int
  BY <1>1
<1>3. \A i \in 1..(n + 1) : item(i) \in Entry
  BY <1>2 DEF Entry
<1> HIDE DEF item
<1>4. s \in Seq(Entry) /\ Len(s) = n /\ \A i \in 1..n : s[i] = item(i)
  BY <1>1, <1>3
<1>5. t \in Seq(Entry) /\ Len(t) = n + 1 /\ \A i \in 1..(n + 1) : t[i] = item(i)
  BY <1>1, <1>3
<1> HIDE DEF s, t
<1>6. item(n + 1) \in Entry
  BY <1>1, <1>3
<1>7. /\ Append(s, item(n + 1)) \in Seq(Entry) /\ Len(Append(s, item(n + 1))) = n + 1
      /\ \A i \in 1..(n + 1) : Append(s, item(n + 1))[i] = t[i]
  BY <1>1, <1>4, <1>5, <1>6
<1>8. t = Append(s, item(n + 1))
  BY <1>5, <1>7, SeqEqual
<1>9. log \o s \in Seq(Entry) /\ log \o Append(s, item(n + 1)) = Append(log \o s, item(n + 1))
  BY <1>4, <1>6, AppendProperties
<1>10. QED
  BY <1>8, <1>9 DEF Extended, s, t, item

LEMMA LedgerInit == Init => Ledger
<1> SUFFICES ASSUME Init PROVE Ledger
  OBVIOUS
<1>1. /\ account = NewAccount /\ booked = <<>> /\ today = 0
      /\ keeper.pc = "idle" /\ keeper.next = 1
  BY DEF Init, Idle
<1>2. LossStreak(booked) = {}
  BY <1>1 DEF LossStreak
<1>3. /\ BookedOn(booked, Nat) = 0 /\ BookedOn(booked, {0}) = 0
      /\ BookedOn(booked, DaysOf(0)) = 0
  BY <1>1, BookedOnEmpty
<1>4. AddsUp(account, booked)
  <2>1. /\ account.equity = Seed /\ account.daily = 0 /\ account.weekly = 0
        /\ account.streak = 0 /\ account.day = 0 /\ account.week = 0
    BY <1>1 DEF NewAccount
  <2>2. Cardinality(LossStreak(booked)) = 0 /\ Seed + 0 = Seed
    BY <1>2, FS_EmptySet
  <2>3. QED
    BY <1>3, <2>1, <2>2 DEF AddsUp
<1>5. WeekOf(0) = 0
  BY DEF WeekOf
<1>6. Dated(account, booked)
  BY <1>1, <1>4, <1>5 DEF Dated, NewAccount
<1>7. QED
  BY <1>1, <1>6 DEF Ledger, NewAccount

LEMMA LedgerNext == IndType /\ Ledger /\ [Next]_vars => Ledger'
<1> SUFFICES ASSUME IndType, Ledger, [Next]_vars PROVE Ledger'
  OBVIOUS
<1>0. /\ keeper \in Keeper /\ account \in Account /\ booked \in Seq(Entry) /\ today \in Nat
      /\ keeper.closed \in Seq(Int) /\ keeper.next \in 1..(Len(keeper.closed) + 1)
      /\ keeper.draft \in Account /\ keeper.draft.day \in Nat
  BY DEF IndType, TypeOK, KeeperOK, Keeper, Account, Entry
<1>1. ASSUME UNCHANGED <<account, booked>>, today' = today \/ today' = today + 1,
             keeper'.pc # "book", keeper'.next = 1
      PROVE  Ledger'
  <2>1. account'.day <= today'
    BY <1>0, <1>1 DEF Ledger, Account
  <2>2. QED
    BY <1>1, <2>1 DEF Ledger
<1>2. ASSUME UNCHANGED <<account, booked, keeper>>, today' = today \/ today' = today + 1
      PROVE  Ledger'
  <2>1. /\ account'.day <= today'
        /\ keeper.pc = "book" => keeper'.draft.day <= today'
    BY <1>0, <1>2 DEF Ledger, Account
  <2>2. QED
    BY <1>2, <2>1 DEF Ledger, Drafted
<1>3. CASE StartTick \/ EndTick \/ RefuseDates \/ Fault
  <2>1. keeper'.pc # "book" /\ keeper'.next = 1
    <3>1. CASE StartTick
      BY <3>1 DEF StartTick, Idle
    <3>2. CASE EndTick \/ RefuseDates \/ Fault
      BY <3>2 DEF EndTick, RefuseDates, Fault, LoseTick, Idle
    <3>3. QED
      BY <1>3, <3>1, <3>2
  <2>2. QED
    BY <1>1, <1>3, <2>1 DEF StartTick, EndTick, RefuseDates, Fault, LoseTick
<1>4. ASSUME NEW i \in Ids, Skip(i) \/ Mark(i) \/ Close(i)
      PROVE  Ledger'
  <2>1. keeper.pc = "scan" /\ keeper.next = 1
    BY <1>4 DEF Skip, Mark, Close, IsNext, Ledger
  <2>2. keeper'.pc = keeper.pc /\ keeper'.next = keeper.next
    <3>1. CASE Skip(i) \/ Mark(i)
      BY <1>0, <3>1 DEF Skip, Mark, Keeper
    <3>2. CASE Close(i)
      BY <1>0, <3>2 DEF Close, Keeper
    <3>3. QED
      BY <1>4, <3>1, <3>2
  <2>3. QED
    BY <1>1, <1>4, <2>1, <2>2 DEF Skip, Mark, Close
<1>5. CASE ReadAccount
  <2> DEFINE draft == Rolled(account, today)
  <2>1. Dated(draft, booked) /\ draft.day = today
    BY <1>0, RolledAddsUp, RolledFacts DEF Ledger
  <2>2. /\ keeper'.pc = "book" /\ keeper'.next = 1 /\ keeper'.closed = keeper.closed
        /\ keeper'.draft = draft /\ UNCHANGED <<today, account, booked>>
    <3> HIDE DEF draft
    <3>1. keeper' = [keeper EXCEPT !.pc = "book", !.draft = draft] /\ keeper.pc = "scan"
      BY <1>5 DEF ReadAccount, draft
    <3>2. QED
      BY <1>0, <1>5, <3>1 DEF ReadAccount, Ledger, Keeper
  <2>3. Drafted' = booked
    <3>1. Drafted' = Extended(booked, keeper.closed, 0, draft.day)
      BY <2>2 DEF Drafted
    <3>2. QED
      BY <1>0, <3>1, ExtendedNone
  <2> HIDE DEF draft
  <2>4. QED
    BY <1>0, <2>1, <2>2, <2>3 DEF Ledger
<1>6. CASE Book
  <2> DEFINE n == keeper.next - 1
             pnl == keeper.closed[keeper.next]
             draft == Booked(keeper.draft, pnl)
             day == keeper.draft.day
             log == Extended(booked, keeper.closed, n, day)
  <2>1. n \in 0..(Len(keeper.closed) - 1) /\ n + 1 = keeper.next /\ pnl \in Int
    <3>1. keeper.next \in 1..Len(keeper.closed) /\ Len(keeper.closed) \in Nat
      <4>1. keeper.next <= Len(keeper.closed)
        BY <1>6 DEF Book
      <4>2. QED
        BY <1>0, <4>1
    <3>2. QED
      BY <1>0, <3>1
  <2>2. Dated(keeper.draft, log) /\ day <= today
    BY <1>6 DEF Book, Ledger, Drafted
  <2>3. /\ log \in Seq(Entry)
        /\ Extended(booked, keeper.closed, n + 1, day) = Append(log, [pnl |-> pnl, day |-> day])
    <3>1. keeper.closed[n + 1] = pnl
      BY <2>1
    <3> HIDE DEF n, pnl
    <3>2. QED
      BY <1>0, <2>1, <3>1, ExtendedNext
  <2>4. Dated(draft, Append(log, [pnl |-> pnl, day |-> day])) /\ draft.day = day
    BY <1>0, <2>1, <2>2, <2>3, BookedAddsUp, BookedFacts
  <2>5. /\ keeper'.pc = "book" /\ keeper'.next = keeper.next + 1
        /\ keeper'.closed = keeper.closed /\ keeper'.draft = draft
        /\ UNCHANGED <<today, account, booked>>
    <3> HIDE DEF draft
    <3>1. keeper' = [keeper EXCEPT !.draft = draft, !.next = keeper.next + 1] /\ keeper.pc = "book"
      BY <1>6 DEF Book, draft
    <3>2. QED
      BY <1>0, <1>6, <3>1 DEF Book, Keeper
  <2>6. Drafted' = Extended(booked, keeper.closed, n + 1, day)
    <3>1. keeper'.next - 1 = n + 1
      BY <1>0, <2>5
    <3>2. Drafted' = Extended(booked, keeper.closed, keeper'.next - 1, draft.day)
      BY <2>5 DEF Drafted
    <3> HIDE DEF draft, n
    <3>3. QED
      BY <2>4, <3>1, <3>2
  <2> HIDE DEF draft, log, n
  <2>7. Dated(keeper'.draft, Drafted') /\ keeper'.draft.day <= today'
    BY <2>2, <2>3, <2>4, <2>5, <2>6
  <2>8. QED
    BY <2>5, <2>7 DEF Ledger
<1>7. CASE WriteAccount
  <2>1. /\ keeper.pc = "book" /\ keeper.next - 1 = Len(keeper.closed)
        /\ DOMAIN keeper.closed = 1..Len(keeper.closed)
        /\ account' = keeper.draft /\ today' = today
        /\ keeper'.pc = "idle" /\ keeper'.next = 1
    BY <1>0, <1>7 DEF WriteAccount, AllBooked, Idle
  <2>2. booked' = Drafted
    BY <1>7, <2>1 DEF WriteAccount, Drafted, Extended
  <2>3. QED
    BY <2>1, <2>2 DEF Ledger
<1>8. ASSUME NEW t \in Trades, Open(t)
      PROVE  Ledger'
  BY <1>2, <1>8 DEF Open
<1>9. CASE (\E p \in Prices : Quote(p)) \/ NewDay \/ UNCHANGED vars
  BY <1>2, <1>9 DEF Quote, NewDay, vars
<1>10. QED
  BY <1>3, <1>4, <1>5, <1>6, <1>7, <1>8, <1>9 DEF Next, KeeperStep

\* However many days, ticks, faults and positions there were, the newest
\* snapshot is the sum of what was booked: its equity over all days, its daily
\* and weekly figures over its own windows, its streak since the last win.
THEOREM SnapshotsAddUp == Init /\ [][Next]_vars => []SnapshotAddsUp
<1>1. Ledger => SnapshotAddsUp
  BY DEF Ledger, Dated, SnapshotAddsUp
<1>2. QED
  BY <1>1, InitType, NextType, LedgerInit, LedgerNext, PTL

-----------------------------------------------------------------------------
(* Nothing is counted twice, or lost but with a failed tick *)

\* What each position has realised.
GainsOf(rows) == [i \in DOMAIN rows |-> IF rows[i].status = "CLOSED" THEN rows[i].realized ELSE 0]
Gains == GainsOf(positions)

\* What the running tick closed and what failed ticks had closed is what the
\* account lacks; its draft holds the part of it that the loop has come to.
Balance ==
    /\ keeper.pc = "idle" => keeper.closed = <<>>
    /\ account.equity + Total(keeper.closed) + Total(gone) = Seed + Total(Gains)
    /\ keeper.pc = "book" =>
         keeper.draft.equity = account.equity + Sums(keeper.closed)[keeper.next - 1]

LEMMA GainsType ==
    ASSUME NEW rows \in Seq(Position)
    PROVE  /\ GainsOf(rows) \in Seq(Int) /\ Len(GainsOf(rows)) = Len(rows)
           /\ \A i \in 1..Len(rows) :
                GainsOf(rows)[i] = IF rows[i].status = "CLOSED" THEN rows[i].realized ELSE 0
<1>1. /\ Len(rows) \in Nat /\ DOMAIN rows = 1..Len(rows)
      /\ \A i \in 1..Len(rows) : rows[i] \in Position
  OBVIOUS
<1>2. \A i \in 1..Len(rows) : (IF rows[i].status = "CLOSED" THEN rows[i].realized ELSE 0) \in Int
  BY <1>1 DEF Position
<1>3. GainsOf(rows) \in [1..Len(rows) -> Int]
  BY <1>1, <1>2 DEF GainsOf
<1>4. QED
  BY <1>1, <1>3 DEF GainsOf

\* A close adds its profit to the closed positions and to the tick's list.
LEMMA CloseAdds ==
    ASSUME IndType, KeeperInv, NEW i \in Ids, Close(i)
    PROVE  \E pnl \in Int :
             /\ keeper'.closed = Append(keeper.closed, pnl)
             /\ keeper.pc = "scan" /\ keeper'.pc = "scan"
             /\ i \notin Closed /\ Ids' = Ids /\ Closed' = Closed \cup {i}
             /\ positions'[i].realized = pnl
             /\ \A j \in Ids \ {i} : positions'[j] = positions[j]
<1>0. /\ positions \in Seq(Position) /\ keeper \in Keeper /\ price \in Nat
      /\ positions[i] \in Position
  BY DEF IndType, TypeOK, Close, Ids
<1>1. positions[i].status = "OPEN"
  BY DEF KeeperInv, TodoIsOpen, Close, IsNext, OpenIds
<1> DEFINE t == positions[i].trade
<1>2. t \in Trades
  BY <1>0 DEF Position
<1>3. PICK o \in Evaluate(t, price) :
        /\ positions' = [positions EXCEPT ![i] =
                           [trade |-> t, status |-> "CLOSED", reason |-> o.reason,
                            realized |-> Pnl(t, o.at), unrealized |-> 0]]
        /\ keeper' = [keeper EXCEPT !.todo = @ \ {i}, !.closed = Append(@, Pnl(t, o.at))]
  BY <1>1 DEF Close
<1> DEFINE pnl == Pnl(t, o.at)
           row == [trade |-> t, status |-> "CLOSED", reason |-> o.reason,
                   realized |-> pnl, unrealized |-> 0]
<1>4. pnl \in Int
  BY <1>0, <1>2, <1>3, OutcomeIsPlanned
<1>5. row.status = "CLOSED" /\ row.realized = pnl
  OBVIOUS
<1>6. positions' = [positions EXCEPT ![i] = row]
  BY <1>3
<1>7. keeper'.closed = Append(keeper.closed, pnl) /\ keeper.pc = "scan" /\ keeper'.pc = "scan"
  <2>1. keeper.pc = "scan"
    BY DEF Close, IsNext
  <2> HIDE DEF pnl
  <2>2. keeper' = [keeper EXCEPT !.todo = @ \ {i}, !.closed = Append(@, pnl)]
    BY <1>3 DEF pnl
  <2>3. QED
    BY <1>0, <2>1, <2>2 DEF Keeper
<1> HIDE DEF row, pnl
<1>8. Ids' = Ids /\ positions'[i] = row /\ \A j \in Ids \ {i} : positions'[j] = positions[j]
  BY <1>0, <1>6 DEF Ids
<1>9. i \notin Closed /\ Closed' = Closed \cup {i}
  BY <1>1, <1>5, <1>8 DEF Closed
<1>10. QED
  BY <1>4, <1>5, <1>7, <1>8, <1>9

\* A mark leaves what was realised.
LEMMA MarkAddsNothing ==
    ASSUME IndType, NEW i \in Ids, Mark(i)
    PROVE  /\ Ids' = Ids /\ Closed' = Closed
           /\ \A j \in Ids : /\ positions'[j].status = positions[j].status
                              /\ positions'[j].realized = positions[j].realized
<1>0. positions \in Seq(Position)
  BY DEF IndType, TypeOK
<1>1. positions[i] \in Position
  BY <1>0 DEF Ids
<1>2. /\ Ids' = Ids
      /\ \A j \in Ids : /\ positions'[j].status = positions[j].status
                         /\ positions'[j].realized = positions[j].realized
  BY <1>0, <1>1 DEF Mark, Position, Ids
<1>3. QED
  BY <1>2 DEF Closed

\* An opened position has realised nothing.
LEMMA OpenAddsNothing ==
    ASSUME IndType, NEW t, Open(t)
    PROVE  /\ Ids' = 1..(Len(positions) + 1) /\ Ids = 1..Len(positions)
           /\ \A j \in Ids : positions'[j] = positions[j]
           /\ Closed' = Closed
<1>0. positions \in Seq(Position) /\ Len(positions) \in Nat /\ Ids = 1..Len(positions)
  BY DEF IndType, TypeOK, Ids
<1> DEFINE row == [trade |-> t, status |-> "OPEN", reason |-> None, realized |-> 0, unrealized |-> 0]
<1>1. positions' = Append(positions, row) /\ row.status = "OPEN"
  BY DEF Open
<1> HIDE DEF row
<1>2. /\ Ids' = 1..(Len(positions) + 1)
      /\ \A j \in Ids : positions'[j] = positions[j]
      /\ positions'[Len(positions) + 1] = row
  BY <1>0, <1>1 DEF Ids
<1>3. Closed' = Closed
  BY <1>0, <1>1, <1>2 DEF Closed
<1>4. QED
  BY <1>0, <1>2, <1>3

LEMMA BalanceInit == Init => Balance
<1> SUFFICES ASSUME Init PROVE Balance
  OBVIOUS
<1>1. /\ keeper.pc = "idle" /\ keeper.closed = <<>> /\ gone = <<>>
      /\ account.equity = Seed
  BY DEF Init, Idle, NewAccount
<1>2. positions \in Seq(Position) /\ Len(positions) = 0
  BY DEF Init
<1>3. Gains \in Seq(Int) /\ \A i \in 1..Len(Gains) : Gains[i] = 0
  <2>1. Gains \in Seq(Int) /\ Len(Gains) = 0
    BY <1>2, GainsType DEF Gains
  <2>2. QED
    BY <2>1
<1>4. Total(Gains) = 0
  BY <1>3, TotalZero
<1>5. QED
  BY <1>1, <1>4, TotalEmpty DEF Balance

LEMMA BalanceNext == IndType /\ KeeperInv /\ Ledger /\ Balance /\ [Next]_vars => Balance'
<1> SUFFICES ASSUME IndType, KeeperInv, Ledger, Balance, [Next]_vars PROVE Balance'
  OBVIOUS
<1>0. /\ keeper \in Keeper /\ account \in Account /\ positions \in Seq(Position)
      /\ keeper.closed \in Seq(Int) /\ keeper.next \in 1..(Len(keeper.closed) + 1)
      /\ keeper.draft \in Account /\ gone \in Seq(Int)
      /\ account.equity \in Int /\ keeper.draft.equity \in Int
  BY DEF IndType, TypeOK, KeeperOK, Keeper, Account
<1>a. IndType'
  BY NextType
<1>b. Total(Gains) \in Int /\ Total(keeper.closed) \in Int /\ Total(gone) \in Int
  BY <1>0, GainsType, TotalType DEF Gains
<1>1. ASSUME UNCHANGED <<account, gone>>, keeper'.pc = "scan",
             keeper'.closed = keeper.closed, Total(Gains') = Total(Gains)
      PROVE  Balance'
  BY <1>1 DEF Balance
<1>2. ASSUME UNCHANGED <<account, keeper, gone>>, Total(Gains') = Total(Gains)
      PROVE  Balance'
  BY <1>2 DEF Balance
<1>3. ASSUME UNCHANGED positions PROVE Total(Gains') = Total(Gains)
  BY <1>3 DEF Gains
<1>4. CASE StartTick
  <2>1. keeper'.pc = "scan" /\ keeper'.closed = <<>> /\ keeper.closed = <<>>
    BY <1>4 DEF StartTick, Idle, Balance
  <2>2. QED
    BY <1>1, <1>3, <1>4, <2>1 DEF StartTick
<1>5. ASSUME NEW i \in Ids, Skip(i)
      PROVE  Balance'
  <2>1. keeper'.pc = "scan" /\ keeper'.closed = keeper.closed
    BY <1>0, <1>5 DEF Skip, IsNext, Keeper
  <2>2. QED
    BY <1>1, <1>3, <1>5, <2>1 DEF Skip
<1>6. ASSUME NEW i \in Ids, Mark(i)
      PROVE  Balance'
  <2>1. keeper'.pc = "scan" /\ keeper'.closed = keeper.closed
    BY <1>0, <1>6 DEF Mark, IsNext, Keeper
  <2>2. Gains' = Gains
    BY <1>6, MarkAddsNothing DEF Gains, GainsOf, Ids
  <2>3. QED
    BY <1>1, <1>6, <2>1, <2>2 DEF Mark
<1>7. ASSUME NEW i \in Ids, Close(i)
      PROVE  Balance'
  <2>1. PICK pnl \in Int :
          /\ keeper'.closed = Append(keeper.closed, pnl)
          /\ keeper.pc = "scan" /\ keeper'.pc = "scan"
          /\ i \notin Closed /\ Ids' = Ids /\ Closed' = Closed \cup {i}
          /\ positions'[i].realized = pnl
          /\ \A j \in Ids \ {i} : positions'[j] = positions[j]
    BY <1>7, CloseAdds
  <2>2. UNCHANGED <<account, gone>>
    BY <1>7 DEF Close
  <2>3. positions' \in Seq(Position) /\ Len(positions') = Len(positions) /\ Ids = 1..Len(positions)
    <3>1. positions' \in Seq(Position) /\ DOMAIN positions' = DOMAIN positions
      BY <1>a, <2>1 DEF IndType, TypeOK, Ids
    <3>2. QED
      BY <1>0, <3>1 DEF Ids
  <2>4. Total(Gains') = Total(Gains) - 0 + pnl
    <3> DEFINE s == GainsOf(positions)
               t == GainsOf(positions')
    <3>1. /\ s \in Seq(Int) /\ Len(s) = Len(positions)
          /\ \A j \in Ids : s[j] = IF positions[j].status = "CLOSED" THEN positions[j].realized ELSE 0
      BY <1>0, <2>3, GainsType
    <3>2. /\ t \in Seq(Int) /\ Len(t) = Len(positions)
          /\ \A j \in Ids : t[j] = IF positions'[j].status = "CLOSED" THEN positions'[j].realized ELSE 0
      BY <2>3, GainsType
    <3> HIDE DEF s, t
    <3>3. positions[i].status # "CLOSED" /\ positions'[i].status = "CLOSED"
      BY <2>1 DEF Closed
    <3>4. s[i] = 0 /\ t[i] = pnl /\ \A j \in 1..Len(s) : j # i => s[j] = t[j]
      BY <2>1, <2>3, <3>1, <3>2, <3>3
    <3>5. i \in 1..Len(s) /\ Len(s) = Len(t)
      BY <2>3, <3>1, <3>2
    <3>6. Total(t) = Total(s) - s[i] + t[i]
      BY <3>1, <3>2, <3>4, <3>5, TotalReplace
    <3>7. Gains' = t /\ Gains = s
      BY DEF Gains, s, t
    <3>8. QED
      BY <3>4, <3>6, <3>7
  <2>5. Total(keeper'.closed) = Total(keeper.closed) + pnl
    BY <1>0, <2>1, TotalAppend
  <2>6. account'.equity + Total(keeper'.closed) + Total(gone') = Seed + Total(Gains')
    <3>1. /\ account.equity + Total(keeper.closed) + Total(gone) = Seed + Total(Gains)
          /\ account'.equity = account.equity /\ gone' = gone
      BY <2>2 DEF Balance
    <3> DEFINE before == Total(Gains)
               after == Total(Gains')
               held == Total(keeper.closed)
               holds == Total(keeper'.closed)
               equity == account.equity
               lost == Total(gone)
    <3>2. /\ before \in Int /\ held \in Int /\ equity \in Int /\ lost \in Int /\ Seed \in Int
          /\ after = before - 0 + pnl /\ holds = held + pnl
          /\ equity + held + lost = Seed + before
      BY <1>0, <1>b, <2>4, <2>5, <3>1
    <3> HIDE DEF before, after, held, holds, equity, lost
    <3>3. equity + holds + lost = Seed + after
      BY <3>2
    <3>4. QED
      BY <3>1, <3>3 DEF after, holds, equity, lost
  <2>7. QED
    BY <2>1, <2>2, <2>6 DEF Balance
<1>8. CASE ReadAccount
  <2>1. /\ keeper'.pc = "book" /\ keeper'.closed = keeper.closed /\ keeper'.next = keeper.next
        /\ keeper'.draft = Rolled(account, today) /\ UNCHANGED <<account, gone, positions>>
        /\ keeper.pc = "scan"
    BY <1>0, <1>8 DEF ReadAccount, Keeper
  <2>2. keeper'.draft.equity = account.equity
    BY <1>0, <2>1, RolledFacts DEF IndType, TypeOK
  <2>3. keeper'.next - 1 = 0 /\ Sums(keeper.closed)[0] = 0
    BY <1>0, <2>1, SumsRecur DEF Ledger
  <2>4. keeper'.draft.equity = account.equity + Sums(keeper.closed)[keeper'.next - 1]
    BY <1>0, <2>2, <2>3
  <2>5. QED
    BY <1>3, <2>1, <2>4 DEF Balance
<1>9. CASE Book
  <2> DEFINE n == keeper.next
             pnl == keeper.closed[n]
  <2>1. n \in 1..Len(keeper.closed) /\ pnl \in Int
    <3>1. n <= Len(keeper.closed)
      BY <1>9 DEF Book
    <3>2. n \in 1..Len(keeper.closed)
      BY <1>0, <3>1
    <3>3. QED
      BY <1>0, <3>2
  <2>2. /\ keeper'.pc = "book" /\ keeper'.next = n + 1 /\ keeper'.closed = keeper.closed
        /\ keeper'.draft = Booked(keeper.draft, pnl) /\ keeper.pc = "book"
        /\ UNCHANGED <<account, gone, positions>>
    BY <1>0, <1>9 DEF Book, Keeper
  <2>3. keeper'.draft.equity = keeper.draft.equity + pnl
    <3> HIDE DEF pnl
    <3>1. QED
      BY <1>0, <2>1, <2>2, BookedFacts
  <2>4. /\ Sums(keeper.closed)[n] = Sums(keeper.closed)[n - 1] + pnl
        /\ Sums(keeper.closed)[n - 1] \in Int
    <3> DEFINE closed == keeper.closed
    <3>1. closed \in Seq(Int) /\ Len(closed) \in Nat /\ n \in 1..Len(closed)
      BY <1>0, <2>1
    <3> HIDE DEF closed, n
    <3>2. n - 1 \in 0..Len(closed)
      BY <3>1
    <3>3. Sums(closed)[n] = Sums(closed)[n - 1] + closed[n] /\ Sums(closed)[n - 1] \in Int
      BY <3>1, <3>2, SumsRecur
    <3>4. QED
      BY <3>3 DEF closed
  <2> HIDE DEF pnl
  <2>5. keeper'.draft.equity = account.equity + Sums(keeper.closed)[n]
    BY <1>0, <2>1, <2>2, <2>3, <2>4 DEF Balance
  <2>6. keeper'.next - 1 = n
    BY <1>0, <2>2
  <2>7. QED
    BY <1>3, <2>2, <2>5, <2>6 DEF Balance
<1>10. CASE WriteAccount
  <2>1. /\ keeper.pc = "book" /\ keeper.next - 1 = Len(keeper.closed)
        /\ account' = keeper.draft /\ UNCHANGED <<gone, positions>>
        /\ keeper'.pc = "idle" /\ keeper'.closed = <<>>
    BY <1>0, <1>10 DEF WriteAccount, AllBooked, Idle
  <2>2. Sums(keeper.closed)[keeper.next - 1] = Total(keeper.closed)
    BY <2>1 DEF Total
  <2>3. account'.equity + 0 + Total(gone) = Seed + Total(Gains)
    BY <1>0, <1>b, <2>1, <2>2 DEF Balance
  <2>4. QED
    BY <1>3, <2>1, <2>3, TotalEmpty DEF Balance
<1>11. CASE EndTick \/ RefuseDates \/ Fault
  <2>1. /\ keeper'.pc = "idle" /\ keeper'.closed = <<>> /\ UNCHANGED <<account, positions>>
        /\ \/ keeper.closed = <<>> /\ gone' = gone
           \/ gone' = gone \o keeper.closed
    BY <1>11 DEF EndTick, RowIsDue, RefuseDates, Fault, LoseTick, Idle
  <2>2. Total(gone') = Total(gone) + Total(keeper.closed)
    <3>1. CASE keeper.closed = <<>> /\ gone' = gone
      BY <1>b, <3>1, TotalEmpty
    <3>2. CASE gone' = gone \o keeper.closed
      BY <1>0, <3>2, TotalJoined
    <3>3. QED
      BY <2>1, <3>1, <3>2
  <2>3. account.equity + 0 + Total(gone') = Seed + Total(Gains)
    BY <1>0, <1>b, <2>2 DEF Balance
  <2>4. QED
    BY <1>3, <2>1, <2>3, TotalEmpty DEF Balance
<1>12. ASSUME NEW t \in Trades, Open(t)
       PROVE  Balance'
  <2>1. /\ Ids' = 1..(Len(positions) + 1) /\ Ids = 1..Len(positions)
        /\ \A j \in Ids : positions'[j] = positions[j]
        /\ Closed' = Closed
    BY <1>12, OpenAddsNothing
  <2>2. /\ positions' \in Seq(Position) /\ Len(positions') = Len(positions) + 1
        /\ Len(positions) \in Nat
    BY <1>0, <1>a, <1>12 DEF Open, IndType, TypeOK
  <2>3. Gains' = Append(Gains, 0)
    <3> DEFINE s == GainsOf(positions)
               r == GainsOf(positions')
               N == Len(positions)
    <3>1. /\ s \in Seq(Int) /\ Len(s) = N
          /\ \A j \in 1..N : s[j] = IF positions[j].status = "CLOSED" THEN positions[j].realized ELSE 0
      BY <1>0, GainsType
    <3>2. /\ r \in Seq(Int) /\ Len(r) = N + 1
          /\ \A j \in 1..(N + 1) :
               r[j] = IF positions'[j].status = "CLOSED" THEN positions'[j].realized ELSE 0
      BY <2>2, GainsType
    <3> HIDE DEF s, r
    <3>3. N + 1 \in Ids' /\ N + 1 \notin Closed /\ positions'[N + 1].status # "CLOSED"
      BY <2>1, <2>2 DEF Closed
    <3>4. r[N + 1] = 0 /\ \A j \in 1..N : r[j] = s[j]
      <4>1. N + 1 \in 1..(N + 1) /\ \A j \in 1..N : j \in 1..(N + 1) /\ j \in Ids
        BY <2>1, <2>2
      <4>2. r[N + 1] = 0
        BY <3>2, <3>3, <4>1
      <4>3. \A j \in 1..N : positions'[j] = positions[j]
        BY <2>1, <4>1
      <4>4. QED
        BY <3>1, <3>2, <4>1, <4>2, <4>3
    <3> HIDE DEF N
    <3>5. /\ Append(s, 0) \in Seq(Int) /\ Len(Append(s, 0)) = N + 1
          /\ \A j \in 1..(N + 1) : Append(s, 0)[j] = r[j]
      BY <2>2, <3>1, <3>4 DEF N
    <3>6. r = Append(s, 0)
      BY <3>2, <3>5, SeqEqual
    <3>7. QED
      BY <3>6 DEF Gains, s, r
  <2>4. Total(Gains') = Total(Gains)
    <3>1. Gains \in Seq(Int)
      BY <1>0, GainsType DEF Gains
    <3>2. Total(Append(Gains, 0)) = Total(Gains) + 0
      BY <3>1, TotalAppend
    <3>3. QED
      BY <1>b, <2>3, <3>2
  <2>5. QED
    BY <1>2, <1>12, <2>4 DEF Open
<1>13. CASE (\E p \in Prices : Quote(p)) \/ NewDay \/ UNCHANGED vars
  BY <1>2, <1>3, <1>13 DEF Quote, NewDay, vars
<1>14. QED
  BY <1>4, <1>5, <1>6, <1>7, <1>8, <1>9, <1>10, <1>11, <1>12, <1>13 DEF Next, KeeperStep

LEMMA BalanceIsKept == Balance => AccountIsBalanced
<1>1. Gains = [i \in Ids |-> IF i \in Closed THEN positions[i].realized ELSE 0]
  BY DEF Gains, GainsOf, Ids, Closed
<1>2. QED
  BY <1>1 DEF Balance, AccountIsBalanced, TotalPending, TotalRealized

\* Seed and closed positions are in the account, in the hands of the running
\* tick or in what failed and refused ticks had in hand, and nowhere twice
\* (tick and refresh_account_snapshot).
THEOREM Balanced == Init /\ [][Next]_vars => []AccountIsBalanced
BY BalanceIsKept, InitType, NextType, KeeperInit, KeeperNext, LedgerInit, LedgerNext, BalanceInit,
   BalanceNext, PTL

-----------------------------------------------------------------------------
(* Losses that were booked pause trading *)

\* Every closed position is booked, about to be, or gone, each with what it
\* realised.
Counted ==
    /\ Cardinality(Closed) = Len(booked) + Len(keeper.closed) + Len(gone)
    /\ \A n \in 1..Len(booked) : \E j \in Closed : booked[n].pnl = positions[j].realized
    /\ \A n \in 1..Len(keeper.closed) : \E j \in Closed : keeper.closed[n] = positions[j].realized

LEMMA ClosedFinite == IndType => IsFiniteSet(Closed) /\ Cardinality(Closed) \in Nat
<1> SUFFICES ASSUME IndType PROVE IsFiniteSet(Closed) /\ Cardinality(Closed) \in Nat
  OBVIOUS
<1>1. Closed \in SUBSET (1..Len(positions)) /\ Len(positions) \in Nat
  BY DEF Closed, Ids, IndType, TypeOK
<1>2. IsFiniteSet(1..Len(positions))
  BY <1>1, FS_Interval
<1>3. QED
  BY <1>1, <1>2, FS_Subset, FS_CardinalityType

LEMMA LogsJoined ==
    ASSUME NEW s \in Seq(Entry), NEW t \in Seq(Entry), NEW N, Len(s) = N, NEW M, Len(t) = M
    PROVE  /\ Len(s \o t) = N + M
           /\ \A n \in 1..N : (s \o t)[n] = s[n]
           /\ \A n \in (N + 1)..(N + M) : (s \o t)[n] = t[n - N]
OBVIOUS

LEMMA CountedInit == Init => Counted
<1> SUFFICES ASSUME Init PROVE Counted
  OBVIOUS
<1>1. booked = <<>> /\ keeper.closed = <<>> /\ gone = <<>> /\ Closed = {}
  BY DEF Init, Idle, Closed, Ids
<1>2. Len(booked) = 0 /\ Len(keeper.closed) = 0 /\ Len(gone) = 0 /\ Cardinality(Closed) = 0
  BY <1>1, FS_EmptySet
<1>3. QED
  BY <1>2 DEF Counted

LEMMA CountedNext == IndType /\ KeeperInv /\ Balance /\ Counted /\ [Next]_vars => Counted'
<1> SUFFICES ASSUME IndType, KeeperInv, Balance, Counted, [Next]_vars PROVE Counted'
  OBVIOUS
<1>0. /\ keeper \in Keeper /\ keeper.closed \in Seq(Int) /\ booked \in Seq(Entry)
      /\ gone \in Seq(Int) /\ IsFiniteSet(Closed) /\ Cardinality(Closed) \in Nat
      /\ Len(booked) \in Nat /\ Len(keeper.closed) \in Nat /\ Len(gone) \in Nat
  BY ClosedFinite DEF IndType, TypeOK, Keeper, Entry
<1>1. ASSUME UNCHANGED <<booked, gone>>, keeper'.closed = keeper.closed, Closed' = Closed,
             \A j \in Closed : positions'[j].realized = positions[j].realized
      PROVE  Counted'
  BY <1>1 DEF Counted
<1>2. CASE StartTick
  <2>1. keeper'.closed = <<>> /\ keeper.closed = <<>>
    BY <1>2 DEF StartTick, Idle, Balance
  <2>2. QED
    BY <1>1, <1>2, <2>1 DEF StartTick, Closed, Ids
<1>3. ASSUME NEW i \in Ids, Skip(i)
      PROVE  Counted'
  <2>1. keeper'.closed = keeper.closed
    BY <1>0, <1>3 DEF Skip, Keeper
  <2>2. QED
    BY <1>1, <1>3, <2>1 DEF Skip, Closed, Ids
<1>4. ASSUME NEW i \in Ids, Mark(i)
      PROVE  Counted'
  <2>1. keeper'.closed = keeper.closed
    BY <1>0, <1>4 DEF Mark, Keeper
  <2>2. Closed' = Closed /\ \A j \in Closed : positions'[j].realized = positions[j].realized
    BY <1>4, MarkAddsNothing DEF Closed
  <2>3. QED
    BY <1>1, <1>4, <2>1, <2>2 DEF Mark
<1>5. ASSUME NEW i \in Ids, Close(i)
      PROVE  Counted'
  <2>1. PICK pnl \in Int :
          /\ keeper'.closed = Append(keeper.closed, pnl)
          /\ keeper.pc = "scan" /\ keeper'.pc = "scan"
          /\ i \notin Closed /\ Ids' = Ids /\ Closed' = Closed \cup {i}
          /\ positions'[i].realized = pnl
          /\ \A j \in Ids \ {i} : positions'[j] = positions[j]
    BY <1>5, CloseAdds
  <2>2. UNCHANGED <<booked, gone>>
    BY <1>5 DEF Close
  <2>3. /\ Len(keeper'.closed) = Len(keeper.closed) + 1
        /\ \A n \in 1..Len(keeper.closed) : keeper'.closed[n] = keeper.closed[n]
        /\ keeper'.closed[Len(keeper.closed) + 1] = pnl
    BY <1>0, <2>1
  <2>4. Cardinality(Closed') = Cardinality(Closed) + 1
    BY <1>0, <2>1, FS_AddElement
  <2>5. \A j \in Closed : j \in Closed' /\ positions'[j].realized = positions[j].realized
    BY <2>1 DEF Closed
  <2>6. ASSUME NEW n \in 1..Len(keeper'.closed)
        PROVE  \E j \in Closed' : keeper'.closed[n] = positions'[j].realized
    <3>1. CASE n = Len(keeper.closed) + 1
      BY <2>1, <2>3, <3>1
    <3>2. CASE n # Len(keeper.closed) + 1
      <4>1. n \in 1..Len(keeper.closed)
        BY <1>0, <2>3, <2>6, <3>2
      <4>2. PICK j \in Closed : keeper.closed[n] = positions[j].realized
        BY <2>6, <4>1 DEF Counted
      <4>3. QED
        BY <2>3, <2>5, <4>1, <4>2
    <3>3. QED
      BY <3>1, <3>2
  <2>7. ASSUME NEW n \in 1..Len(booked')
        PROVE  \E j \in Closed' : booked'[n].pnl = positions'[j].realized
    <3>1. PICK j \in Closed : booked[n].pnl = positions[j].realized
      BY <2>2, <2>7 DEF Counted
    <3>2. QED
      BY <2>2, <2>5, <3>1
  <2>8. Cardinality(Closed') = Len(booked') + Len(keeper'.closed) + Len(gone')
    BY <1>0, <2>2, <2>3, <2>4 DEF Counted
  <2>9. QED
    BY <2>2, <2>6, <2>7, <2>8 DEF Counted
<1>6. CASE ReadAccount \/ Book
  <2>1. keeper'.closed = keeper.closed
    BY <1>0, <1>6 DEF ReadAccount, Book, Keeper
  <2>2. QED
    BY <1>1, <1>6, <2>1 DEF ReadAccount, Book, Closed, Ids
<1>7. CASE WriteAccount
  <2> DEFINE N == Len(booked)
             M == Len(keeper.closed)
             more == [n \in DOMAIN keeper.closed |->
                        [pnl |-> keeper.closed[n], day |-> keeper.draft.day]]
  <2>1. /\ booked' = booked \o more /\ UNCHANGED <<positions, gone>>
        /\ keeper'.closed = <<>>
    BY <1>7 DEF WriteAccount, Idle
  <2>2. Closed' = Closed
    BY <2>1 DEF Closed, Ids
  <2>3. more \in Seq(Entry) /\ Len(more) = M /\ \A n \in 1..M : more[n].pnl = keeper.closed[n]
    <3>1. keeper.draft.day \in Nat
      BY DEF IndType, TypeOK, Keeper, Account
    <3>2. DOMAIN keeper.closed = 1..M /\ \A n \in 1..M : keeper.closed[n] \in Int
      BY <1>0
    <3>3. \A n \in 1..M : [pnl |-> keeper.closed[n], day |-> keeper.draft.day] \in Entry
      BY <3>1, <3>2 DEF Entry
    <3>4. more \in [1..M -> Entry]
      BY <3>2, <3>3
    <3>5. QED
      BY <1>0, <3>2, <3>4
  <2> HIDE DEF more
  <2>4. /\ Len(booked') = N + M
        /\ \A n \in 1..N : booked'[n] = booked[n]
        /\ \A n \in (N + 1)..(N + M) : booked'[n] = more[n - N]
    <3>1. booked \in Seq(Entry) /\ more \in Seq(Entry) /\ Len(booked) = N /\ Len(more) = M
      BY <1>0, <2>3
    <3> HIDE DEF N, M
    <3>2. /\ Len(booked \o more) = N + M
          /\ \A n \in 1..N : (booked \o more)[n] = booked[n]
          /\ \A n \in (N + 1)..(N + M) : (booked \o more)[n] = more[n - N]
      BY <3>1, LogsJoined
    <3>3. QED
      BY <2>1, <3>2, Zenon
  <2>5. ASSUME NEW n \in 1..Len(booked')
        PROVE  \E j \in Closed' : booked'[n].pnl = positions'[j].realized
    <3>1. CASE n <= N
      <4>1. n \in 1..N
        BY <1>0, <2>4, <3>1
      <4>2. PICK j \in Closed : booked[n].pnl = positions[j].realized
        BY <2>5, <4>1 DEF Counted
      <4>3. QED
        BY <2>1, <2>2, <2>4, <4>1, <4>2
    <3>2. CASE ~(n <= N)
      <4>1. n - N \in 1..M /\ n \in (N + 1)..(N + M)
        BY <1>0, <2>4, <3>2
      <4>2. PICK j \in Closed : keeper.closed[n - N] = positions[j].realized
        BY <2>5, <4>1 DEF Counted
      <4>3. booked'[n].pnl = keeper.closed[n - N]
        BY <2>3, <2>4, <4>1
      <4>4. QED
        BY <2>1, <2>2, <4>2, <4>3
    <3>3. QED
      BY <3>1, <3>2
  <2>6. Len(keeper'.closed) = 0
    BY <2>1
  <2>7. Cardinality(Closed') = Len(booked') + Len(keeper'.closed) + Len(gone')
    <3>1. Cardinality(Closed') = N + M + Len(gone)
      BY <2>2 DEF Counted
    <3>2. gone' = gone
      BY <2>1
    <3>3. QED
      BY <1>0, <2>4, <2>6, <3>1, <3>2
  <2>8. QED
    BY <2>1, <2>5, <2>6, <2>7 DEF Counted
<1>8. CASE EndTick \/ RefuseDates \/ Fault
  <2>1. /\ keeper'.closed = <<>> /\ UNCHANGED <<booked, positions>>
        /\ \/ keeper.closed = <<>> /\ gone' = gone
           \/ gone' = gone \o keeper.closed
    BY <1>8 DEF EndTick, RowIsDue, RefuseDates, Fault, LoseTick, Idle
  <2>2. Len(keeper'.closed) = 0 /\ Len(gone') = Len(gone) + Len(keeper.closed)
    BY <1>0, <2>1
  <2>3. Closed' = Closed
    BY <2>1 DEF Closed, Ids
  <2>4. QED
    BY <1>0, <2>1, <2>2, <2>3 DEF Counted
<1>9. ASSUME NEW t \in Trades, Open(t)
      PROVE  Counted'
  <2>1. Closed' = Closed /\ \A j \in Closed : positions'[j].realized = positions[j].realized
    BY <1>9, OpenAddsNothing DEF Closed
  <2>2. QED
    BY <1>1, <1>9, <2>1 DEF Open
<1>10. CASE (\E p \in Prices : Quote(p)) \/ NewDay \/ UNCHANGED vars
  BY <1>1, <1>10 DEF Quote, NewDay, vars, Closed, Ids
<1>11. QED
  BY <1>2, <1>3, <1>4, <1>5, <1>6, <1>7, <1>8, <1>9, <1>10 DEF Next, KeeperStep

\* The streak of a log of losses is all of it.
LEMMA LossesOnly ==
    ASSUME NEW log \in Seq(Entry), \A n \in 1..Len(log) : log[n].pnl < 0
    PROVE  Cardinality(LossStreak(log)) = Len(log)
<1>1. DOMAIN log = 1..Len(log) /\ Len(log) \in Nat /\ \A n \in 1..Len(log) : log[n] \in Entry
  OBVIOUS
<1>2. \A n \in 1..Len(log) : log[n].pnl <= 0
  BY <1>1 DEF Entry
<1>3. LossStreak(log) = 1..Len(log)
  BY <1>1, <1>2 DEF LossStreak
<1> DEFINE N == Len(log)
<1>4. N \in Nat
  BY <1>1
<1> HIDE DEF N
<1>5. Cardinality(1..N) = N
  BY <1>4, FS_Interval
<1>6. QED
  BY <1>3, <1>5 DEF N

\* The promise of V004 less what failed ticks took away.
PausedAfterBooked ==
    /\ keeper.pc = "idle"
    /\ \A i \in Closed : positions[i].realized < 0
    /\ Cardinality(Closed) >= PauseAfter + Len(gone)
    => account.streak >= PauseAfter

\* Once every position closed was a loss, and there were enough of them beside
\* those whose tick failed, the streak in the account is the pause V004
\* promises: a failed tick costs the pause what it had closed and no more.
THEOREM LossesPause ==
    Init /\ [][Next]_vars => /\ []PausedAfterBooked
                             /\ [](gone = <<>> => PausedAfterLosses)
<1>1. IndType /\ Ledger /\ Balance /\ Counted => PausedAfterBooked
  <2> SUFFICES ASSUME IndType, Ledger, Balance, Counted, keeper.pc = "idle",
                      \A i \in Closed : positions[i].realized < 0,
                      Cardinality(Closed) >= PauseAfter + Len(gone)
               PROVE  account.streak >= PauseAfter
    BY DEF PausedAfterBooked
  <2>1. booked \in Seq(Entry) /\ Len(booked) \in Nat /\ Len(gone) \in Nat
    BY DEF IndType, TypeOK, Entry
  <2>2. Len(keeper.closed) = 0
    BY DEF Balance
  <2>3. Cardinality(Closed) = Len(booked) + Len(gone)
    BY <2>1, <2>2 DEF Counted
  <2>4. \A n \in 1..Len(booked) : booked[n].pnl < 0
    BY DEF Counted
  <2>5. account.streak = Cardinality(LossStreak(booked))
    BY DEF Ledger, Dated, AddsUp
  <2>6. account.streak = Len(booked)
    BY <2>1, <2>4, <2>5, LossesOnly
  <2>7. QED
    BY <2>1, <2>3, <2>6
<1>2. IndType /\ PausedAfterBooked => (gone = <<>> => PausedAfterLosses)
  BY DEF PausedAfterBooked, PausedAfterLosses
<1>3. QED
  BY <1>1, <1>2, InitType, NextType, KeeperInit, KeeperNext, LedgerInit, LedgerNext, BalanceInit,
     BalanceNext, CountedInit, CountedNext, PTL

-----------------------------------------------------------------------------
(* The account loses what was planned *)

\* What the closed positions risked: the distance of each to its stop.
Risked == [i \in Ids |-> IF i \in Closed THEN -Risk(positions[i].trade) ELSE 0]

LEMMA RiskedBelowGains ==
    ASSUME IndType, LossIsPlanned
    PROVE  Total(Risked) <= Total(Gains) /\ Total(Risked) \in Int /\ Total(Gains) \in Int
<1>0. /\ positions \in Seq(Position) /\ Len(positions) \in Nat /\ Ids = 1..Len(positions)
      /\ \A i \in Ids : positions[i] \in Position
  BY DEF IndType, TypeOK, Ids
<1>1. /\ Gains \in Seq(Int) /\ Len(Gains) = Len(positions)
      /\ \A i \in Ids : Gains[i] = IF i \in Closed THEN positions[i].realized ELSE 0
  BY <1>0, GainsType DEF Gains, Closed
<1>2. \A i \in Ids : Risk(positions[i].trade) \in Int /\ positions[i].realized \in Int
  <2>1. TAKE i \in Ids
  <2>2. positions[i].trade \in Trade /\ positions[i].realized \in Int
    BY <1>0 DEF Position
  <2>3. QED
    BY <2>2 DEF Trade, Risk
<1>3. /\ Risked \in Seq(Int) /\ Len(Risked) = Len(positions)
      /\ \A i \in Ids : Risked[i] = IF i \in Closed THEN -Risk(positions[i].trade) ELSE 0
  <2>1. Risked \in [1..Len(positions) -> Int]
    BY <1>0, <1>2 DEF Risked
  <2>2. QED
    BY <1>0, <2>1 DEF Risked
<1>4. \A i \in Ids : Risked[i] <= Gains[i]
  BY <1>1, <1>2, <1>3 DEF LossIsPlanned
<1>5. QED
  BY <1>0, <1>1, <1>3, <1>4, TotalOrdered, TotalType

\* The account, the running tick and the failed ones have lost together at most
\* what the positions closed so far had risked, wherever prices were by the time
\* the keeper looked.
THEOREM LossesArePlanned ==
    Init /\ [][Next]_vars
    => [](account.equity + TotalPending + Total(gone) >= Seed + Total(Risked))
<1>1. IndType /\ LossIsPlanned /\ Balance
      => account.equity + TotalPending + Total(gone) >= Seed + Total(Risked)
  <2> SUFFICES ASSUME IndType, LossIsPlanned, Balance
               PROVE  account.equity + TotalPending + Total(gone) >= Seed + Total(Risked)
    OBVIOUS
  <2>1. account.equity + TotalPending + Total(gone) = Seed + Total(Gains)
    BY DEF Balance, TotalPending
  <2>2. QED
    BY <2>1, RiskedBelowGains
<1>2. QED
  BY <1>1, InitType, NextType, PlannedInit, PlannedNext, KeeperInit, KeeperNext, LedgerInit,
     LedgerNext, BalanceInit, BalanceNext, PTL

-----------------------------------------------------------------------------
(* The ledger beside the places *)

\* The keeper in the loop of trading behaves as the keeper alone may: a place
\* does to its state what Open does.
THEOREM TradingUsesKeeper == TradingSpec => Init /\ [][Next]_vars
<1>1. TradingInit => Init
  BY DEF TradingInit
<1>2. QED
  BY <1>1, TypeInit, TypeNext, KeeperSide, PTL DEF TradingSpec

\* No interleaving of places with the keeper makes a snapshot that does not add
\* up, loses or doubles a profit, loses more than was risked, or loses a pause
\* that the booked losses have earned.
THEOREM TradingLedger ==
    TradingSpec => /\ []SnapshotAddsUp
                   /\ []AccountIsBalanced
                   /\ [](account.equity + TotalPending + Total(gone) >= Seed + Total(Risked))
                   /\ []PausedAfterBooked
BY TradingUsesKeeper, SnapshotsAddUp, Balanced, LossesArePlanned, LossesPause, PTL
=============================================================================
