-------------------------- MODULE SchedulerProofs --------------------------
(***************************************************************************)
(* How many feedback loops can run at once, for any number of starts and   *)
(* stops; and what the PI controller does to the shares, for any engines,  *)
(* policies and occupancies.                                               *)
(***************************************************************************)
EXTENDS Scheduler, SumTheorems

LEMMA Bounds == MaxLoops \in Nat /\ MaxTimeouts \in Nat
BY SchedulerConstants

\* The threads' state keeps its types; the lock is held by the one loop that is
\* in a tick, also when a tick raises.
LEMMA ThreadsTypeInit == Init => ThreadsTypeOK
<1> SUFFICES ASSUME Init PROVE ThreadsTypeOK
    OBVIOUS
<1>1. running \in BOOLEAN /\ stopping \in BOOLEAN
      BY DEF Init
<1>2. /\ latest \in 0 .. MaxLoops /\ timeouts \in 0 .. MaxTimeouts
      /\ \A l \in Loops : l > latest /\ lock # l
      BY Bounds DEF Init, Loops
<1>3. /\ pc \in [Loops -> {"none", "check", "sleep", "tick", "ended", "died"}]
      /\ \A l \in Loops : pc[l] = "none"
      BY DEF Init
<1>4. lock \in Loops \cup {0}
      BY DEF Init
<1> QED BY <1>1, <1>2, <1>3, <1>4 DEF ThreadsTypeOK

LEMMA ThreadsTypeStep == ThreadsTypeOK /\ [Next]_vars => ThreadsTypeOK'
<1> SUFFICES ASSUME ThreadsTypeOK, [Next]_vars PROVE ThreadsTypeOK'
    OBVIOUS
<1> USE Bounds DEF ThreadsTypeOK, Loops
<1>1. CASE Start
      BY <1>1 DEF Start
<1>2. CASE Stop
  <2>1. CASE latest > 0
        BY <1>2, <2>1 DEF Stop
  <2>2. CASE ~(latest > 0)
    <3>1. (latest > 0) = FALSE
          BY <2>2
    <3>2. stopping' = FALSE
          BY <1>2, <3>1 DEF Stop
    <3> QED BY <1>2, <3>2 DEF Stop
  <2> QED BY <2>1, <2>2
<1>3. CASE Joined
  <2>1. timeouts' \in 0 .. MaxTimeouts
        BY <1>3 DEF Joined
  <2> QED BY <1>3, <2>1 DEF Joined
<1>4. CASE SetPolicy
      BY <1>4 DEF SetPolicy, threadVars
<1>5. ASSUME NEW l \in Loops, LoopStep(l) PROVE ThreadsTypeOK'
  <2>1. CASE Check(l)
        BY <2>1 DEF Check
  <2>2. CASE BeginTick(l)
        BY <2>2 DEF BeginTick
  <2>3. CASE EndTick(l)
        BY <2>3 DEF EndTick
  <2> QED BY <1>5, <2>1, <2>2, <2>3 DEF LoopStep
<1>6. CASE UNCHANGED vars
      BY <1>6 DEF vars, threadVars
<1> QED BY <1>1, <1>2, <1>3, <1>4, <1>5, <1>6 DEF Next

\* The loops that are not the latest were left behind by calls of stop() that
\* gave up; when the scheduler is off, so was the latest, if it still runs.
LeftBehind ==
  /\ Cardinality(Active \ {latest}) <= timeouts
  /\ stopping => ~running
  /\ ~running /\ ~stopping => Cardinality(Active) <= timeouts

LEMMA ActiveFinite == IsFiniteSet(Active) /\ \A l : IsFiniteSet(Active \ {l})
<1>1. IsFiniteSet(Loops)
      BY FS_Interval, Bounds DEF Loops
<1> QED BY <1>1, FS_Subset DEF Active

LEMMA LeftBehindInit == Init => LeftBehind
<1> SUFFICES ASSUME Init PROVE LeftBehind
    OBVIOUS
<1>1. Active = {}
      BY DEF Init, Active
<1> QED BY <1>1, FS_EmptySet DEF Init, LeftBehind

\* A step of a loop makes no loop active.
LEMMA LoopStepEndsOnly ==
  ASSUME ThreadsTypeOK, NEW l \in Loops, LoopStep(l)
  PROVE  Active' \subseteq Active
<1>1. pc[l] \in {"check", "sleep", "tick"} /\ \A m \in Loops \ {l} : pc'[m] = pc[m]
      BY DEF LoopStep, Check, BeginTick, EndTick, ThreadsTypeOK
<1> QED BY <1>1 DEF Active

LEMMA LeftBehindStep ==
  ThreadsTypeOK /\ LeftBehind /\ [Next]_vars => LeftBehind'
<1> SUFFICES ASSUME ThreadsTypeOK, LeftBehind, [Next]_vars PROVE LeftBehind'
    OBVIOUS
<1>0. timeouts \in Nat /\ Cardinality(Active) \in Nat
      BY ActiveFinite, FS_CardinalityType DEF ThreadsTypeOK
<1>1. CASE Start
  <2>1. Active' \ {latest'} = Active
        BY <1>1, Bounds DEF Start, Active, Loops, ThreadsTypeOK
  <2> QED BY <1>1, <2>1 DEF Start, LeftBehind
<1>2. CASE Stop
  <2>1. Active' = Active
        BY <1>2 DEF Stop, Active
  <2>2. CASE latest = 0
    <3>1. Active = {}
          BY <2>2 DEF Active, ThreadsTypeOK, Loops
    <3> QED BY <1>0, <1>2, <2>1, <3>1, FS_EmptySet DEF Stop, LeftBehind
  <2>3. CASE latest > 0
        BY <1>2, <2>1, <2>3 DEF Stop, LeftBehind
  <2> QED BY <2>2, <2>3 DEF ThreadsTypeOK
<1>3. CASE Joined
  <2>1. Active' = Active /\ latest' = latest
        BY <1>3 DEF Joined, Active
  <2>2. CASE latest \in Active
    <3>1. Cardinality(Active \ {latest}) = Cardinality(Active) - 1
          BY <2>2, ActiveFinite, FS_RemoveElement
    <3> QED BY <1>0, <1>3, <2>1, <2>2, <3>1 DEF Joined, LeftBehind
  <2>3. CASE latest \notin Active
    <3>1. Active \ {latest} = Active
          BY <2>3
    <3> QED BY <1>3, <2>1, <2>3, <3>1 DEF Joined, LeftBehind
  <2> QED BY <2>2, <2>3
<1>4. CASE SetPolicy
      BY <1>4 DEF SetPolicy, threadVars, LeftBehind, Active
<1>5. ASSUME NEW l \in Loops, LoopStep(l) PROVE LeftBehind'
  <2>1. Active' \subseteq Active /\ Active' \ {latest} \subseteq Active \ {latest}
        BY <1>5, LoopStepEndsOnly
  <2>2. /\ Cardinality(Active') <= Cardinality(Active)
        /\ Cardinality(Active' \ {latest}) <= Cardinality(Active \ {latest})
        BY <2>1, ActiveFinite, FS_Subset
  <2>3. UNCHANGED <<running, stopping, latest, timeouts>>
        BY <1>5 DEF LoopStep, Check, BeginTick, EndTick
  <2>4. Cardinality(Active') \in Nat /\ Cardinality(Active' \ {latest}) \in Nat
        /\ Cardinality(Active \ {latest}) \in Nat
        BY <2>1, ActiveFinite, FS_Subset, FS_CardinalityType
  <2> QED BY <1>0, <2>2, <2>3, <2>4 DEF LeftBehind
<1>6. CASE UNCHANGED vars
      BY <1>6 DEF vars, threadVars, LeftBehind, Active
<1> QED BY <1>1, <1>2, <1>3, <1>4, <1>5, <1>6 DEF Next

\* Never more loops run than one beside those that a stop() which gave up left
\* behind, however starts, stops, ticks and exceptions alternate.
THEOREM LoopsStayBounded == Spec => []LoopsBounded
<1>1. ThreadsTypeOK /\ LeftBehind => LoopsBounded
  <2> SUFFICES ASSUME ThreadsTypeOK, LeftBehind PROVE LoopsBounded
      OBVIOUS
  <2>1. Cardinality(Active) \in Nat /\ Cardinality(Active \ {latest}) \in Nat
        BY ActiveFinite, FS_CardinalityType
  <2>2. timeouts \in Nat
        BY DEF ThreadsTypeOK
  <2>3. CASE latest \in Active
    <3>1. Cardinality(Active \ {latest}) = Cardinality(Active) - 1
          BY <2>3, ActiveFinite, FS_RemoveElement
    <3> QED BY <2>1, <2>2, <3>1 DEF LeftBehind, LoopsBounded
  <2>4. CASE latest \notin Active
    <3>1. Active \ {latest} = Active
          BY <2>4
    <3> QED BY <2>1, <2>2, <3>1 DEF LeftBehind, LoopsBounded
  <2> QED BY <2>3, <2>4
<1> QED BY <1>1, ThreadsTypeInit, ThreadsTypeStep, LeftBehindInit, LeftBehindStep, PTL DEF Spec

-----------------------------------------------------------------------------
(* Arithmetic: quotients are rounded down.                                 *)

LEMMA Quotient ==
  ASSUME NEW a \in Nat, NEW b \in Nat, b > 0
  PROVE  /\ a \div b \in Nat
         /\ b * (a \div b) <= a
         /\ a <= b * (a \div b) + (b - 1)
OBVIOUS

LEMMA Cancel ==
  ASSUME NEW b \in Nat, b > 0, NEW x \in Int, NEW y \in Int, b * x <= b * y
  PROVE  x <= y
<1> SUFFICES ASSUME x >= y + 1 PROVE FALSE
    OBVIOUS
<1>1. b * x >= b * (y + 1)
      OBVIOUS
<1>2. b * (y + 1) = b * y + b
      OBVIOUS
<1> QED BY <1>1, <1>2

LEMMA QuotientLeast ==
  ASSUME NEW a \in Nat, NEW b \in Nat, b > 0, NEW q \in Nat, b * q <= a
  PROVE  q <= a \div b
<1> DEFINE r == a \div b
<1>1. r \in Nat /\ a <= b * r + (b - 1)
      BY Quotient
<1> HIDE DEF r
<1> SUFFICES ASSUME q >= r + 1 PROVE FALSE
    BY <1>1 DEF r
<1>2. b * q >= b * (r + 1)
      BY <1>1
<1>3. b * (r + 1) = b * r + b
      BY <1>1
<1>4. b * q \in Int /\ b * r \in Int
      BY <1>1
<1> QED BY <1>1, <1>2, <1>3, <1>4

\* c parts of T, rounded down, miss at most c of the whole.
LEMMA RoundingLoss ==
  ASSUME NEW T \in Nat, T > 0, NEW N \in Nat, NEW c \in Nat, NEW whole \in Nat,
         T * N <= whole * T + 0 * c, whole * T <= T * N + (T - 1) * c
  PROVE  whole - c <= N /\ N <= whole
<1>1. T * N <= T * whole
      OBVIOUS
<1>2. T * whole <= T * (N + c)
  <2>1. (T - 1) * c = T * c - c /\ T * (N + c) = T * N + T * c /\ whole * T = T * whole
        OBVIOUS
  <2>2. T * N \in Int /\ T * c \in Int /\ T * whole \in Int
        OBVIOUS
  <2> QED BY <2>1, <2>2
<1>3. N <= whole
      BY <1>1, Cancel
<1>4. whole <= N + c
      BY <1>2, Cancel
<1> QED BY <1>3, <1>4

LEMMA WithinLimits ==
  ASSUME NEW x \in MinShare .. MaxShare
  PROVE  x \in Nat /\ x <= MaxShare /\ x >= MinShare /\ x \in 0 .. One
BY DEF MinShare, MaxShare, One

LEMMA MaxOfTwo == ASSUME NEW a \in Int, NEW b \in Int PROVE Max({a, b}) = IF a >= b THEN a ELSE b
BY DEF Max

LEMMA MinOfTwo == ASSUME NEW a \in Int, NEW b \in Int PROVE Min({a, b}) = IF a <= b THEN a ELSE b
BY DEF Min

-----------------------------------------------------------------------------
(* Normalizing shares.                                                     *)

AreShares(s) ==
  /\ DOMAIN s \subseteq Engines
  /\ s \in [DOMAIN s -> 0 .. One]

LEMMA OneIsPositive == One \in Nat /\ One > 0
BY DEF One

LEMMA SharesSummable ==
  ASSUME NEW s, AreShares(s)
  PROVE  /\ IsFiniteSet(DOMAIN s) /\ Cardinality(DOMAIN s) \in Nat
         /\ \A e \in DOMAIN s : s[e] \in Nat
         /\ Total(s) \in Nat
<1>1. IsFiniteSet(DOMAIN s) /\ Cardinality(DOMAIN s) \in Nat
      BY SchedulerConstants, FS_Subset, FS_CardinalityType DEF AreShares
<1>2. \A e \in DOMAIN s : s[e] \in Nat
  <2> TAKE e \in DOMAIN s
  <2>1. s[e] \in 0 .. One
        BY DEF AreShares
  <2> QED BY <2>1
<1> QED BY <1>1, <1>2, SumType DEF Total

\* A share is a part of the total.
LEMMA ShareOfTotal ==
  ASSUME NEW s, AreShares(s), NEW e \in DOMAIN s
  PROVE  s[e] <= Total(s)
<1>1. /\ IsFiniteSet(DOMAIN s) /\ \A i \in DOMAIN s : s[i] \in Nat
      BY SharesSummable
<1>2. SumFunctionOnSet(s, DOMAIN s) = s[e] + SumFunctionOnSet(s, DOMAIN s \ {e})
      BY <1>1, SumRemove
<1>3. SumFunctionOnSet(s, DOMAIN s \ {e}) \in Nat
      BY <1>1, FS_RemoveElement, SumType
<1> QED BY <1>1, <1>2, <1>3 DEF Total

LEMMA NormalizedValue ==
  ASSUME NEW s, AreShares(s), Total(s) > 0
  PROVE  /\ DOMAIN Normalized(s) = DOMAIN s
         /\ Normalized(s) = [e \in DOMAIN s |-> (s[e] * One) \div Total(s)]
         /\ \A e \in DOMAIN s :
              /\ Normalized(s)[e] = (s[e] * One) \div Total(s)
              /\ Normalized(s)[e] \in 0 .. One
              /\ Total(s) * Normalized(s)[e] <= One * s[e]
              /\ One * s[e] <= Total(s) * Normalized(s)[e] + (Total(s) - 1)
<1>1. Normalized(s) = [e \in DOMAIN s |-> (s[e] * One) \div Total(s)]
      BY DEF Normalized
<1>2. ASSUME NEW e \in DOMAIN s
      PROVE  /\ Normalized(s)[e] = (s[e] * One) \div Total(s)
             /\ Normalized(s)[e] \in 0 .. One
             /\ Total(s) * Normalized(s)[e] <= One * s[e]
             /\ One * s[e] <= Total(s) * Normalized(s)[e] + (Total(s) - 1)
  <2> DEFINE q == (s[e] * One) \div Total(s)
  <2>1. /\ s[e] \in Nat /\ Total(s) \in Nat /\ s[e] <= Total(s)
        /\ s[e] * One \in Nat /\ s[e] * One = One * s[e]
        BY SharesSummable, ShareOfTotal DEF One
  <2>2. /\ q \in Nat /\ Total(s) * q <= s[e] * One
        /\ s[e] * One <= Total(s) * q + (Total(s) - 1)
        BY <2>1, Quotient
  <2> HIDE DEF q
  <2>3. s[e] * One <= Total(s) * One
        BY <2>1 DEF One
  <2>4. Total(s) * q <= Total(s) * One
        BY <2>1, <2>2, <2>3 DEF One
  <2>5. q <= One
        BY <2>1, <2>2, <2>4, Cancel DEF One
  <2>6. Normalized(s)[e] = q
        BY <1>1 DEF q
  <2>7. /\ q \in 0 .. One
        /\ Total(s) * q <= One * s[e]
        /\ One * s[e] <= Total(s) * q + (Total(s) - 1)
        BY <2>1, <2>2, <2>5, OneIsPositive
  <2> QED BY <2>6, <2>7, Zenon DEF q
<1> QED BY <1>1, <1>2

LEMMA NormalizedShares ==
  ASSUME NEW s, AreShares(s)
  PROVE  AreShares(Normalized(s)) /\ DOMAIN Normalized(s) = DOMAIN s
<1>1. CASE Total(s) > 0
      BY <1>1, NormalizedValue DEF AreShares
<1>2. CASE ~(Total(s) > 0)
      BY <1>2 DEF Normalized
<1> QED BY <1>1, <1>2

\* Normalized shares add up to one, less at most one unit of rounding each.
LEMMA NormalizedTotal ==
  ASSUME NEW s, AreShares(s), Total(Normalized(s)) > 0
  PROVE  Total(Normalized(s)) \in One - Cardinality(DOMAIN s) .. One
<1> DEFINE n == Normalized(s)
           T == Total(s)
           N == Total(n)
           c == Cardinality(DOMAIN s)
<1>0. T \in Nat /\ c \in Nat /\ IsFiniteSet(DOMAIN s)
      BY SharesSummable
<1>1. T > 0
  <2> SUFFICES ASSUME ~(T > 0) PROVE FALSE
      OBVIOUS
  <2>1. Normalized(s) = s
        BY DEF Normalized
  <2> QED BY <2>1
<1>2. N \in Nat
      BY NormalizedShares, SharesSummable
<1>3. \A e \in DOMAIN s : n[e] \in Nat /\ s[e] \in Nat
      BY NormalizedShares, SharesSummable
<1>4. N = SumFunctionOnSet(n, DOMAIN s) /\ T = SumFunctionOnSet(s, DOMAIN s)
      BY NormalizedShares DEF Total
<1>5. \A e \in DOMAIN s : T * n[e] <= One * s[e] + 0
  <2> TAKE e \in DOMAIN s
  <2>1. T * n[e] <= One * s[e]
        BY <1>1, NormalizedValue
  <2>2. One * s[e] \in Nat
        BY <1>3, OneIsPositive
  <2> HIDE DEF T, n
  <2> QED BY <2>1, <2>2
<1>6. \A e \in DOMAIN s : One * s[e] <= T * n[e] + (T - 1)
      BY <1>1, NormalizedValue
<1>7. T \in Int /\ One \in Int /\ 0 \in Int /\ T - 1 \in Int
      BY <1>0, OneIsPositive
<1> HIDE DEF n, T, N, c
<1>8. T * N <= One * T + 0 * c
      BY <1>0, <1>3, <1>4, <1>5, <1>7, SumLinear, Zenon DEF c
<1>9. One * T <= T * N + (T - 1) * c
      BY <1>0, <1>3, <1>4, <1>6, <1>7, SumLinear, Zenon DEF c
<1>10. One - c <= N /\ N <= One
       BY <1>0, <1>1, <1>2, <1>8, <1>9, OneIsPositive, RoundingLoss
<1> QED BY <1>0, <1>2, <1>10, OneIsPositive DEF N, n, c

\* Normalizing keeps the order of shares.
LEMMA NormalizedOrder ==
  ASSUME NEW s, AreShares(s), NEW e \in DOMAIN s, NEW f \in DOMAIN s, s[e] >= s[f]
  PROVE  Normalized(s)[e] >= Normalized(s)[f]
<1>1. CASE Total(s) > 0
  <2> DEFINE T == Total(s)
             q == Normalized(s)[f]
             r == Normalized(s)[e]
  <2>1. s[e] \in Nat /\ s[f] \in Nat /\ T \in Nat
        BY SharesSummable
  <2>2. /\ T * q <= One * s[f] /\ r = (s[e] * One) \div T
        /\ q \in 0 .. One /\ r \in 0 .. One
        BY <1>1, NormalizedValue, Zenon
  <2>3. T > 0
        BY <1>1
  <2> HIDE DEF q, r, T
  <2>4. q \in Nat /\ r \in Nat
        BY <2>2, OneIsPositive
  <2>5. One * s[f] <= s[e] * One /\ s[e] * One \in Nat /\ T * q \in Nat /\ One * s[f] \in Nat
        BY <2>1, <2>4 DEF One
  <2>6. T * q <= s[e] * One
        BY <2>2, <2>5
  <2>7. q <= (s[e] * One) \div T
        BY <2>1, <2>3, <2>4, <2>5, <2>6, QuotientLeast
  <2>8. r >= q
        BY <2>2, <2>4, <2>7
  <2> QED BY <2>8 DEF q, r
<1>2. CASE ~(Total(s) > 0)
  <2>1. s[e] \in Nat /\ s[f] \in Nat
        BY SharesSummable
  <2> QED BY <1>2, <2>1 DEF Normalized
<1> QED BY <1>1, <1>2

\* Shares within the controller's limits leave each engine its part.
LEMMA NormalizedLeast ==
  ASSUME NEW s, AreShares(s), \A i \in DOMAIN s : s[i] \in MinShare .. MaxShare,
         NEW e \in DOMAIN s
  PROVE  Normalized(s)[e] >= (MinShare * One) \div
                               (MinShare + (Cardinality(DOMAIN s) - 1) * MaxShare)
<1> DEFINE T == Total(s)
           c == Cardinality(DOMAIN s)
           K == (c - 1) * MaxShare
           q == (MinShare * One) \div (MinShare + K)
<1>a. ASSUME NEW i \in DOMAIN s
      PROVE  s[i] \in Nat /\ s[i] <= MaxShare /\ s[i] >= MinShare
  <2>1. s[i] \in MinShare .. MaxShare
        OBVIOUS
  <2> QED BY <2>1, WithinLimits, Zenon
<1>1. /\ IsFiniteSet(DOMAIN s) /\ c \in Nat /\ T \in Nat
      /\ \A i \in DOMAIN s : s[i] \in Nat /\ s[i] <= MaxShare
      /\ s[e] \in Nat /\ s[e] >= MinShare
      BY <1>a, SharesSummable
<1> DEFINE others == DOMAIN s \ {e}
<1>2. IsFiniteSet(others) /\ Cardinality(others) = c - 1 /\ c - 1 \in Nat
  <2>1. IsFiniteSet(others) /\ Cardinality(others) = c - 1
        BY <1>1, FS_RemoveElement
  <2> QED BY <2>1, FS_CardinalityType
<1>3. T = s[e] + SumFunctionOnSet(s, others) /\ SumFunctionOnSet(s, others) \in Nat
  <2>1. \A i \in others : s[i] \in Nat
        BY <1>1
  <2>2. SumFunctionOnSet(s, others) \in Nat
    <3> HIDE DEF others
    <3> QED BY <1>2, <2>1, SumType
  <2>3. SumFunctionOnSet(s, DOMAIN s) = s[e] + SumFunctionOnSet(s, others)
        BY <1>1, SumRemove
  <2> QED BY <2>2, <2>3 DEF Total
<1>4. SumFunctionOnSet(s, others) <= K
  <2>1. \A i \in others : s[i] \in Nat /\ s[i] \in Nat /\ 1 * s[i] <= 0 * s[i] + MaxShare
        BY <1>1 DEF MaxShare
  <2>2. 1 * SumFunctionOnSet(s, others) <= 0 * SumFunctionOnSet(s, others) + MaxShare * Cardinality(others)
    <3>1. 1 \in Int /\ 0 \in Int /\ MaxShare \in Int
          BY DEF MaxShare
    <3> HIDE DEF others
    <3> QED BY <1>2, <2>1, <3>1, SumLinear, Zenon
  <2> HIDE DEF others, c
  <2> QED BY <1>2, <1>3, <2>2 DEF MaxShare
<1>5. K \in Nat
      BY <1>2 DEF MaxShare
<1> HIDE DEF T, c, K, q, others
<1>6. q \in Nat /\ (MinShare + K) * q <= MinShare * One
      BY <1>5, Quotient DEF q, MinShare, One
<1>7. q <= One
  <2>1. K * q \in Nat
        BY <1>5, <1>6
  <2>2. (MinShare + K) * q = MinShare * q + K * q
        BY <1>5, <1>6 DEF MinShare
  <2> QED BY <1>6, <2>1, <2>2 DEF MinShare, One
<1>8. T * q <= s[e] * One
  <2> DEFINE d == s[e] - MinShare
  <2>1. d \in Nat /\ T <= MinShare + K + d
        BY <1>1, <1>3, <1>4, <1>5 DEF MinShare
  <2>2. T * q <= (MinShare + K + d) * q
        BY <1>1, <1>5, <1>6, <2>1 DEF MinShare
  <2>3. (MinShare + K + d) * q = (MinShare + K) * q + d * q
        BY <1>5, <1>6, <2>1 DEF MinShare
  <2>4. d * q <= d * One
        BY <1>6, <1>7, <2>1 DEF One
  <2>5. s[e] * One = MinShare * One + d * One
        BY <1>1 DEF One, MinShare
  <2>6. /\ T * q \in Int /\ (MinShare + K) * q \in Int /\ d * q \in Int
        BY <1>1, <1>5, <1>6, <2>1 DEF MinShare
  <2> HIDE DEF d
  <2> QED BY <1>1, <1>6, <2>1, <2>2, <2>3, <2>4, <2>5, <2>6 DEF One, MinShare
<1>9. T > 0
      BY <1>1, <1>3 DEF MinShare
<1>10. q <= (s[e] * One) \div T
  <2>1. s[e] * One \in Nat
        BY <1>1 DEF One
  <2> QED BY <1>1, <1>6, <1>8, <1>9, <2>1, QuotientLeast
<1>11. Normalized(s)[e] = (s[e] * One) \div T /\ Normalized(s)[e] \in Nat
  <2>1. Normalized(s)[e] = (s[e] * One) \div T /\ Normalized(s)[e] \in 0 .. One
        BY <1>9, NormalizedValue, Zenon DEF T
  <2> QED BY <2>1, OneIsPositive
<1> QED BY <1>6, <1>10, <1>11 DEF q, K, c

-----------------------------------------------------------------------------
(* The controller.                                                         *)

LEMMA PoliciesAreShares == \A p \in Policies : AreShares(p)
BY SchedulerConstants DEF AreShares

SharesTypeOK ==
  /\ AreShares(shares)
  /\ integral \in [DOMAIN shares -> Int]
  /\ occupancy \in [Engines -> 0 .. 100] /\ target \in 0 .. 100
  /\ adjustments \in 0 .. TickBound

\* A percentage counts as an integer.
LEMMA Percentages ==
  /\ \A o \in Occupancies : o \in 0 .. 100 /\ o \in Int
  /\ \A o \in Targets : o \in 0 .. 100
  /\ \A o \in 0 .. 100 : o \in Int
BY SchedulerConstants

LEMMA AdjustedWithinLimits ==
  ASSUME SharesTypeOK, NEW sampled \in Sampled, NEW e \in DOMAIN shares
  PROVE  /\ Error(e, sampled) \in Int /\ sampled[e] \in 0 .. 100
         /\ integral[e] \in Int /\ shares[e] \in Int
         /\ Adjusted(e, sampled) \in MinShare .. MaxShare
<1>1. sampled[e] \in Int /\ target \in Int /\ sampled[e] \in 0 .. 100
      BY Percentages DEF Sampled, SharesTypeOK
<1>2. integral[e] \in Int
      BY DEF SharesTypeOK
<1>3. shares[e] \in Int
      BY SharesSummable DEF SharesTypeOK
<1>4. Error(e, sampled) \in Int
      BY <1>1 DEF Error
<1> DEFINE wanted == shares[e] + 5 * Error(e, sampled) + integral[e] + Error(e, sampled)
           capped == Min({MaxShare, wanted})
<1>5. wanted \in Int
      BY <1>2, <1>3, <1>4
<1>6. Adjusted(e, sampled) = Max({MinShare, capped})
      BY DEF Adjusted
<1> HIDE DEF wanted
<1>7. capped = IF MaxShare <= wanted THEN MaxShare ELSE wanted
      BY <1>5, MinOfTwo DEF MaxShare
<1> HIDE DEF capped
<1>8. capped \in Int /\ capped <= MaxShare
      BY <1>5, <1>7 DEF MaxShare
<1>9. Max({MinShare, capped}) = IF MinShare >= capped THEN MinShare ELSE capped
      BY <1>8, MaxOfTwo DEF MinShare
<1>10. Max({MinShare, capped}) \in MinShare .. MaxShare
  <2>1. (IF MinShare >= capped THEN MinShare ELSE capped) \in MinShare .. MaxShare
        BY <1>8 DEF MinShare, MaxShare
  <2> QED BY <1>9, <2>1
<1> QED BY <1>1, <1>2, <1>3, <1>4, <1>6, <1>10

\* An engine that has no smaller share, is no busier and was no busier is not
\* given less.
LEMMA AdjustedMonotone ==
  ASSUME SharesTypeOK, NEW sampled \in Sampled,
         NEW e \in DOMAIN shares, NEW f \in DOMAIN shares,
         shares[e] >= shares[f], integral[e] >= integral[f], sampled[e] <= sampled[f]
  PROVE  Adjusted(e, sampled) >= Adjusted(f, sampled)
<1> DEFINE wanted(i) == shares[i] + 5 * Error(i, sampled) + integral[i] + Error(i, sampled)
           capped(i) == Min({MaxShare, wanted(i)})
<1>1. ASSUME NEW i \in DOMAIN shares
      PROVE  /\ wanted(i) \in Int
             /\ capped(i) = IF MaxShare <= wanted(i) THEN MaxShare ELSE wanted(i)
             /\ capped(i) \in Int
             /\ Adjusted(i, sampled) = IF MinShare >= capped(i) THEN MinShare ELSE capped(i)
  <2>1. wanted(i) \in Int
        BY AdjustedWithinLimits
  <2>2. Adjusted(i, sampled) = Max({MinShare, capped(i)})
        BY DEF Adjusted
  <2> HIDE DEF wanted
  <2>3. capped(i) = IF MaxShare <= wanted(i) THEN MaxShare ELSE wanted(i)
        BY <2>1, MinOfTwo DEF MaxShare
  <2> HIDE DEF capped
  <2>4. capped(i) \in Int
        BY <2>1, <2>3 DEF MaxShare
  <2>5. Max({MinShare, capped(i)}) = IF MinShare >= capped(i) THEN MinShare ELSE capped(i)
        BY <2>4, MaxOfTwo DEF MinShare
  <2> QED BY <2>1, <2>2, <2>3, <2>4, <2>5
<1>2. wanted(e) >= wanted(f)
  <2>1. /\ \A i \in {e, f} : shares[i] \in Int /\ integral[i] \in Int /\ sampled[i] \in Int
        /\ target \in Int
        BY AdjustedWithinLimits, Percentages DEF SharesTypeOK
  <2> QED BY <2>1 DEF Error
<1> HIDE DEF wanted, capped
<1>3. capped(e) >= capped(f)
      BY <1>1, <1>2 DEF MaxShare
<1> QED BY <1>1, <1>3 DEF MinShare

LEMMA SharesTypeInit == Init => SharesTypeOK
<1> SUFFICES ASSUME Init PROVE SharesTypeOK
    OBVIOUS
<1>1. AreShares(shares)
      BY PoliciesAreShares DEF Init
<1>2. integral \in [DOMAIN shares -> Int] /\ occupancy \in [Engines -> 0 .. 100]
      BY DEF Init
<1>3. target \in 0 .. 100 /\ adjustments \in 0 .. TickBound
      BY SchedulerConstants, Percentages DEF Init
<1> QED BY <1>1, <1>2, <1>3 DEF SharesTypeOK

\* What an adjusting tick makes of the state.
LEMMA TickAdjusts ==
  ASSUME SharesTypeOK, NEW sampled \in Sampled,
         occupancy' = [e \in Engines |-> IF e \in DOMAIN shares THEN sampled[e] ELSE occupancy[e]],
         integral' = [e \in DOMAIN shares |-> integral[e] + Error(e, sampled)],
         shares' = [e \in DOMAIN shares |-> Adjusted(e, sampled)]
  PROVE  /\ AreShares(shares') /\ DOMAIN shares' = DOMAIN shares
         /\ integral' \in [DOMAIN shares' -> Int]
         /\ occupancy' \in [Engines -> 0 .. 100]
         /\ \A e \in DOMAIN shares' : shares'[e] \in MinShare .. MaxShare
         /\ \A e \in DOMAIN shares : /\ shares'[e] = Adjusted(e, sampled)
                                     /\ occupancy'[e] = sampled[e]
<1>1. DOMAIN shares' = DOMAIN shares /\ DOMAIN shares \subseteq Engines
      BY DEF SharesTypeOK, AreShares
<1>2. \A e \in DOMAIN shares' : shares'[e] \in MinShare .. MaxShare
      BY <1>1, AdjustedWithinLimits
<1>3. \A e \in DOMAIN shares' : shares'[e] \in 0 .. One
      BY <1>2, WithinLimits, Zenon
<1>4. \A e \in DOMAIN shares : integral[e] + Error(e, sampled) \in Int
      BY AdjustedWithinLimits
<1>5. \A e \in Engines : occupancy'[e] \in 0 .. 100
      BY AdjustedWithinLimits DEF SharesTypeOK
<1>6. shares' = [e \in DOMAIN shares' |-> shares'[e]]
      BY <1>1
<1>7. AreShares(shares')
      BY <1>1, <1>3, <1>6, Zenon DEF AreShares
<1> QED BY <1>1, <1>2, <1>4, <1>5, <1>7

LEMMA SharesTypeStep ==
  ASSUME SharesTypeOK, [Next]_vars
  PROVE  SharesTypeOK'
<1> USE DEF SharesTypeOK
<1>1. CASE Start
      BY <1>1 DEF Start, shareVars, AreShares
<1>2. CASE Stop
      BY <1>2 DEF Stop, shareVars, AreShares
<1>3. CASE Joined
      BY <1>3 DEF Joined, shareVars, AreShares
<1>4. CASE SetPolicy
  <2>1. occupancy' = occupancy /\ adjustments' = adjustments
        BY <1>4 DEF SetPolicy
  <2>2. ASSUME NEW p \in Policies,
               shares' = Normalized(p), integral' = [e \in DOMAIN p |-> 0], target' = target
        PROVE  SharesTypeOK'
    <3>1. AreShares(Normalized(p)) /\ DOMAIN Normalized(p) = DOMAIN p
          BY PoliciesAreShares, NormalizedShares
    <3>2. AreShares(shares')
          BY <2>2, <3>1
    <3>3. integral' \in [DOMAIN shares' -> Int]
          BY <2>2, <3>1
    <3> QED BY <2>1, <2>2, <3>2, <3>3 DEF AreShares
  <2>3. CASE target' \in Targets /\ UNCHANGED <<shares, integral>>
        BY <2>1, <2>3, Percentages DEF AreShares
  <2> QED BY <1>4, <2>2, <2>3 DEF SetPolicy
<1>5. ASSUME NEW l \in Loops, Check(l) PROVE SharesTypeOK'
      BY <1>5 DEF Check, shareVars, AreShares
<1>6. ASSUME NEW l \in Loops, BeginTick(l) PROVE SharesTypeOK'
  <2>1. target' = target /\ adjustments' = adjustments
        BY <1>6 DEF BeginTick
  <2>2. CASE adjustments = TickBound
        BY <1>6, <2>1, <2>2 DEF BeginTick, AreShares
  <2>3. CASE adjustments # TickBound
    <3>1. PICK sampled \in Sampled :
            /\ occupancy' = [e \in Engines |->
                 IF e \in DOMAIN shares THEN sampled[e] ELSE occupancy[e]]
            /\ integral' = [e \in DOMAIN shares |-> integral[e] + Error(e, sampled)]
            /\ shares' = [e \in DOMAIN shares |-> Adjusted(e, sampled)]
          BY <1>6, <2>3 DEF BeginTick
    <3>2. /\ AreShares(shares') /\ integral' \in [DOMAIN shares' -> Int]
          /\ occupancy' \in [Engines -> 0 .. 100]
          BY <3>1, TickAdjusts
    <3> QED BY <2>1, <3>2 DEF AreShares
  <2> QED BY <2>2, <2>3
<1>7. ASSUME NEW l \in Loops, EndTick(l) PROVE SharesTypeOK'
  <2>1. /\ shares' = Normalized(shares) /\ adjustments' = Min({adjustments + 1, TickBound})
        /\ UNCHANGED <<integral, occupancy, target>>
        BY <1>7 DEF EndTick
  <2>2. AreShares(shares') /\ DOMAIN shares' = DOMAIN shares
        BY <2>1, NormalizedShares
  <2>3. adjustments' \in 0 .. TickBound
    <3>1. adjustments \in Nat /\ adjustments <= TickBound /\ TickBound \in Nat
          BY SchedulerConstants
    <3>2. adjustments' = IF adjustments + 1 <= TickBound THEN adjustments + 1 ELSE TickBound
          BY <2>1, <3>1, MinOfTwo
    <3> QED BY <3>1, <3>2
  <2> QED BY <2>1, <2>2, <2>3 DEF AreShares
<1>8. CASE UNCHANGED vars
      BY <1>8 DEF vars, shareVars, AreShares
<1> QED BY <1>1, <1>2, <1>3, <1>4, <1>5, <1>6, <1>7, <1>8 DEF Next, LoopStep

\* Shares stay fractions of one and every value in its range, whatever the
\* policies ask for and the callbacks answer.
THEOREM SchedulerTypeCorrect == Spec => []TypeOK
<1>1. ThreadsTypeOK /\ SharesTypeOK => TypeOK
      BY DEF SharesTypeOK, AreShares, TypeOK
<1>2. SharesTypeOK /\ [Next]_vars => SharesTypeOK'
      BY SharesTypeStep
<1> QED BY <1>1, <1>2, ThreadsTypeInit, ThreadsTypeStep, SharesTypeInit, PTL DEF Spec


\* The steps that do not touch shares, integral, occupancy and the count of
\* ticks; and those that do.
LEMMA ShareSteps ==
  ASSUME [Next]_vars
  PROVE  \/ UNCHANGED <<lock, shares, integral, occupancy, adjustments>>
         \/ SetPolicy
         \/ \E l \in Loops : BeginTick(l) \/ EndTick(l)
<1>1. CASE Start
      BY <1>1 DEF Start, shareVars
<1>2. CASE Stop
      BY <1>2 DEF Stop, shareVars
<1>3. CASE Joined
      BY <1>3 DEF Joined, shareVars
<1>4. ASSUME NEW l \in Loops, Check(l)
      PROVE  UNCHANGED <<lock, shares, integral, occupancy, adjustments>>
      BY <1>4 DEF Check, shareVars
<1>5. CASE UNCHANGED vars
      BY <1>5 DEF vars, threadVars, shareVars
<1> QED BY <1>1, <1>2, <1>3, <1>4, <1>5 DEF Next, LoopStep

LEMMA SetPolicyKeeps == SetPolicy => UNCHANGED <<lock, occupancy, adjustments>>
BY DEF SetPolicy, threadVars

LEMMA TicksLock == \A l \in Loops : (BeginTick(l) => lock' # 0) /\ (EndTick(l) => lock' = 0)
BY Bounds DEF BeginTick, EndTick, Loops

LEMMA SharesNormalizedStep ==
  ASSUME SharesTypeOK, SharesNormalized, [Next]_vars
  PROVE  SharesNormalized'
<1>1. CASE UNCHANGED <<lock, shares, integral, occupancy, adjustments>>
      BY <1>1 DEF SharesNormalized, Total
<1>2. CASE SetPolicy
  <2>1. UNCHANGED <<lock, adjustments>>
        BY <1>2, SetPolicyKeeps
  <2>2. CASE UNCHANGED shares
        BY <2>1, <2>2 DEF SharesNormalized, Total
  <2>3. ASSUME NEW p \in Policies, shares' = Normalized(p) PROVE SharesNormalized'
    <3>1. AreShares(p) /\ DOMAIN Normalized(p) = DOMAIN p
          BY PoliciesAreShares, NormalizedShares
    <3>2. Total(Normalized(p)) > 0 =>
            Total(Normalized(p)) \in One - Cardinality(DOMAIN p) .. One
          BY <3>1, NormalizedTotal
    <3> QED BY <2>3, <3>1, <3>2 DEF SharesNormalized, Total
  <2> QED BY <1>2, <2>2, <2>3 DEF SetPolicy
<1>3. ASSUME NEW l \in Loops, BeginTick(l) PROVE SharesNormalized'
      BY <1>3, TicksLock DEF SharesNormalized
<1>4. ASSUME NEW l \in Loops, EndTick(l) PROVE SharesNormalized'
  <2>1. shares' = Normalized(shares)
        BY <1>4 DEF EndTick
  <2>2. AreShares(shares) /\ DOMAIN Normalized(shares) = DOMAIN shares
        BY NormalizedShares DEF SharesTypeOK
  <2>3. Total(Normalized(shares)) > 0 =>
          Total(Normalized(shares)) \in One - Cardinality(DOMAIN shares) .. One
        BY <2>2, NormalizedTotal
  <2> QED BY <2>1, <2>2, <2>3 DEF SharesNormalized, Total
<1> QED BY <1>1, <1>2, <1>3, <1>4, ShareSteps

\* Whoever takes the lock finds shares that add up to one, but for what
\* rounding loses of each, for any engines and policies.
THEOREM SharesStayNormalized == Spec => []SharesNormalized
<1>1. Init => SharesNormalized
      BY DEF Init, SharesNormalized
<1>2. SharesTypeOK /\ [Next]_vars => SharesTypeOK'
      BY SharesTypeStep
<1>3. SharesTypeOK /\ SharesNormalized /\ [Next]_vars => SharesNormalized'
      BY SharesNormalizedStep
<1> QED BY <1>1, <1>2, <1>3, SharesTypeInit, PTL DEF Spec

\* A tick, from the sampling to the normalization, lets no engine overtake one
\* that had no smaller share, is no busier and was no busier over time.
THEOREM OrderIsKept == Spec => OrderKept
<1>1. ASSUME SharesTypeOK, [Next]_vars, lock' # lock,
             NEW e \in DOMAIN shares, NEW f \in DOMAIN shares,
             shares[e] >= shares[f], integral[e] >= integral[f], occupancy'[e] <= occupancy'[f]
      PROVE  shares'[e] >= shares'[f]
  <2>1. PICK l \in Loops : BeginTick(l) \/ EndTick(l)
        BY <1>1, ShareSteps, SetPolicyKeeps
  <2>2. CASE BeginTick(l)
    <3>1. CASE adjustments = TickBound
          BY <1>1, <2>2, <3>1 DEF BeginTick
    <3>2. CASE adjustments # TickBound
      <4>1. PICK sampled \in Sampled :
              /\ occupancy' = [i \in Engines |->
                   IF i \in DOMAIN shares THEN sampled[i] ELSE occupancy[i]]
              /\ integral' = [i \in DOMAIN shares |-> integral[i] + Error(i, sampled)]
              /\ shares' = [i \in DOMAIN shares |-> Adjusted(i, sampled)]
            BY <2>2, <3>2 DEF BeginTick
      <4>2. \A i \in DOMAIN shares : shares'[i] = Adjusted(i, sampled) /\ occupancy'[i] = sampled[i]
            BY <1>1, <4>1, TickAdjusts
      <4> QED BY <1>1, <4>2, AdjustedMonotone
    <3> QED BY <3>1, <3>2
  <2>3. CASE EndTick(l)
    <3>1. shares' = Normalized(shares)
          BY <2>3 DEF EndTick
    <3> QED BY <1>1, <3>1, NormalizedOrder DEF SharesTypeOK
  <2> QED BY <2>1, <2>2, <2>3
<1>2. SharesTypeOK /\ [Next]_vars =>
        [lock' # lock =>
           \A e, f \in DOMAIN shares :
             /\ shares[e] >= shares[f]
             /\ integral[e] >= integral[f]
             /\ occupancy'[e] <= occupancy'[f]
             => shares'[e] >= shares'[f]]_vars
      BY <1>1
<1>3. SharesTypeOK /\ [Next]_vars => SharesTypeOK'
      BY SharesTypeStep
<1> QED BY <1>2, <1>3, SharesTypeInit, PTL DEF Spec, OrderKept

\* While a tick that adjusted holds the lock, every share is within the limits.
WithinLimitsInTick ==
  lock # 0 /\ adjustments < TickBound =>
    \A e \in DOMAIN shares : shares[e] \in MinShare .. MaxShare

LEMMA WithinLimitsInTickStep ==
  ASSUME SharesTypeOK, WithinLimitsInTick, [Next]_vars
  PROVE  WithinLimitsInTick'
<1>1. CASE UNCHANGED <<lock, shares, integral, occupancy, adjustments>>
      BY <1>1 DEF WithinLimitsInTick
<1>2. CASE SetPolicy
      BY <1>2, SetPolicyKeeps DEF SetPolicy, WithinLimitsInTick
<1>3. ASSUME NEW l \in Loops, BeginTick(l) PROVE WithinLimitsInTick'
  <2>1. adjustments' = adjustments
        BY <1>3 DEF BeginTick
  <2>2. CASE adjustments = TickBound
        BY <2>1, <2>2, SchedulerConstants DEF WithinLimitsInTick
  <2>3. CASE adjustments # TickBound
    <3>1. PICK sampled \in Sampled :
            /\ occupancy' = [i \in Engines |->
                 IF i \in DOMAIN shares THEN sampled[i] ELSE occupancy[i]]
            /\ integral' = [i \in DOMAIN shares |-> integral[i] + Error(i, sampled)]
            /\ shares' = [i \in DOMAIN shares |-> Adjusted(i, sampled)]
          BY <1>3, <2>3 DEF BeginTick
    <3> QED BY <3>1, TickAdjusts DEF WithinLimitsInTick
  <2> QED BY <2>2, <2>3
<1>4. ASSUME NEW l \in Loops, EndTick(l) PROVE WithinLimitsInTick'
      BY <1>4, TicksLock DEF WithinLimitsInTick
<1> QED BY <1>1, <1>2, <1>3, <1>4, ShareSteps

\* No engine starves: what a tick leaves of its share is at least what an engine
\* at the minimum gets beside others at the maximum, for any number of engines.
THEOREM NoEngineStarves == Spec => NoneStarves
<1>1. ASSUME SharesTypeOK, WithinLimitsInTick, [Next]_vars,
             lock' # lock, lock' = 0, adjustments < TickBound,
             NEW e \in DOMAIN shares
      PROVE  shares'[e] >= (MinShare * One) \div
                             (MinShare + (Cardinality(DOMAIN shares) - 1) * MaxShare)
  <2>1. PICK l \in Loops : EndTick(l)
        BY <1>1, ShareSteps, SetPolicyKeeps, TicksLock
  <2>2. shares' = Normalized(shares)
        BY <2>1 DEF EndTick
  <2>3. \A i \in DOMAIN shares : shares[i] \in MinShare .. MaxShare
        BY <1>1 DEF WithinLimitsInTick
  <2> QED BY <1>1, <2>2, <2>3, NormalizedLeast, Zenon DEF SharesTypeOK
<1>2. SharesTypeOK /\ WithinLimitsInTick /\ [Next]_vars =>
        [lock' # lock /\ lock' = 0 /\ adjustments < TickBound =>
           \A e \in DOMAIN shares :
             shares'[e] >= (MinShare * One) \div
                             (MinShare + (Cardinality(DOMAIN shares) - 1) * MaxShare)]_vars
      BY <1>1, Zenon
<1>3. SharesTypeOK /\ [Next]_vars => SharesTypeOK'
      BY SharesTypeStep
<1>4. SharesTypeOK /\ WithinLimitsInTick /\ [Next]_vars => WithinLimitsInTick'
      BY WithinLimitsInTickStep
<1>5. Init => WithinLimitsInTick
      BY DEF Init, WithinLimitsInTick
<1> QED BY <1>2, <1>3, <1>4, <1>5, SharesTypeInit, PTL DEF Spec, NoneStarves
=============================================================================
