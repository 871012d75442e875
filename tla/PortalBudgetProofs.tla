------------------------- MODULE PortalBudgetProofs -------------------------
(***************************************************************************)
(* Proofs about PortalBudget for any number of messages, attempts, months,   *)
(* operations and faults: the monthly totals are the sums of the ledger, the *)
(* account is never overspent, and nothing is paid for twice.                *)
(***************************************************************************)
EXTENDS PortalBudget, FiniteSetTheorems, TLAPS

-----------------------------------------------------------------------------
(* Sums over finite sets *)

\* Among finite sets there is one that holds no other one of them.
LEMMA SmallestSet ==
  ASSUME NEW F, F # {}, \A S \in F : IsFiniteSet(S)
  PROVE  \E S \in F : \A T \in F : T \subseteq S => T = S
<1> DEFINE N == {Cardinality(S) : S \in F}
<1>1. N \subseteq Nat /\ N # {} BY FS_CardinalityType
<1> HIDE DEF N
<1>2. PICK n \in N : \A k \in N : <<k, n>> \notin OpToRel(<, Nat)
  BY <1>1, NatLessThanWellFounded, WFMin
<1>3. \A k \in N : ~(k < n) BY <1>1, <1>2 DEF OpToRel
<1>4. PICK S \in F : Cardinality(S) = n BY DEF N
<1>5. ASSUME NEW T \in F, T \subseteq S PROVE T = S
  <2>1. ~(Cardinality(T) < Cardinality(S)) BY <1>3, <1>4 DEF N
  <2>2. IsFiniteSet(S) /\ Cardinality(S) \in Nat /\ Cardinality(T) \in Nat
        /\ Cardinality(T) <= Cardinality(S)
    BY <1>5, FS_Subset, FS_CardinalityType
  <2> QED BY <1>5, <2>1, <2>2, FS_Subset
<1> QED BY <1>5

First(s) == CHOOSE x \in s : TRUE

\* The function by which the library adds f up over the subsets of S.
Adds(f, S, g) ==
  g = [s \in SUBSET S |-> IF s = {} THEN 0
                          ELSE LET x == CHOOSE x \in s : TRUE IN f[x] + g[s \ {x}]]

LEMMA SumUnfolds ==
  ASSUME NEW f, NEW S PROVE SumFunctionOnSet(f, S) = (CHOOSE g : Adds(f, S, g))[S]
BY DEF SumFunctionOnSet, FoldFunctionOnSet, MapThenFoldSet, Adds

LEMMA AddsValue ==
  ASSUME NEW f, NEW S, NEW g, Adds(f, S, g), NEW s \in SUBSET S
  PROVE  g[s] = IF s = {} THEN 0 ELSE f[First(s)] + g[s \ {First(s)}]
BY DEF Adds, First

LEMMA AddsAgree ==
  ASSUME NEW f, NEW S, NEW T, NEW g, NEW h, Adds(f, S, g), Adds(f, T, h),
         NEW U, IsFiniteSet(U), U \subseteq S, U \subseteq T
  PROVE  g[U] = h[U]
<1> DEFINE Bad == {V \in SUBSET U : g[V] # h[V]}
<1> SUFFICES ASSUME Bad # {} PROVE FALSE
  OBVIOUS
<1>0. \A V \in Bad : IsFiniteSet(V) BY FS_Subset
<1> HIDE DEF Bad
<1>1. PICK V \in Bad : \A W \in Bad : W \subseteq V => W = V
  BY <1>0, SmallestSet
<1> USE DEF Bad
<1>2. V # {} BY AddsValue
<1> DEFINE x == First(V)
<1>3. x \in V BY <1>2 DEF First
<1>4. g[V] = f[x] + g[V \ {x}] /\ h[V] = f[x] + h[V \ {x}] BY <1>2, AddsValue
<1>5. V \ {x} \notin Bad BY <1>1, <1>3
<1> QED BY <1>4, <1>5

LEMMA AddsExists ==
  ASSUME NEW f, NEW S, IsFiniteSet(S) PROVE \E g : Adds(f, S, g)
<1> DEFINE Bad == {V \in SUBSET S : ~ \E g : Adds(f, V, g)}
<1> SUFFICES ASSUME Bad # {} PROVE FALSE
  OBVIOUS
<1>0. \A V \in Bad : IsFiniteSet(V) BY FS_Subset
<1> HIDE DEF Bad
<1>1. PICK V \in Bad : \A W \in Bad : W \subseteq V => W = V
  BY <1>0, SmallestSet
<1> USE DEF Bad
<1> DEFINE Part(W) == CHOOSE g : Adds(f, W, g)
           Next1(s) == IF s = {} THEN 0 ELSE f[First(s)] + Part(s \ {First(s)})[s \ {First(s)}]
           g1 == [s \in SUBSET V |-> Next1(s)]
<1>2. \A W \in SUBSET V : W # V => Adds(f, W, Part(W))
  BY <1>1
<1> HIDE DEF Part
<1>3. ASSUME NEW W \in SUBSET V, W # V PROVE Part(W)[W] = Next1(W)
  <2>1. CASE W = {} BY <1>2, <1>3, <2>1, AddsValue
  <2>2. CASE W # {}
    <3> DEFINE x == First(W)
               R == W \ {x}
    <3>1. x \in W BY <2>2 DEF First
    <3>2. Part(W)[W] = f[x] + Part(W)[R] BY <1>2, <1>3, <2>2, AddsValue
    <3>3. R \in SUBSET V /\ R # V /\ R \subseteq W /\ IsFiniteSet(R) BY <1>3, <3>1, FS_Subset
    <3>4. Adds(f, W, Part(W)) /\ Adds(f, R, Part(R)) BY <1>2, <1>3, <3>3
    <3>5. Part(W)[R] = Part(R)[R] BY <3>3, <3>4, AddsAgree
    <3> QED BY <2>2, <3>2, <3>5
  <2> QED BY <2>1, <2>2
<1>4. \A s \in SUBSET V : s # {} => LET R == s \ {First(s)} IN R \in SUBSET V /\ R # V
  BY DEF First
<1>5. \A s \in SUBSET V : s # {} => g1[s] = f[First(s)] + g1[s \ {First(s)}]
  BY <1>3, <1>4
<1>6. Adds(f, V, g1) BY <1>5 DEF Adds, First
<1> QED BY <1>1, <1>6

LEMMA SumIsAdded ==
  ASSUME NEW f, NEW S, IsFiniteSet(S)
  PROVE  /\ S = {} => SumFunctionOnSet(f, S) = 0
         /\ S # {} => \E x \in S : SumFunctionOnSet(f, S) = f[x] + SumFunctionOnSet(f, S \ {x})
<1> DEFINE All(T) == CHOOSE g : Adds(f, T, g)
<1>1. \A T \in SUBSET S : Adds(f, T, All(T)) /\ SumFunctionOnSet(f, T) = All(T)[T]
  BY FS_Subset, AddsExists, SumUnfolds
<1> HIDE DEF All
<1>2. S = {} => SumFunctionOnSet(f, S) = 0
  BY <1>1, AddsValue
<1>3. ASSUME S # {} PROVE \E x \in S : SumFunctionOnSet(f, S) = f[x] + SumFunctionOnSet(f, S \ {x})
  <2> DEFINE x == First(S)
             R == S \ {x}
  <2>1. x \in S /\ R \in SUBSET S /\ IsFiniteSet(R) BY <1>3, FS_Subset DEF First
  <2>2. All(S)[S] = f[x] + All(S)[R]
    <3>1. Adds(f, S, All(S)) /\ S \in SUBSET S BY <1>1
    <3> QED BY <1>3, <3>1, AddsValue
  <2>3. All(S)[R] = All(R)[R] BY <1>1, <2>1, AddsAgree
  <2> QED BY <1>1, <2>1, <2>2, <2>3
<1> QED BY <1>2, <1>3

\* The sum of numbers, in whatever order the library takes them.
LEMMA SumProperties ==
  ASSUME NEW f, NEW D, IsFiniteSet(D), \A x \in D : f[x] \in Int
  PROVE  /\ SumFunctionOnSet(f, D) \in Int
         /\ (\A x \in D : f[x] >= 0) => SumFunctionOnSet(f, D) >= 0
         /\ \A x \in D : SumFunctionOnSet(f, D) = f[x] + SumFunctionOnSet(f, D \ {x})
<1> DEFINE Good(S) ==
             /\ SumFunctionOnSet(f, S) \in Int
             /\ (\A x \in S : f[x] >= 0) => SumFunctionOnSet(f, S) >= 0
             /\ \A x \in S : SumFunctionOnSet(f, S) = f[x] + SumFunctionOnSet(f, S \ {x})
           Bad == {S \in SUBSET D : ~Good(S)}
<1> SUFFICES ASSUME Bad # {} PROVE FALSE
  OBVIOUS
<1>0. \A V \in Bad : IsFiniteSet(V) BY FS_Subset
<1> HIDE DEF Bad
<1>1. PICK S \in Bad : \A W \in Bad : W \subseteq S => W = S
  BY <1>0, SmallestSet
<1> USE DEF Bad
<1>2. \A x \in S : Good(S \ {x}) BY <1>1
<1>3. S # {} BY FS_EmptySet, SumIsAdded
<1>4. PICK y \in S : SumFunctionOnSet(f, S) = f[y] + SumFunctionOnSet(f, S \ {y})
  BY <1>0, <1>3, SumIsAdded
<1>5. f[y] \in Int /\ SumFunctionOnSet(f, S \ {y}) \in Int BY <1>2
<1>6. (\A x \in S : f[x] >= 0) => SumFunctionOnSet(f, S) >= 0
  <2> SUFFICES ASSUME \A x \in S : f[x] >= 0 PROVE SumFunctionOnSet(f, S) >= 0
    OBVIOUS
  <2>1. f[y] >= 0 /\ SumFunctionOnSet(f, S \ {y}) >= 0 BY <1>2
  <2> QED BY <1>4, <1>5, <2>1
<1>7. ASSUME NEW x \in S, x # y PROVE SumFunctionOnSet(f, S) = f[x] + SumFunctionOnSet(f, S \ {x})
  <2> DEFINE R == (S \ {x}) \ {y}
  <2>1. R = (S \ {y}) \ {x} OBVIOUS
  <2>2. x \in S \ {y} /\ y \in S \ {x} BY <1>7
  <2>3. SumFunctionOnSet(f, S \ {x}) = f[y] + SumFunctionOnSet(f, R) BY <1>2, <2>2
  <2>4. SumFunctionOnSet(f, S \ {y}) = f[x] + SumFunctionOnSet(f, R) BY <1>2, <2>1, <2>2
  <2>5. SumFunctionOnSet(f, S \ {x}) \in Int /\ f[x] \in Int BY <1>2
  <2>6. \E n \in Int : SumFunctionOnSet(f, R) = n
    <3>1. R \in SUBSET D /\ R # S /\ R \subseteq S BY <2>2
    <3> QED BY <1>1, <3>1
  <2> HIDE DEF R
  <2> QED BY <1>4, <1>5, <2>3, <2>4, <2>5, <2>6
<1>8. SumFunctionOnSet(f, S) \in Int BY <1>4, <1>5
<1>9. Good(S) BY <1>4, <1>6, <1>7, <1>8
<1> QED BY <1>9

\* Functions that agree on a set have the same sum there.
LEMMA SumOfEquals ==
  ASSUME NEW f, NEW g, NEW D, IsFiniteSet(D), \A x \in D : f[x] = g[x] /\ f[x] \in Int
  PROVE  SumFunctionOnSet(f, D) = SumFunctionOnSet(g, D)
<1> DEFINE Bad == {S \in SUBSET D : SumFunctionOnSet(f, S) # SumFunctionOnSet(g, S)}
<1> SUFFICES ASSUME Bad # {} PROVE FALSE
  OBVIOUS
<1>0. \A V \in Bad : IsFiniteSet(V) BY FS_Subset
<1> HIDE DEF Bad
<1>1. PICK S \in Bad : \A W \in Bad : W \subseteq S => W = S
  BY <1>0, SmallestSet
<1> USE DEF Bad
<1>2. S # {} BY FS_EmptySet, SumIsAdded
<1>3. PICK y \in S : TRUE BY <1>2
<1>4. IsFiniteSet(S) /\ S \subseteq D BY <1>0
<1>5. /\ SumFunctionOnSet(f, S) = f[y] + SumFunctionOnSet(f, S \ {y})
      /\ SumFunctionOnSet(g, S) = g[y] + SumFunctionOnSet(g, S \ {y})
  BY <1>4, SumProperties
<1>6. SumFunctionOnSet(f, S \ {y}) = SumFunctionOnSet(g, S \ {y}) BY <1>1
<1> QED BY <1>5, <1>6

\* A function that is nowhere greater has no greater sum.
LEMMA SumMonotone ==
  ASSUME NEW f, NEW g, NEW D, IsFiniteSet(D),
         \A x \in D : f[x] \in Int /\ g[x] \in Int /\ f[x] <= g[x]
  PROVE  SumFunctionOnSet(f, D) <= SumFunctionOnSet(g, D)
<1> DEFINE Bad == {S \in SUBSET D : ~(SumFunctionOnSet(f, S) <= SumFunctionOnSet(g, S))}
<1> SUFFICES ASSUME Bad # {} PROVE FALSE
  OBVIOUS
<1>0. \A V \in Bad : IsFiniteSet(V) BY FS_Subset
<1> HIDE DEF Bad
<1>1. PICK S \in Bad : \A W \in Bad : W \subseteq S => W = S
  BY <1>0, SmallestSet
<1> USE DEF Bad
<1>2. S # {} BY FS_EmptySet, SumIsAdded
<1>3. PICK y \in S : TRUE BY <1>2
<1>4. IsFiniteSet(S) /\ S \subseteq D /\ IsFiniteSet(S \ {y}) BY <1>0, FS_Subset
<1>5. /\ SumFunctionOnSet(f, S) = f[y] + SumFunctionOnSet(f, S \ {y})
      /\ SumFunctionOnSet(g, S) = g[y] + SumFunctionOnSet(g, S \ {y})
  BY <1>4, SumProperties
<1>6. SumFunctionOnSet(f, S \ {y}) <= SumFunctionOnSet(g, S \ {y}) BY <1>1
<1>7. /\ SumFunctionOnSet(f, S \ {y}) \in Int /\ SumFunctionOnSet(g, S \ {y}) \in Int
      /\ f[y] \in Int /\ g[y] \in Int /\ f[y] <= g[y]
  BY <1>4, SumProperties
<1> QED BY <1>5, <1>6, <1>7

LEMMA SumOfZeros ==
  ASSUME NEW f, NEW D, IsFiniteSet(D), \A x \in D : f[x] = 0 PROVE SumFunctionOnSet(f, D) = 0
<1> DEFINE Bad == {S \in SUBSET D : SumFunctionOnSet(f, S) # 0}
<1> SUFFICES ASSUME Bad # {} PROVE FALSE
  OBVIOUS
<1>0. \A V \in Bad : IsFiniteSet(V) BY FS_Subset
<1> HIDE DEF Bad
<1>1. PICK S \in Bad : \A W \in Bad : W \subseteq S => W = S
  BY <1>0, SmallestSet
<1> USE DEF Bad
<1>2. S # {} BY FS_EmptySet, SumIsAdded
<1>3. PICK y \in S : SumFunctionOnSet(f, S) = f[y] + SumFunctionOnSet(f, S \ {y})
  BY <1>0, <1>2, SumIsAdded
<1>4. SumFunctionOnSet(f, S \ {y}) = 0 BY <1>1
<1> QED BY <1>3, <1>4

\* One more element.
LEMMA SumPut ==
  ASSUME NEW f, NEW g, NEW D, IsFiniteSet(D), NEW k, k \notin D, g[k] \in Int,
         \A x \in D : f[x] = g[x] /\ f[x] \in Int
  PROVE  /\ IsFiniteSet(D \cup {k})
         /\ SumFunctionOnSet(g, D \cup {k}) = SumFunctionOnSet(f, D) + g[k]
<1>1. IsFiniteSet(D \cup {k}) BY FS_AddElement
<1>2. (D \cup {k}) \ {k} = D OBVIOUS
<1>3. SumFunctionOnSet(g, D \cup {k}) = g[k] + SumFunctionOnSet(g, D)
  <2>1. \A x \in D \cup {k} : g[x] \in Int OBVIOUS
  <2>2. SumFunctionOnSet(g, D \cup {k}) = g[k] + SumFunctionOnSet(g, (D \cup {k}) \ {k})
    BY <1>1, <2>1, SumProperties
  <2> QED BY <1>2, <2>2
<1>4. SumFunctionOnSet(g, D) = SumFunctionOnSet(f, D) /\ SumFunctionOnSet(f, D) \in Int
  BY SumOfEquals, SumProperties
<1> QED BY <1>1, <1>3, <1>4

\* One element less.
LEMMA SumDrop ==
  ASSUME NEW f, NEW g, NEW D, IsFiniteSet(D), NEW k \in D,
         \A x \in D : f[x] \in Int, \A x \in D \ {k} : f[x] = g[x]
  PROVE  SumFunctionOnSet(g, D \ {k}) = SumFunctionOnSet(f, D) - f[k]
<1> DEFINE R == D \ {k}
<1>1. IsFiniteSet(R) /\ \A x \in R : f[x] = g[x] /\ f[x] \in Int BY FS_Subset
<1>2. SumFunctionOnSet(f, D) = f[k] + SumFunctionOnSet(f, R) BY SumProperties
<1> HIDE DEF R
<1>3. SumFunctionOnSet(g, R) = SumFunctionOnSet(f, R) /\ SumFunctionOnSet(f, R) \in Int
  BY <1>1, SumOfEquals, SumProperties
<1> QED BY <1>2, <1>3 DEF R

\* One value changes.
LEMMA SumChange ==
  ASSUME NEW f, NEW g, NEW D, IsFiniteSet(D), NEW k \in D, g[k] \in Int,
         \A x \in D : f[x] \in Int, \A x \in D \ {k} : f[x] = g[x]
  PROVE  SumFunctionOnSet(g, D) = SumFunctionOnSet(f, D) - f[k] + g[k]
<1> DEFINE R == D \ {k}
<1>1. IsFiniteSet(R) /\ \A x \in R : f[x] = g[x] /\ f[x] \in Int BY FS_Subset
<1>2. SumFunctionOnSet(f, D) = f[k] + SumFunctionOnSet(f, R) BY SumProperties
<1>3. \A x \in D : g[x] \in Int OBVIOUS
<1>4. SumFunctionOnSet(g, D) = g[k] + SumFunctionOnSet(g, R) BY <1>3, SumProperties
<1> HIDE DEF R
<1>5. SumFunctionOnSet(g, R) = SumFunctionOnSet(f, R) /\ SumFunctionOnSet(f, R) \in Int
  BY <1>1, SumOfEquals, SumProperties
<1> QED BY <1>2, <1>4, <1>5

\* One value grows by one.
LEMMA SumGrows ==
  ASSUME NEW f, NEW g, NEW D, IsFiniteSet(D), NEW k \in D, g[k] = f[k] + 1,
         \A x \in D : f[x] \in Int, \A x \in D \ {k} : f[x] = g[x]
  PROVE  SumFunctionOnSet(g, D) = SumFunctionOnSet(f, D) + 1
<1>1. g[k] \in Int /\ f[k] \in Int OBVIOUS
<1>2. SumFunctionOnSet(g, D) = SumFunctionOnSet(f, D) - f[k] + g[k] BY <1>1, SumChange
<1>3. SumFunctionOnSet(f, D) \in Int BY SumProperties
<1> QED BY <1>1, <1>2, <1>3

-----------------------------------------------------------------------------
(* The inductive invariant *)

RowStatuses == {"NONE", "RESERVED", "COMPLETED", "UNKNOWN"}
Row == [status: RowStatuses, month: 1..Months, reserved: Nat, charged: Nat, text: BOOLEAN]
Bucket == [spent: Int, reserved: Int, messages: Int]
Profile == [status: {"ACTIVE", "SUSPENDED"}, ceiling: Nat, peak: Nat]
Answers == {"none", "nothing", "short", "noReceipt", "failed"}
CallState == [pc: Pcs, seq: Nat, used: [Kinds -> Nat], timedOut: BOOLEAN,
              key: Keys \cup {NoKey}, charge: Answers,
              why: {"none", "inactive", "reserved", "exhausted"}]

\* What a month's bucket holds; an open row has not been charged.
MonthTotals(p) ==
  /\ IsFiniteSet(Rows(p))
  /\ bucket[p].reserved = SumFunctionOnSet(Reserved, Open(p))
  /\ bucket[p].spent = SumFunctionOnSet(Charged, Rows(p))
  /\ bucket[p].messages = Cardinality({k \in Rows(p) : k[3] = "message"})
MonthSpend(p) ==
  bucket[p].spent + bucket[p].reserved <= profile.peak + SumFunctionOnSet(Excess, Rows(p))
OpenIsUncharged == \A k \in Keys : entry[k].status = "RESERVED" => entry[k].charged = 0

Ledger ==
  /\ entry \in [Keys -> Row] /\ bucket \in [1..Months -> Bucket]
  /\ profile \in Profile /\ profile.ceiling <= profile.peak /\ month \in 1..Months
  /\ OpenIsUncharged
  /\ \A p \in 1..Months : MonthTotals(p) /\ MonthSpend(p)

\* Where an attempt works on a voice note, and where it holds the reservation of one.
VoicePcs == {"voice", "settle", "voiceMessage", "voiceAudio", "load", "check", "listen", "heard",
             "voiceEnd"}
Listening == {"load", "check", "listen", "heard"}

\* The sequence of a turn counts its operations, each kind within its allowance.
CallOk(c, r) ==
  /\ r.pc \in VoicePcs => c[1] \in VoiceNotes
  /\ r.pc = "paid" => r.key \in OpKeys
  /\ r.seq = SumFunctionOnSet(r.used, Kinds) /\ \A kind \in Kinds : r.used[kind] <= PerTurn[kind]

CallsTyped ==
  /\ call \in [Calls -> CallState] /\ \A c \in Calls : CallOk(c, call[c])
  /\ asked \in [Keys -> Nat] /\ changes \in Nat /\ faults \in Nat

\* One attempt holds the recording, and the row stays its own until it lets go; until it has
\* called the provider nobody has.
Unheard(c) == call[c].pc # "heard" \/ call[c].charge = "nothing"
Held(k) ==
  \/ entry[k].status = "RESERVED"
  \/ entry[k].status = "UNKNOWN" /\ entry[k].charged = entry[k].reserved
OneListener(m) ==
  /\ \A c, d \in Calls : c[1] = m /\ d[1] = m
       /\ call[c].pc \in Listening /\ call[d].pc \in Listening => c = d
  /\ \A c \in Calls : c[1] = m /\ call[c].pc \in Listening =>
       /\ Held(AudioKey(m))
       /\ Unheard(c) => asked[AudioKey(m)] = 0

BudgetInd ==
  /\ Ledger /\ CallsTyped
  /\ \A m \in VoiceNotes : OneListener(m)
  /\ PaidOnce

-----------------------------------------------------------------------------
(* The ledger *)

LEMMA MaxOfTwo ==
  ASSUME NEW a \in Int, NEW b \in Int
  PROVE  Max({a, b}) \in Int /\ Max({a, b}) \in {a, b} /\ Max({a, b}) >= a /\ Max({a, b}) >= b
<1>1. \E x \in {a, b} : \A y \in {a, b} : x >= y OBVIOUS
<1>2. Max({a, b}) \in {a, b} /\ \A y \in {a, b} : Max({a, b}) >= y BY <1>1 DEF Max
<1> QED BY <1>2

LEMMA LedgerFields ==
  ASSUME Ledger
  PROVE  /\ \A k \in Keys : /\ entry[k] \in Row /\ entry[k].status \in RowStatuses
                            /\ entry[k].month \in 1..Months
                            /\ entry[k].reserved \in Nat /\ entry[k].charged \in Nat
                            /\ Reserved[k] = entry[k].reserved /\ Charged[k] = entry[k].charged
                            /\ Excess[k] = Max({0, entry[k].charged - entry[k].reserved})
                            /\ Reserved[k] \in Int /\ Charged[k] \in Int /\ Excess[k] \in Int
                            /\ Excess[k] >= 0
         /\ \A p \in 1..Months : /\ bucket[p] \in Bucket /\ bucket[p].spent \in Int
                                 /\ bucket[p].reserved \in Int /\ bucket[p].messages \in Int
         /\ profile.ceiling \in Nat /\ profile.peak \in Nat /\ month \in 1..Months
<1>1. ASSUME NEW k \in Keys
      PROVE  /\ entry[k] \in Row /\ entry[k].status \in RowStatuses
             /\ entry[k].month \in 1..Months
             /\ entry[k].reserved \in Nat /\ entry[k].charged \in Nat
  BY DEF Ledger, Row
<1>2. ASSUME NEW k \in Keys
      PROVE  /\ Reserved[k] = entry[k].reserved /\ Charged[k] = entry[k].charged
             /\ Excess[k] = Max({0, entry[k].charged - entry[k].reserved})
  BY DEF Reserved, Charged, Excess
<1>3. ASSUME NEW k \in Keys
      PROVE  Reserved[k] \in Int /\ Charged[k] \in Int /\ Excess[k] \in Int /\ Excess[k] >= 0
  <2> DEFINE over == entry[k].charged - entry[k].reserved
  <2>1. over \in Int /\ 0 \in Int BY <1>1
  <2> HIDE DEF over
  <2>2. Max({0, over}) \in Int /\ Max({0, over}) >= 0 BY <2>1, MaxOfTwo, Zenon
  <2> QED BY <1>1, <1>2, <2>2 DEF over
<1>4. /\ \A p \in 1..Months : /\ bucket[p] \in Bucket /\ bucket[p].spent \in Int
                              /\ bucket[p].reserved \in Int /\ bucket[p].messages \in Int
      /\ profile.ceiling \in Nat /\ profile.peak \in Nat /\ month \in 1..Months
  BY DEF Ledger, Bucket, Profile
<1> QED BY <1>1, <1>2, <1>3, <1>4

\* A month none of whose rows change.
LEMMA MonthUntouched ==
  ASSUME Ledger, NEW p \in 1..Months, NEW k,
         \A j \in Keys \ {k} : entry'[j] = entry[j], k \notin Rows(p), k \notin Rows(p)',
         bucket'[p] = bucket[p], profile'.peak \in Nat, profile.peak <= profile'.peak
  PROVE  MonthTotals(p)' /\ MonthSpend(p)'
<1>1. MonthTotals(p) /\ MonthSpend(p) BY DEF Ledger
<1>2. Rows(p)' = Rows(p) /\ Open(p)' = Open(p) BY DEF Rows, Open
<1>3. \A j \in Rows(p) :
        Reserved'[j] = Reserved[j] /\ Charged'[j] = Charged[j] /\ Excess'[j] = Excess[j]
  BY DEF Rows, Reserved, Charged, Excess
<1>4. \A j \in Rows(p) : Reserved[j] \in Int /\ Charged[j] \in Int /\ Excess[j] \in Int
  BY LedgerFields DEF Rows
<1>5. IsFiniteSet(Rows(p)) /\ Open(p) \subseteq Rows(p) /\ IsFiniteSet(Open(p))
  BY <1>1, FS_Subset DEF MonthTotals, Open
<1>6. /\ SumFunctionOnSet(Reserved', Open(p)) = SumFunctionOnSet(Reserved, Open(p))
      /\ SumFunctionOnSet(Charged', Rows(p)) = SumFunctionOnSet(Charged, Rows(p))
      /\ SumFunctionOnSet(Excess', Rows(p)) = SumFunctionOnSet(Excess, Rows(p))
      /\ SumFunctionOnSet(Excess, Rows(p)) \in Int
  BY <1>3, <1>4, <1>5, SumOfEquals, SumProperties
<1>7. MonthTotals(p)' BY <1>1, <1>2, <1>6 DEF MonthTotals
<1>8. MonthSpend(p)'
  <2>1. bucket[p].spent \in Int /\ bucket[p].reserved \in Int /\ profile.peak \in Nat
    BY LedgerFields
  <2> QED BY <1>1, <1>2, <1>6, <2>1 DEF MonthSpend
<1> QED BY <1>7, <1>8

\* A step that moves no row: the administrator may raise the peak, the month may pass.
LEMMA LedgerKept ==
  ASSUME Ledger, UNCHANGED <<entry, bucket>>, profile' \in Profile, month' \in 1..Months,
         profile'.ceiling <= profile'.peak, profile.peak <= profile'.peak
  PROVE  Ledger'
<1>1. \A p \in 1..Months : Rows(p)' = Rows(p) /\ Open(p)' = Open(p)
  BY DEF Rows, Open
<1>2. Reserved' = Reserved /\ Charged' = Charged /\ Excess' = Excess
  BY DEF Reserved, Charged, Excess
<1>3. ASSUME NEW p \in 1..Months PROVE MonthTotals(p)' /\ MonthSpend(p)'
  <2>1. MonthTotals(p) /\ MonthSpend(p) BY DEF Ledger
  <2>2. MonthTotals(p)' BY <1>1, <1>2, <2>1 DEF MonthTotals
  <2>3. MonthSpend(p)'
    <3>1. SumFunctionOnSet(Excess, Rows(p)) \in Int
      BY <2>1, LedgerFields, SumProperties DEF MonthTotals, Rows
    <3>2. /\ bucket[p].spent \in Int /\ bucket[p].reserved \in Int
          /\ profile.peak \in Nat /\ profile'.peak \in Nat
      BY LedgerFields DEF Profile
    <3> QED BY <1>1, <1>2, <2>1, <3>1, <3>2 DEF MonthSpend
  <2> QED BY <2>2, <2>3
<1> QED BY <1>3 DEF Ledger, OpenIsUncharged

\* reserve adds an open row to the current month, if the ceiling allows it; a completed
\* row is handed out again.
LEMMA ReserveKeepsLedger ==
  ASSUME Ledger, NEW k \in Keys, NEW amount \in Nat, NEW allow,
         Refusal(k, amount, allow) = "none", Reserve(k, amount), UNCHANGED <<profile, month>>
  PROVE  /\ Ledger' /\ \A j \in Keys \ {k} : entry'[j] = entry[j]
         /\ \/ entry[k].status = "COMPLETED" /\ entry'[k] = entry[k]
            \/ entry[k].status = "NONE" /\ entry'[k].status = "RESERVED"
<1>1. CASE entry[k].status = "COMPLETED"
  <2>1. UNCHANGED <<entry, bucket>> BY <1>1 DEF Reserve
  <2>2. /\ profile \in Profile /\ month \in 1..Months /\ profile.ceiling <= profile.peak
        /\ profile.peak <= profile.peak
    BY LedgerFields DEF Ledger
  <2>3. Ledger' BY <2>1, <2>2, LedgerKept
  <2> QED BY <1>1, <2>1, <2>3
<1>2. CASE entry[k].status # "COMPLETED"
  <2>1. entry[k].status = "NONE" /\ ~Exhausted(k, amount)
    BY <1>2 DEF Refusal
  <2> DEFINE e == [NoEntry EXCEPT !.status = "RESERVED", !.month = month, !.reserved = amount]
             one == IF k[3] = "message" THEN 1 ELSE 0
             b == [bucket[month] EXCEPT !.reserved = @ + amount, !.messages = @ + one]
  <2>2. entry' = [entry EXCEPT ![k] = e] /\ bucket' = [bucket EXCEPT ![month] = b]
    BY <1>2 DEF Reserve, Ledger, Bucket
  <2>3. /\ e \in Row /\ e.status = "RESERVED" /\ e.month = month /\ e.reserved = amount
        /\ e.charged = 0
    BY LedgerFields DEF Row, RowStatuses, NoEntry
  <2>4. /\ b \in Bucket /\ b.spent = bucket[month].spent
        /\ b.reserved = bucket[month].reserved + amount
        /\ b.messages = bucket[month].messages + one /\ one \in {0, 1}
    <3>1. /\ bucket[month].reserved + amount \in Int /\ bucket[month].messages + one \in Int
          /\ bucket[month] \in Bucket
      BY LedgerFields
    <3> QED BY <3>1 DEF Bucket
  <2> HIDE DEF e, b
  <2>5. /\ entry' \in [Keys -> Row] /\ entry'[k] = e
        /\ \A j \in Keys \ {k} : entry'[j] = entry[j]
        /\ bucket' \in [1..Months -> Bucket] /\ bucket'[month] = b
        /\ \A p \in (1..Months) \ {month} : bucket'[p] = bucket[p]
    BY <2>2, <2>3, <2>4 DEF Ledger
  <2>6. ASSUME NEW p \in (1..Months) \ {month} PROVE MonthTotals(p)' /\ MonthSpend(p)'
    <3>1. k \notin Rows(p) /\ k \notin Rows(p)' BY <2>1, <2>3, <2>5 DEF Rows
    <3> QED BY <2>5, <3>1, LedgerFields, MonthUntouched
  <2>7. PICK p \in 1..Months : p = month BY DEF Ledger
  <2>8. MonthTotals(p) /\ MonthSpend(p) /\ IsFiniteSet(Rows(p)) /\ IsFiniteSet(Open(p))
    <3>1. MonthTotals(p) /\ MonthSpend(p) BY DEF Ledger
    <3> QED BY <3>1, FS_Subset DEF MonthTotals, Open
  <2>9. /\ Rows(p)' = Rows(p) \cup {k} /\ Open(p)' = Open(p) \cup {k}
        /\ k \notin Rows(p) /\ k \notin Open(p)
    BY <2>1, <2>3, <2>5, <2>7 DEF Rows, Open
  <2>10. /\ \A j \in Rows(p) :
              /\ Reserved'[j] = Reserved[j] /\ Charged'[j] = Charged[j] /\ Excess'[j] = Excess[j]
              /\ Reserved[j] \in Int /\ Charged[j] \in Int /\ Excess[j] \in Int
         /\ Reserved'[k] = amount /\ Charged'[k] = 0 /\ Excess'[k] = 0
    <3>1. \A j \in Rows(p) : j \in Keys \ {k} BY <2>9 DEF Rows
    <3>2. Excess'[k] = Max({0, 0 - amount}) BY <2>3, <2>5 DEF Excess
    <3>3. Max({0, 0 - amount}) = 0
      <4> DEFINE n == 0 - amount
      <4>1. n \in Int /\ 0 \in Int /\ n <= 0 OBVIOUS
      <4> HIDE DEF n
      <4>2. Max({0, n}) \in {0, n} /\ Max({0, n}) >= 0 BY <4>1, MaxOfTwo, Zenon
      <4> QED BY <4>1, <4>2 DEF n
    <3>4. \A j \in Rows(p) :
              /\ Reserved'[j] = Reserved[j] /\ Charged'[j] = Charged[j] /\ Excess'[j] = Excess[j]
      BY <2>5, <3>1 DEF Reserved, Charged, Excess
    <3>5. Reserved'[k] = amount /\ Charged'[k] = 0 BY <2>3, <2>5 DEF Reserved, Charged
    <3> QED BY <3>1, <3>2, <3>3, <3>4, <3>5, LedgerFields
  <2>11. /\ SumFunctionOnSet(Reserved', Open(p)') = SumFunctionOnSet(Reserved, Open(p)) + amount
         /\ SumFunctionOnSet(Charged', Rows(p)') = SumFunctionOnSet(Charged, Rows(p)) + 0
         /\ SumFunctionOnSet(Excess', Rows(p)') = SumFunctionOnSet(Excess, Rows(p)) + 0
         /\ IsFiniteSet(Rows(p)')
    <3>1. \A j \in Open(p) : Reserved[j] = Reserved'[j] /\ Reserved[j] \in Int
      BY <2>10 DEF Open
    <3>2. \A j \in Rows(p) : Charged[j] = Charged'[j] /\ Charged[j] \in Int
      BY <2>10
    <3>3. \A j \in Rows(p) : Excess[j] = Excess'[j] /\ Excess[j] \in Int
      BY <2>10
    <3>4. Reserved'[k] \in Int /\ Charged'[k] \in Int /\ Excess'[k] \in Int BY <2>10
    <3>5. SumFunctionOnSet(Reserved', Open(p) \cup {k})
            = SumFunctionOnSet(Reserved, Open(p)) + Reserved'[k]
      BY <2>8, <2>9, <3>1, <3>4, SumPut
    <3>6. /\ SumFunctionOnSet(Charged', Rows(p) \cup {k})
               = SumFunctionOnSet(Charged, Rows(p)) + Charged'[k]
          /\ IsFiniteSet(Rows(p) \cup {k})
      BY <2>8, <2>9, <3>2, <3>4, SumPut
    <3>7. SumFunctionOnSet(Excess', Rows(p) \cup {k})
            = SumFunctionOnSet(Excess, Rows(p)) + Excess'[k]
      BY <2>8, <2>9, <3>3, <3>4, SumPut
    <3> QED BY <2>9, <2>10, <3>5, <3>6, <3>7
  <2>12. /\ SumFunctionOnSet(Charged, Rows(p)) \in Int /\ SumFunctionOnSet(Excess, Rows(p)) \in Int
    BY <2>8, <2>10, SumProperties
  <2>13. MonthTotals(p)'
    <3> DEFINE old == {j \in Rows(p) : j[3] = "message"}
    <3>1. IsFiniteSet(old) /\ Cardinality(old) \in Nat BY <2>8, FS_Subset, FS_CardinalityType
    <3>2. {j \in Rows(p)' : j[3] = "message"} = IF k[3] = "message" THEN old \cup {k} ELSE old
      BY <2>9
    <3>3. k \notin old BY <2>9
    <3> HIDE DEF old
    <3>4. Cardinality({j \in Rows(p)' : j[3] = "message"}) = Cardinality(old) + one
      <4>1. CASE k[3] = "message"
        <5>1. Cardinality(old \cup {k}) = Cardinality(old) + 1 BY <3>1, <3>3, FS_AddElement
        <5> QED BY <3>2, <4>1, <5>1
      <4>2. CASE k[3] # "message" BY <3>1, <3>2, <4>2
      <4> QED BY <4>1, <4>2
    <3>5. bucket[p].messages = Cardinality(old) BY <2>8 DEF MonthTotals, old
    <3> QED BY <2>4, <2>5, <2>7, <2>8, <2>11, <2>12, <3>4, <3>5 DEF MonthTotals
  <2>14. MonthSpend(p)'
    <3>1. bucket[p].spent + bucket[p].reserved + amount <= profile.ceiling
      BY <2>1, <2>7, LedgerFields DEF Exhausted
    <3>2. SumFunctionOnSet(Excess, Rows(p)) >= 0
      <4>1. \A j \in Rows(p) : Excess[j] >= 0 BY LedgerFields DEF Rows
      <4> QED BY <2>8, <2>10, <4>1, SumProperties
    <3>3. /\ bucket[p].spent \in Int /\ bucket[p].reserved \in Int
          /\ profile.ceiling \in Nat /\ profile.peak \in Nat /\ profile.ceiling <= profile.peak
      BY LedgerFields DEF Ledger
    <3> QED BY <2>4, <2>5, <2>7, <2>11, <2>12, <3>1, <3>2, <3>3 DEF MonthSpend
  <2>15. OpenIsUncharged' BY <2>3, <2>5 DEF Ledger, OpenIsUncharged
  <2>16. Ledger' BY <2>5, <2>6, <2>7, <2>13, <2>14, <2>15 DEF Ledger
  <2> QED BY <2>1, <2>3, <2>5, <2>16
<1> QED BY <1>1, <1>2

\* finish closes an open row once, in the month it was reserved in; what it charges beyond
\* the reservation is excess, and without a receipt the reservation is charged.
LEMMA SettleKeepsLedger ==
  ASSUME Ledger, NEW k \in Keys, NEW charge \in Nat \cup {Unknown}, NEW text \in BOOLEAN,
         Settle(k, charge, text), UNCHANGED <<profile, month>>
  PROVE  /\ Ledger' /\ \A j \in Keys \ {k} : entry'[j] = entry[j]
         /\ \/ entry[k].status # "RESERVED" /\ entry'[k] = entry[k]
            \/ /\ entry[k].status = "RESERVED" /\ charge = Unknown
               /\ entry'[k].status = "UNKNOWN" /\ entry'[k].charged = entry'[k].reserved
            \/ /\ entry[k].status = "RESERVED" /\ charge # Unknown
               /\ entry'[k].status = "COMPLETED" /\ entry'[k].charged = charge
<1>1. CASE entry[k].status # "RESERVED"
  <2>1. UNCHANGED <<entry, bucket>> BY <1>1 DEF Settle
  <2>2. /\ profile \in Profile /\ month \in 1..Months /\ profile.ceiling <= profile.peak
        /\ profile.peak <= profile.peak
    BY LedgerFields DEF Ledger
  <2>3. Ledger' BY <2>1, <2>2, LedgerKept
  <2> QED BY <1>1, <2>1, <2>3
<1>2. CASE entry[k].status = "RESERVED"
  <2>1. PICK p \in 1..Months : p = entry[k].month BY LedgerFields
  <2>2. PICK due \in Nat : due = Charge(k, charge)
    BY LedgerFields DEF Charge
  <2> DEFINE held == entry[k].reserved
             e == [entry[k] EXCEPT !.status = IF charge = Unknown THEN "UNKNOWN" ELSE "COMPLETED",
                                   !.charged = due, !.text = text]
             b == [bucket[p] EXCEPT !.reserved = @ - held, !.spent = @ + due]
  <2>3. /\ held \in Nat /\ entry[k].charged = 0 /\ entry[k] \in Row /\ bucket[p] \in Bucket
        /\ bucket[p].reserved - held \in Int /\ bucket[p].spent + due \in Int
    <3>1. entry[k].charged = 0 BY <1>2 DEF Ledger, OpenIsUncharged
    <3>2. /\ held \in Nat /\ entry[k] \in Row /\ bucket[p] \in Bucket
          /\ bucket[p].reserved \in Int /\ bucket[p].spent \in Int
      BY LedgerFields
    <3> QED BY <3>1, <3>2
  <2>4. entry' = [entry EXCEPT ![k] = e] /\ bucket' = [bucket EXCEPT ![p] = b]
    <3>1. entry' = [entry EXCEPT ![k] = e] BY <1>2, <2>2 DEF Settle
    <3>2. bucket' = [bucket EXCEPT ![p].reserved = @ - held, ![p].spent = @ + due]
      BY <1>2, <2>1, <2>2 DEF Settle
    <3>3. bucket \in [1..Months -> Bucket] BY DEF Ledger
    <3> HIDE DEF held
    <3> QED BY <3>1, <3>2, <3>3 DEF Bucket
  <2>5. /\ e \in Row /\ e.status = IF charge = Unknown THEN "UNKNOWN" ELSE "COMPLETED"
        /\ e.month = p /\ e.reserved = held /\ e.charged = due
    BY <2>1, <2>3 DEF Row, RowStatuses
  <2>6. /\ b \in Bucket /\ b.spent = bucket[p].spent + due
        /\ b.reserved = bucket[p].reserved - held /\ b.messages = bucket[p].messages
    BY <2>3 DEF Bucket
  <2> HIDE DEF e, b, held
  <2>7. /\ entry' \in [Keys -> Row] /\ entry'[k] = e
        /\ \A j \in Keys \ {k} : entry'[j] = entry[j]
        /\ bucket' \in [1..Months -> Bucket] /\ bucket'[p] = b
        /\ \A q \in (1..Months) \ {p} : bucket'[q] = bucket[q]
    BY <2>4, <2>5, <2>6 DEF Ledger
  <2>8. ASSUME NEW q \in (1..Months) \ {p} PROVE MonthTotals(q)' /\ MonthSpend(q)'
    <3>1. k \notin Rows(q) /\ k \notin Rows(q)' BY <2>1, <2>5, <2>7 DEF Rows
    <3> QED BY <2>7, <3>1, LedgerFields, MonthUntouched
  <2>9. MonthTotals(p) /\ MonthSpend(p) /\ IsFiniteSet(Rows(p)) /\ IsFiniteSet(Open(p))
    <3>1. MonthTotals(p) /\ MonthSpend(p) BY DEF Ledger
    <3> QED BY <3>1, FS_Subset DEF MonthTotals, Open
  <2>10. Rows(p)' = Rows(p) /\ Open(p)' = Open(p) \ {k} /\ k \in Rows(p) /\ k \in Open(p)
    BY <1>2, <2>1, <2>5, <2>7 DEF Rows, Open
  <2>11. PICK over \in Int :
           /\ Excess'[k] = over /\ over >= 0 /\ over >= due - held
           /\ Charged'[k] = due /\ Reserved[k] = held /\ Charged[k] = 0 /\ Excess[k] = 0
    <3> DEFINE n == due - held
    <3>1. Excess'[k] = Max({0, n}) BY <2>5, <2>7 DEF Excess
    <3>2. n \in Int /\ 0 \in Int BY <2>3
    <3>3. Excess[k] = 0
      <4> DEFINE r == 0 - held
      <4>1. r \in Int /\ 0 \in Int /\ r <= 0 BY <2>3
      <4>2. Excess[k] = Max({0, r}) BY <2>3 DEF Excess, held
      <4> HIDE DEF r
      <4>3. Max({0, r}) \in {0, r} /\ Max({0, r}) >= 0 BY <4>1, MaxOfTwo, Zenon
      <4> QED BY <4>1, <4>2, <4>3
    <3> HIDE DEF n
    <3>4. Max({0, n}) \in Int /\ Max({0, n}) >= 0 /\ Max({0, n}) >= n
      BY <3>2, MaxOfTwo, Zenon
    <3>5. Charged'[k] = due /\ Reserved[k] = held /\ Charged[k] = 0
      BY <2>3, <2>5, <2>7 DEF Charged, Reserved, held
    <3> QED BY <3>1, <3>3, <3>4, <3>5 DEF n
  <2>12. \A j \in Rows(p) : Reserved[j] \in Int /\ Charged[j] \in Int /\ Excess[j] \in Int
    BY LedgerFields DEF Rows
  <2>13. \A j \in Rows(p) \ {k} :
           Reserved[j] = Reserved'[j] /\ Charged[j] = Charged'[j] /\ Excess[j] = Excess'[j]
    BY <2>7 DEF Rows, Reserved, Charged, Excess
  <2>14. SumFunctionOnSet(Reserved', Open(p) \ {k}) = SumFunctionOnSet(Reserved, Open(p)) - held
    <3>1. /\ \A j \in Open(p) : Reserved[j] \in Int
          /\ \A j \in Open(p) \ {k} : Reserved[j] = Reserved'[j]
      BY <2>12, <2>13 DEF Open
    <3> QED BY <2>9, <2>10, <2>11, <3>1, SumDrop
  <2>15. SumFunctionOnSet(Charged', Rows(p)) = SumFunctionOnSet(Charged, Rows(p)) - 0 + due
    <3>1. Charged'[k] \in Int BY <2>11
    <3>2. \A j \in Rows(p) : Charged[j] \in Int BY <2>12
    <3>3. \A j \in Rows(p) \ {k} : Charged[j] = Charged'[j] BY <2>13
    <3>4. SumFunctionOnSet(Charged', Rows(p)) = SumFunctionOnSet(Charged, Rows(p)) - Charged[k] + Charged'[k]
      BY <2>9, <2>10, <3>1, <3>2, <3>3, SumChange
    <3> QED BY <2>11, <3>4
  <2>16. SumFunctionOnSet(Excess', Rows(p)) = SumFunctionOnSet(Excess, Rows(p)) - 0 + over
    <3>1. Excess'[k] \in Int BY <2>11
    <3>2. \A j \in Rows(p) : Excess[j] \in Int BY <2>12
    <3>3. \A j \in Rows(p) \ {k} : Excess[j] = Excess'[j] BY <2>13
    <3>4. SumFunctionOnSet(Excess', Rows(p)) = SumFunctionOnSet(Excess, Rows(p)) - Excess[k] + Excess'[k]
      BY <2>9, <2>10, <3>1, <3>2, <3>3, SumChange
    <3> QED BY <2>11, <3>4
  <2>17. SumFunctionOnSet(Charged, Rows(p)) \in Int /\ SumFunctionOnSet(Excess, Rows(p)) \in Int
    BY <2>9, <2>12, SumProperties
  <2>18. MonthTotals(p)'
    BY <2>6, <2>7, <2>9, <2>10, <2>14, <2>15, <2>17 DEF MonthTotals
  <2>19. MonthSpend(p)'
    <3>1. /\ bucket[p].spent \in Int /\ bucket[p].reserved \in Int /\ profile.peak \in Nat
      BY LedgerFields
    <3>2. /\ bucket'[p].spent = bucket[p].spent + due /\ profile'.peak = profile.peak
          /\ bucket'[p].reserved = bucket[p].reserved - held
      BY <2>6, <2>7
    <3>3. bucket'[p].spent + bucket'[p].reserved
            <= profile'.peak + SumFunctionOnSet(Excess', Rows(p))
      BY <2>3, <2>9, <2>11, <2>16, <2>17, <3>1, <3>2 DEF MonthSpend
    <3> QED BY <2>10, <3>3 DEF MonthSpend
  <2>20. OpenIsUncharged' BY <2>5, <2>7 DEF Ledger, OpenIsUncharged
  <2>21. Ledger' BY <2>7, <2>8, <2>18, <2>19, <2>20 DEF Ledger
  <2>22. charge = Unknown => due = held BY <2>2 DEF Charge, held
  <2>23. charge # Unknown => due = charge BY <2>2 DEF Charge
  <2> QED BY <1>2, <2>5, <2>7, <2>21, <2>22, <2>23
<1> QED BY <1>1, <1>2

-----------------------------------------------------------------------------
(* Keys, allowances and attempts *)

LEMMA KeyFacts ==
  /\ \A m \in Messages : MessageKey(m) \in Keys /\ MessageKey(m)[3] = "message"
  /\ \A m \in VoiceNotes : AudioKey(m) \in Keys /\ AudioKey(m)[3] = "audio" /\ m \in Messages
  /\ \A m, n : (AudioKey(m) = AudioKey(n) => m = n) /\ AudioKey(m) # MessageKey(n)
  /\ \A k \in OpKeys : k \in Keys /\ k[3] \in Kinds /\ k[3] # "audio" /\ k[3] # "message"
  /\ \A m : AudioKey(m)[3] = "audio"
  BY LedgerAssumption DEF Keys, OpKeys, MessageKey, AudioKey

LEMMA CallFacts == \A c \in Calls : c[1] \in Messages
  BY DEF Calls

LEMMA KindsAreFinite == IsFiniteSet(Kinds)
<1>1. IsFiniteSet({"llm", "embedding", "image"})
  <2>1. IsFiniteSet({"llm"} \cup {"embedding"}) BY FS_Singleton, FS_AddElement
  <2>2. IsFiniteSet(({"llm"} \cup {"embedding"}) \cup {"image"}) BY <2>1, FS_AddElement
  <2>3. ({"llm"} \cup {"embedding"}) \cup {"image"} = {"llm", "embedding", "image"} OBVIOUS
  <2> QED BY <2>2, <2>3
<1> QED BY <1>1, FS_Subset, LedgerAssumption

\* A turn that has allowance left has a key left.
LEMMA AnotherOp ==
  ASSUME NEW c, NEW r \in CallState, CallOk(c, r), NEW kind \in Kinds, r.used[kind] < PerTurn[kind],
         NEW used, used = [r.used EXCEPT ![kind] = @ + 1]
  PROVE  /\ r.seq + 1 \in 1..MaxOps /\ r.seq + 1 = SumFunctionOnSet(used, Kinds)
         /\ used \in [Kinds -> Nat] /\ \A k \in Kinds : used[k] <= PerTurn[k]
<1>0. PICK old : old = r.used OBVIOUS
<1>1. old \in [Kinds -> Nat] /\ PerTurn \in [Kinds -> Nat] /\ r.seq \in Nat
  BY <1>0, AllowanceAssumption DEF CallState
<1>2. /\ used \in [Kinds -> Nat] /\ used[kind] = old[kind] + 1
      /\ \A k \in Kinds \ {kind} : old[k] = used[k]
  <2>1. old[kind] + 1 \in Nat BY <1>1
  <2> QED BY <1>0, <1>1, <2>1
<1>3. \A k \in Kinds : used[k] <= PerTurn[k]
  <2>1. old[kind] \in Nat /\ PerTurn[kind] \in Nat BY <1>1
  <2> QED BY <1>0, <1>2, <2>1 DEF CallOk
<1>4. \A k \in Kinds : used[k] \in Int /\ PerTurn[k] \in Int /\ used[k] <= PerTurn[k]
  BY <1>1, <1>2, <1>3
<1>5. SumFunctionOnSet(used, Kinds) <= SumFunctionOnSet(PerTurn, Kinds)
  BY <1>4, KindsAreFinite, SumMonotone
<1>6. SumFunctionOnSet(used, Kinds) = SumFunctionOnSet(old, Kinds) + 1
  <2>1. \A k \in Kinds : old[k] \in Int BY <1>1
  <2>2. used[kind] = old[kind] + 1 BY <1>2
  <2>3. \A k \in Kinds \ {kind} : old[k] = used[k] BY <1>2
  <2> QED BY <2>1, <2>2, <2>3, KindsAreFinite, SumGrows
<1>7. r.seq + 1 = SumFunctionOnSet(used, Kinds) BY <1>0, <1>6 DEF CallOk
<1> QED BY <1>1, <1>2, <1>3, <1>5, <1>7, AllowanceAssumption, LedgerAssumption

LEMMA IdleIsOk ==
  /\ IdleCall \in CallState /\ IdleCall.pc = "idle" /\ IdleCall.charge = "none"
  /\ \A c : CallOk(c, IdleCall)
<1>1. IdleCall \in CallState /\ IdleCall.pc = "idle" /\ IdleCall.charge = "none"
  BY DEF IdleCall, CallState, Pcs, Answers
<1>2. IdleCall.seq = 0 /\ IdleCall.used = [k \in Kinds |-> 0] BY DEF IdleCall
<1>3. SumFunctionOnSet(IdleCall.used, Kinds) = 0 BY <1>2, KindsAreFinite, SumOfZeros
<1>4. \A kind \in Kinds : 0 <= PerTurn[kind] BY AllowanceAssumption
<1> QED BY <1>1, <1>2, <1>3, <1>4 DEF CallOk, VoicePcs

\* An attempt goes on as r.
Moves(c, r) == r \in CallState /\ CallOk(c, r) /\ call' = [call EXCEPT ![c] = r]

\* It does not take up a recording, and hears nothing without having asked.
HoldsOn(c, r) ==
  r.pc \in Listening =>
    call[c].pc \in Listening /\ ((r.pc = "heard" /\ r.charge # "nothing") \/ Unheard(c))

LEMMA GotoMoves ==
  ASSUME CallsTyped, NEW c \in Calls, NEW pc \in Pcs, Goto(c, pc),
         pc \in VoicePcs => c[1] \in VoiceNotes, pc # "paid"
  PROVE  \E r : Moves(c, r) /\ r.pc = pc /\ r.charge = call[c].charge
<1> DEFINE r == [call[c] EXCEPT !.pc = pc]
<1>1. call[c] \in CallState /\ CallOk(c, call[c]) /\ call \in [Calls -> CallState] BY DEF CallsTyped
<1>2. /\ r \in CallState /\ r.pc = pc /\ r.charge = call[c].charge
      /\ r.seq = call[c].seq /\ r.used = call[c].used
  BY <1>1 DEF CallState
<1>3. call' = [call EXCEPT ![c] = r] BY <1>1 DEF Goto, CallState
<1> HIDE DEF r
<1> QED BY <1>1, <1>2, <1>3 DEF Moves, CallOk

LEMMA EndMoves ==
  ASSUME NEW c \in Calls, NEW pc \in {"answered", "silent", "failed", "dead"},
         NEW why \in {"none", "inactive", "reserved", "exhausted"}, End(c, pc, why)
  PROVE  \E r : Moves(c, r) /\ r.pc = pc
<1> DEFINE r == [IdleCall EXCEPT !.pc = pc, !.why = why]
<1>1. /\ r \in CallState /\ r.pc = pc
      /\ r.seq = IdleCall.seq /\ r.used = IdleCall.used
  BY IdleIsOk DEF CallState, Pcs
<1>2. call' = [call EXCEPT ![c] = r] BY DEF End
<1> HIDE DEF r
<1> QED BY <1>1, <1>2, IdleIsOk DEF Moves, CallOk, VoicePcs

\* What the steps of an attempt have in common, apart from taking up a recording and asking.
LEMMA AttemptGoesOn ==
  ASSUME BudgetInd, NEW c \in Calls, NEW r, Moves(c, r), HoldsOn(c, r), Ledger',
         \A m \in VoiceNotes :
           /\ Held(AudioKey(m)) =>
                Held(AudioKey(m))' \/ (m = c[1] /\ call[c].pc \in Listening /\ r.pc \notin Listening)
           /\ asked'[AudioKey(m)] = asked[AudioKey(m)],
         asked' \in [Keys -> Nat], PaidOnce', changes' \in Nat, faults' \in Nat
  PROVE  BudgetInd'
<1>1. /\ call' \in [Calls -> CallState] /\ call'[c] = r /\ \A d \in Calls \ {c} : call'[d] = call[d]
      /\ \A d \in Calls : CallOk(d, call[d])
  BY DEF BudgetInd, CallsTyped, Moves
<1>2. \A d \in Calls : CallOk(d, call'[d])
  BY <1>1 DEF Moves
<1>3. CallsTyped' BY <1>1, <1>2 DEF CallsTyped, CallOk
<1>4. ASSUME NEW m \in VoiceNotes PROVE OneListener(m)'
  <2>1. OneListener(m) BY DEF BudgetInd
  <2>2. \A d \in Calls : call'[d].pc \in Listening => call[d].pc \in Listening
    BY <1>1 DEF HoldsOn
  <2>3. \A d \in Calls : call'[d].pc \in Listening /\ Unheard(d)' => Unheard(d)
    BY <1>1 DEF HoldsOn, Unheard
  <2>4. \A d \in Calls : d[1] = m /\ call'[d].pc \in Listening => Held(AudioKey(m))'
    BY <1>1, <2>1, <2>2 DEF OneListener
  <2> QED BY <2>1, <2>2, <2>3, <2>4 DEF OneListener
<1> QED BY <1>3, <1>4 DEF BudgetInd

\* An attempt goes on listening.
Hears(c, pc, charge) == call' = [call EXCEPT ![c] = [@ EXCEPT !.pc = pc, !.charge = charge]]

LEMMA HearMoves ==
  ASSUME CallsTyped, NEW c \in Calls, NEW pc \in {"check", "listen", "heard", "voiceEnd"},
         NEW charge \in Answers, c[1] \in VoiceNotes, Hears(c, pc, charge)
  PROVE  \E r : Moves(c, r) /\ r.pc = pc /\ r.charge = charge
<1> DEFINE r == [call[c] EXCEPT !.pc = pc, !.charge = charge]
<1>1. call[c] \in CallState /\ CallOk(c, call[c]) /\ call \in [Calls -> CallState] BY DEF CallsTyped
<1>2. /\ r \in CallState /\ r.pc = pc /\ r.charge = charge
      /\ r.seq = call[c].seq /\ r.used = call[c].used
  BY <1>1 DEF CallState, Pcs
<1>3. call' = [call EXCEPT ![c] = r] BY <1>1 DEF Hears
<1> HIDE DEF r
<1> QED BY <1>1, <1>2, <1>3 DEF Moves, CallOk

LEMMA VoiceFacts ==
  ASSUME CallsTyped, NEW c \in Calls, call[c].pc \in VoicePcs
  PROVE  /\ c[1] \in VoiceNotes /\ c[1] \in Messages
         /\ AudioKey(c[1]) \in Keys /\ MessageKey(c[1]) \in Keys
BY KeyFacts DEF CallsTyped, CallOk

-----------------------------------------------------------------------------
(* The steps that move no row *)

LEMMA LedgerStays == ASSUME Ledger, UNCHANGED <<entry, bucket, profile, month>> PROVE Ledger'
<1>1. /\ profile' \in Profile /\ month' \in 1..Months /\ profile'.ceiling <= profile'.peak
      /\ profile.peak <= profile'.peak
  BY LedgerFields DEF Ledger
<1> QED BY <1>1, LedgerKept

LEMMA BesideTheLedger ==
  ASSUME BudgetInd, NEW c \in Calls, NEW r, Moves(c, r), HoldsOn(c, r),
         UNCHANGED <<entry, bucket, profile, month, asked, changes>>,
         faults' = faults \/ \E kind : Fault(kind)
  PROVE  BudgetInd'
<1>1. Ledger' BY LedgerStays DEF BudgetInd
<1>2. PaidOnce' /\ asked' \in [Keys -> Nat] /\ changes' \in Nat /\ faults' \in Nat
  BY DEF BudgetInd, CallsTyped, PaidOnce, Fault
<1>3. \A m \in VoiceNotes : /\ Held(AudioKey(m)) => Held(AudioKey(m))'
                            /\ asked'[AudioKey(m)] = asked[AudioKey(m)]
  BY DEF Held
<1> QED BY <1>1, <1>2, <1>3, AttemptGoesOn

LEMMA StartKeeps == ASSUME BudgetInd, NEW c \in Calls, Start(c) PROVE BudgetInd'
<1>1. PICK pc \in {"voice", "look"} : Goto(c, pc) /\ (pc = "voice" => c[1] \in VoiceNotes)
  BY DEF Start
<1>2. PICK r : Moves(c, r) /\ r.pc = pc
  BY <1>1, GotoMoves DEF BudgetInd, Pcs, VoicePcs
<1>3. HoldsOn(c, r) BY <1>2 DEF HoldsOn, Listening
<1> QED BY <1>2, <1>3, BesideTheLedger DEF Start

LEMMA CrashKeeps == ASSUME BudgetInd, NEW c \in Calls, Crash(c) PROVE BudgetInd'
<1>1. PICK r : Moves(c, r) /\ r.pc = "dead" BY EndMoves DEF Crash
<1>2. HoldsOn(c, r) BY <1>1 DEF HoldsOn, Listening
<1> QED BY <1>1, <1>2, BesideTheLedger DEF Crash

LEMMA VoiceLookKeeps ==
  ASSUME BudgetInd, NEW c \in Calls, NEW old \in BOOLEAN, VoiceLook(c, old) PROVE BudgetInd'
<1>1. c[1] \in VoiceNotes BY VoiceFacts DEF BudgetInd, VoiceLook, VoicePcs
<1>2. PICK pc \in {"look", "voiceMessage", "settle"} : Goto(c, pc) BY DEF VoiceLook
<1>3. PICK r : Moves(c, r) /\ r.pc = pc BY <1>1, <1>2, GotoMoves DEF BudgetInd, Pcs
<1>4. HoldsOn(c, r) BY <1>3 DEF HoldsOn, Listening
<1> QED BY <1>3, <1>4, BesideTheLedger DEF VoiceLook

LEMMA LoadKeeps ==
  ASSUME BudgetInd, NEW c \in Calls, NEW ok \in BOOLEAN, Load(c, ok) PROVE BudgetInd'
<1>1. c[1] \in VoiceNotes BY VoiceFacts DEF BudgetInd, Load, VoicePcs
<1> DEFINE pc == IF ok THEN "check" ELSE "heard"
           charge == IF ok THEN "none" ELSE "nothing"
<1>2. /\ Hears(c, pc, charge)
      /\ pc \in {"check", "heard"} /\ charge \in {"none", "nothing"}
      /\ pc = "heard" => charge = "nothing"
  BY DEF Load, Hears
<1> HIDE DEF pc, charge
<1>3. PICK r : Moves(c, r) /\ r.pc = pc /\ r.charge = charge
  BY <1>1, <1>2, HearMoves DEF BudgetInd, Answers
<1>4. HoldsOn(c, r) BY <1>2, <1>3 DEF HoldsOn, Listening, Unheard, Load
<1> QED BY <1>3, <1>4, BesideTheLedger DEF Load

LEMMA CheckAllowanceKeeps ==
  ASSUME BudgetInd, NEW c \in Calls, CheckAllowance(c) PROVE BudgetInd'
<1>1. c[1] \in VoiceNotes BY VoiceFacts DEF BudgetInd, CheckAllowance, VoicePcs
<1>2. PICK ok \in BOOLEAN :
        call' = [call EXCEPT ![c] = [@ EXCEPT !.pc = IF ok THEN "listen" ELSE "heard",
                                              !.charge = IF ok THEN "none" ELSE "nothing"]]
  BY DEF CheckAllowance
<1> DEFINE pc == IF ok THEN "listen" ELSE "heard"
           charge == IF ok THEN "none" ELSE "nothing"
<1>3. /\ Hears(c, pc, charge)
      /\ pc \in {"listen", "heard"} /\ charge \in {"none", "nothing"}
      /\ pc = "heard" => charge = "nothing"
  BY <1>2 DEF Hears
<1> HIDE DEF pc, charge
<1>4. PICK r : Moves(c, r) /\ r.pc = pc /\ r.charge = charge
  BY <1>1, <1>3, HearMoves DEF BudgetInd, Answers
<1>5. HoldsOn(c, r) BY <1>3, <1>4 DEF HoldsOn, Listening, Unheard, CheckAllowance
<1> QED BY <1>4, <1>5, BesideTheLedger DEF CheckAllowance

LEMMA FinishVoiceFailsKeeps ==
  ASSUME BudgetInd, NEW c \in Calls, FinishVoiceFails(c) PROVE BudgetInd'
<1> DEFINE r == [call[c] EXCEPT !.charge = "failed"]
<1>1. call[c] \in CallState /\ CallOk(c, call[c]) /\ call \in [Calls -> CallState]
  BY DEF BudgetInd, CallsTyped
<1>2. /\ r \in CallState /\ r.pc = call[c].pc /\ r.charge = "failed" /\ r.key = call[c].key
      /\ r.seq = call[c].seq /\ r.used = call[c].used
  BY <1>1 DEF CallState, Answers
<1>3. call' = [call EXCEPT ![c] = r] BY <1>1 DEF FinishVoiceFails
<1> HIDE DEF r
<1>4. Moves(c, r) BY <1>1, <1>2, <1>3 DEF Moves, CallOk
<1>5. HoldsOn(c, r) BY <1>2 DEF HoldsOn, FinishVoiceFails, Listening
<1> QED BY <1>4, <1>5, BesideTheLedger DEF FinishVoiceFails

LEMMA LookUpProfileKeeps == ASSUME BudgetInd, NEW c \in Calls, LookUpProfile(c) PROVE BudgetInd'
<1>1. \E r : Moves(c, r) /\ r.pc \in {"begin", "silent"}
  <2>1. CASE profile.status = "ACTIVE"
    <3>1. Goto(c, "begin") BY <2>1 DEF LookUpProfile
    <3> QED BY <3>1, GotoMoves DEF BudgetInd, Pcs, VoicePcs
  <2>2. CASE profile.status # "ACTIVE"
    <3>1. End(c, "silent", "inactive") BY <2>2 DEF LookUpProfile
    <3> QED BY <3>1, EndMoves
  <2> QED BY <2>1, <2>2
<1>2. PICK r : Moves(c, r) /\ r.pc \in {"begin", "silent"} BY <1>1
<1>3. HoldsOn(c, r) BY <1>2 DEF HoldsOn, Listening
<1> QED BY <1>2, <1>3, BesideTheLedger DEF LookUpProfile

LEMMA EngineEndsKeeps ==
  ASSUME BudgetInd, NEW c \in Calls, NEW ok \in BOOLEAN, EngineEnds(c, ok) PROVE BudgetInd'
<1>1. PICK pc \in {"end", "throw"} : Goto(c, pc) BY DEF EngineEnds
<1>2. PICK r : Moves(c, r) /\ r.pc = pc BY <1>1, GotoMoves DEF BudgetInd, Pcs, VoicePcs
<1>3. HoldsOn(c, r) BY <1>2 DEF HoldsOn, Listening
<1> QED BY <1>2, <1>3, BesideTheLedger DEF EngineEnds

LEMMA FinishOpFailsKeeps == ASSUME BudgetInd, NEW c \in Calls, FinishOpFails(c) PROVE BudgetInd'
<1> DEFINE r == [call[c] EXCEPT !.pc = "throw", !.key = NoKey]
<1>1. call[c] \in CallState /\ CallOk(c, call[c]) /\ call \in [Calls -> CallState]
  BY DEF BudgetInd, CallsTyped
<1>2. r \in CallState /\ r.pc = "throw" /\ r.seq = call[c].seq /\ r.used = call[c].used
  BY <1>1 DEF CallState, Pcs
<1>3. call' = [call EXCEPT ![c] = r] BY <1>1 DEF FinishOpFails
<1> HIDE DEF r
<1>4. Moves(c, r) BY <1>1, <1>2, <1>3 DEF Moves, CallOk, VoicePcs
<1>5. HoldsOn(c, r) BY <1>2 DEF HoldsOn, Listening
<1> QED BY <1>4, <1>5, BesideTheLedger DEF FinishOpFails

LEMMA ChangeAccountKeeps ==
  ASSUME BudgetInd, NEW status \in {"ACTIVE", "SUSPENDED"}, NEW ceiling \in Ceilings,
         ChangeAccount(status, ceiling)
  PROVE  BudgetInd'
<1>1. ceiling \in Nat /\ profile.peak \in Nat /\ month \in 1..Months
  BY LedgerAssumption, LedgerFields DEF BudgetInd
<1> DEFINE peak == profile.peak
<1>2. peak \in Int /\ ceiling \in Int BY <1>1
<1>3. profile' = [status |-> status, ceiling |-> ceiling, peak |-> Max({peak, ceiling})]
  BY DEF ChangeAccount
<1> HIDE DEF peak
<1>4. /\ Max({peak, ceiling}) \in {peak, ceiling}
      /\ Max({peak, ceiling}) >= peak /\ Max({peak, ceiling}) >= ceiling
  BY <1>2, MaxOfTwo, Zenon
<1>5. /\ profile' \in Profile /\ profile'.ceiling <= profile'.peak /\ profile.peak <= profile'.peak
  BY <1>1, <1>3, <1>4 DEF Profile, peak
<1>6. Ledger' BY <1>1, <1>5, LedgerKept DEF BudgetInd, ChangeAccount
<1>7. CallsTyped' BY DEF BudgetInd, CallsTyped, ChangeAccount, CallOk
<1>8. \A m \in VoiceNotes : OneListener(m)'
  BY DEF BudgetInd, OneListener, ChangeAccount, Held, Unheard
<1>9. PaidOnce' BY DEF BudgetInd, PaidOnce, ChangeAccount
<1> QED BY <1>6, <1>7, <1>8, <1>9 DEF BudgetInd

LEMMA NextMonthKeeps == ASSUME BudgetInd, NextMonth PROVE BudgetInd'
<1>1. /\ month \in 1..Months /\ profile.peak \in Nat /\ Months \in Nat
      /\ profile \in Profile /\ profile.ceiling <= profile.peak
  BY LedgerFields, LedgerAssumption DEF BudgetInd, Ledger
<1>2. /\ month' \in 1..Months /\ profile' \in Profile /\ profile'.ceiling <= profile'.peak
      /\ profile.peak <= profile'.peak
  BY <1>1 DEF NextMonth
<1>3. Ledger' BY <1>2, LedgerKept DEF BudgetInd, NextMonth
<1>4. CallsTyped' BY DEF BudgetInd, CallsTyped, NextMonth, CallOk
<1>5. \A m \in VoiceNotes : OneListener(m)'
  BY DEF BudgetInd, OneListener, NextMonth, Held, Unheard
<1>6. PaidOnce' BY DEF BudgetInd, PaidOnce, NextMonth
<1> QED BY <1>3, <1>4, <1>5, <1>6 DEF BudgetInd

-----------------------------------------------------------------------------
(* The steps that reserve, and the call of the provider of a voice note *)

\* A row that was never reserved has never been paid for.
LEMMA ReserveKeepsPaid ==
  ASSUME BudgetInd, NEW k \in Keys, NEW amount \in Nat, NEW allow,
         Refusal(k, amount, allow) = "none", Reserve(k, amount),
         UNCHANGED <<profile, month, asked>>
  PROVE  /\ Ledger' /\ PaidOnce' /\ \A j \in Keys : Held(j) => Held(j)'
         /\ \/ entry[k].status = "COMPLETED"
            \/ entry[k].status = "NONE" /\ entry'[k].status = "RESERVED" /\ asked[k] = 0
<1>1. /\ Ledger' /\ \A j \in Keys \ {k} : entry'[j] = entry[j]
      /\ \/ entry[k].status = "COMPLETED" /\ entry'[k] = entry[k]
         \/ entry[k].status = "NONE" /\ entry'[k].status = "RESERVED"
  BY ReserveKeepsLedger DEF BudgetInd
<1>2. asked[k] \in Nat /\ (entry[k].status = "NONE" => asked[k] = 0)
  BY DEF BudgetInd, CallsTyped, PaidOnce
<1>3. PaidOnce' BY <1>1, <1>2 DEF BudgetInd, PaidOnce
<1>4. \A j \in Keys : Held(j) => Held(j)' BY <1>1 DEF Held
<1> QED BY <1>1, <1>2, <1>3, <1>4

LEMMA BeginTurnKeeps == ASSUME BudgetInd, NEW c \in Calls, BeginTurn(c) PROVE BudgetInd'
<1> DEFINE k == MessageKey(c[1])
           why == Refusal(k, 0, TRUE)
<1>1. k \in Keys BY KeyFacts, CallFacts
<1>2. asked' \in [Keys -> Nat] /\ changes' \in Nat /\ faults' \in Nat
  BY DEF BudgetInd, CallsTyped, BeginTurn
<1>3. CASE why = "none"
  <2>1. Reserve(k, 0) /\ Goto(c, "work") BY <1>3 DEF BeginTurn
  <2>2. Ledger' /\ PaidOnce' /\ \A j \in Keys : Held(j) => Held(j)'
    BY <1>1, <1>3, <2>1, ReserveKeepsPaid DEF BeginTurn
  <2>3. PICK r : Moves(c, r) /\ r.pc = "work"
    BY <2>1, GotoMoves DEF BudgetInd, Pcs, VoicePcs
  <2>4. HoldsOn(c, r) BY <2>3 DEF HoldsOn, Listening
  <2> QED BY <1>2, <2>2, <2>3, <2>4, KeyFacts, AttemptGoesOn DEF BeginTurn
<1>4. CASE why # "none"
  <2>1. End(c, "silent", why) BY <1>4 DEF BeginTurn
  <2>2. why \in {"none", "inactive", "reserved", "exhausted"} BY DEF Refusal
  <2> HIDE DEF why
  <2>3. PICK r : Moves(c, r) /\ r.pc = "silent" BY <2>1, <2>2, EndMoves
  <2>4. HoldsOn(c, r) BY <2>3 DEF HoldsOn, Listening
  <2>5. UNCHANGED <<entry, bucket, profile, month, asked, changes, faults>>
    BY <1>4 DEF BeginTurn, why
  <2> QED BY <2>3, <2>4, <2>5, BesideTheLedger
<1> QED BY <1>3, <1>4

\* An attempt that takes up a recording reserves it: nobody has held or paid for it before.
LEMMA VoiceReserveKeeps == ASSUME BudgetInd, NEW c \in Calls, VoiceReserve(c) PROVE BudgetInd'
<1> DEFINE n == c[1]
           k == IF call[c].pc = "voiceMessage" THEN MessageKey(n) ELSE AudioKey(n)
           amount == IF k[3] = "message" THEN 0 ELSE Cost["audio"]
           allow == k[3] = "message"
<1>1. n \in VoiceNotes /\ n \in Messages /\ AudioKey(n) \in Keys /\ MessageKey(n) \in Keys
  BY VoiceFacts DEF BudgetInd, VoiceReserve, VoicePcs
<1>2. /\ k \in Keys /\ amount \in Nat
      /\ \/ call[c].pc = "voiceMessage" /\ k = MessageKey(n) /\ k[3] = "message"
         \/ call[c].pc = "voiceAudio" /\ k = AudioKey(n) /\ k[3] = "audio" /\ allow = FALSE
  BY <1>1, KeyFacts, LedgerAssumption DEF VoiceReserve
<1>3. asked' \in [Keys -> Nat] /\ changes' \in Nat /\ faults' \in Nat
  BY DEF BudgetInd, CallsTyped, VoiceReserve
<1>4. /\ \/ /\ Refusal(k, amount, allow) = "none" /\ Reserve(k, amount)
            /\ Goto(c, IF k[3] = "message" THEN "voiceAudio" ELSE "load")
         \/ Goto(c, IF k[3] = "message" THEN "look" ELSE "voiceEnd") /\ UNCHANGED <<entry, bucket>>
      /\ UNCHANGED <<profile, month, asked, changes, faults>>
  BY DEF VoiceReserve
<1> HIDE DEF k, amount, allow
<1>5. CASE Goto(c, IF k[3] = "message" THEN "look" ELSE "voiceEnd") /\ UNCHANGED <<entry, bucket>>
  <2>1. PICK pc \in {"look", "voiceEnd"} : Goto(c, pc) BY <1>5
  <2>2. PICK r : Moves(c, r) /\ r.pc = pc BY <1>1, <2>1, GotoMoves DEF BudgetInd, Pcs
  <2>3. HoldsOn(c, r) BY <2>2 DEF HoldsOn, Listening
  <2> QED BY <1>4, <1>5, <2>2, <2>3, BesideTheLedger
<1>6. CASE /\ Refusal(k, amount, allow) = "none" /\ Reserve(k, amount)
           /\ Goto(c, IF k[3] = "message" THEN "voiceAudio" ELSE "load")
  <2>1. /\ Ledger' /\ PaidOnce' /\ \A j \in Keys : Held(j) => Held(j)'
        /\ \/ entry[k].status = "COMPLETED"
           \/ entry[k].status = "NONE" /\ entry'[k].status = "RESERVED" /\ asked[k] = 0
    BY <1>2, <1>4, <1>6, ReserveKeepsPaid
  <2>2. CASE call[c].pc = "voiceMessage" /\ k[3] = "message"
    <3>1. Goto(c, "voiceAudio") BY <1>6, <2>2
    <3>2. PICK r : Moves(c, r) /\ r.pc = "voiceAudio"
      BY <1>1, <3>1, GotoMoves DEF BudgetInd, Pcs
    <3>3. HoldsOn(c, r) BY <3>2 DEF HoldsOn, Listening
    <3> QED BY <1>3, <1>4, <2>1, <3>2, <3>3, KeyFacts, AttemptGoesOn
  <2>3. CASE call[c].pc = "voiceAudio" /\ k = AudioKey(n) /\ k[3] = "audio" /\ allow = FALSE
    <3>1. Goto(c, "load") BY <1>6, <2>3
    <3>2. PICK r : Moves(c, r) /\ r.pc = "load" BY <1>1, <3>1, GotoMoves DEF BudgetInd, Pcs
    <3>3. entry[k].status = "NONE" /\ entry'[k].status = "RESERVED" /\ asked[k] = 0
      BY <1>6, <2>1, <2>3 DEF Refusal
    <3>4. /\ call \in [Calls -> CallState] /\ call' \in [Calls -> CallState] /\ call'[c] = r
          /\ \A d \in Calls \ {c} : call'[d] = call[d]
          /\ \A d \in Calls : CallOk(d, call[d])
      BY <3>2 DEF BudgetInd, CallsTyped, Moves
    <3>5. CallsTyped'
      <4>1. \A d \in Calls : CallOk(d, call'[d]) BY <3>2, <3>4 DEF Moves
      <4> QED BY <1>3, <3>4, <4>1 DEF CallsTyped, CallOk
    <3>6. ASSUME NEW m \in VoiceNotes PROVE OneListener(m)'
      <4>1. OneListener(m) BY DEF BudgetInd
      <4>2. CASE m = n
        <5>1. ~Held(k) BY <3>3 DEF Held
        <5>2. \A d \in Calls : d[1] = m => call[d].pc \notin Listening
          BY <2>3, <4>1, <4>2, <5>1 DEF OneListener
        <5>3. Held(AudioKey(m))' /\ asked'[AudioKey(m)] = 0 BY <1>4, <2>3, <3>3, <4>2 DEF Held
        <5> QED BY <3>4, <4>2, <5>2, <5>3 DEF OneListener
      <4>3. CASE m # n
        <5>1. \A d \in Calls : d[1] = m => call'[d] = call[d] BY <3>4, <4>3
        <5>2. Held(AudioKey(m)) => Held(AudioKey(m))' BY <2>1, KeyFacts
        <5>3. asked'[AudioKey(m)] = asked[AudioKey(m)] BY <1>4
        <5> QED BY <4>1, <5>1, <5>2, <5>3 DEF OneListener, Unheard
      <4> QED BY <4>2, <4>3
    <3> QED BY <2>1, <3>5, <3>6 DEF BudgetInd
  <2> QED BY <1>2, <2>2, <2>3
<1> QED BY <1>4, <1>5, <1>6

\* The one attempt that listens asks the provider, for the first time.
LEMMA TranscribeKeeps ==
  ASSUME BudgetInd, NEW c \in Calls, NEW charge \in {"short", "noReceipt", "failed"},
         Transcribe(c, charge)
  PROVE  BudgetInd'
<1> DEFINE n == c[1]
           k == AudioKey(n)
<1>1. n \in VoiceNotes /\ k \in Keys BY VoiceFacts DEF BudgetInd, Transcribe, VoicePcs
<1>2. PICK r : Moves(c, r) /\ r.pc = "heard" /\ r.charge = charge
  <2>1. Hears(c, "heard", charge) BY DEF Transcribe, Hears
  <2> QED BY <1>1, <2>1, HearMoves DEF BudgetInd, Answers
<1>3. call[c].pc = "listen" /\ asked[k] = 0 /\ Held(k)
  <2>1. OneListener(n) BY <1>1 DEF BudgetInd
  <2> QED BY <2>1 DEF OneListener, Unheard, Listening, Transcribe
<1>4. /\ asked' \in [Keys -> Nat] /\ asked'[k] = 1
      /\ \A j \in Keys \ {k} : asked'[j] = asked[j]
  BY <1>1, <1>3 DEF Transcribe, BudgetInd, CallsTyped
<1>5. Ledger' BY LedgerStays DEF BudgetInd, Transcribe
<1>6. PaidOnce' BY <1>3, <1>4 DEF PaidOnce, BudgetInd, Transcribe, Held
<1>7. /\ call' \in [Calls -> CallState] /\ call'[c] = r /\ \A d \in Calls \ {c} : call'[d] = call[d]
      /\ \A d \in Calls : CallOk(d, call[d])
  BY <1>2 DEF BudgetInd, CallsTyped, Moves
<1>8. CallsTyped'
  <2>1. \A d \in Calls : CallOk(d, call'[d]) BY <1>2, <1>7 DEF Moves
  <2> QED BY <1>4, <1>7, <2>1 DEF CallsTyped, CallOk, BudgetInd, Transcribe
<1>9. ASSUME NEW m \in VoiceNotes PROVE OneListener(m)'
  <2>1. OneListener(m) BY DEF BudgetInd
  <2>2. Held(AudioKey(m)) => Held(AudioKey(m))' BY DEF Held, Transcribe
  <2>3. \A d \in Calls : call'[d].pc \in Listening => call[d].pc \in Listening
    BY <1>3, <1>7 DEF Listening
  <2>4. CASE m = n
    <3>1. \A d \in Calls : d[1] = m /\ call'[d].pc \in Listening => d = c
      BY <1>3, <2>1, <2>3, <2>4 DEF OneListener, Listening
    <3>2. ~Unheard(c)' BY <1>2, <1>7 DEF Unheard
    <3> QED BY <2>1, <2>2, <2>3, <3>1, <3>2 DEF OneListener
  <2>5. CASE m # n
    <3>1. \A d \in Calls : d[1] = m => call'[d] = call[d] BY <1>7, <2>5
    <3>2. AudioKey(m) \in Keys \ {k} BY <2>5, KeyFacts
    <3>3. asked'[AudioKey(m)] = asked[AudioKey(m)] BY <1>4, <3>2
    <3> QED BY <2>1, <2>2, <3>1, <3>3 DEF OneListener, Unheard
  <2> QED BY <2>4, <2>5
<1> QED BY <1>5, <1>6, <1>8, <1>9 DEF BudgetInd

\* An operation of the turn is reserved and asked for under a key of its own.
LEMMA ReserveOpKeeps ==
  ASSUME BudgetInd, NEW c \in Calls, NEW kind \in Kinds, ReserveOp(c, kind) PROVE BudgetInd'
<1> DEFINE old == call[c]
           used == [old.used EXCEPT ![kind] = @ + 1]
           ok == Refusal(<<c[1], old.seq + 1, kind>>, Cost[kind], FALSE) = "none"
           pc == IF ok THEN "paid" ELSE old.pc
           key == IF ok THEN <<c[1], old.seq + 1, kind>> ELSE old.key
           r == [old EXCEPT !.seq = @ + 1, !.used = used, !.pc = pc, !.key = key]
<1>1. /\ old \in CallState /\ CallOk(c, old) /\ call \in [Calls -> CallState]
      /\ old.pc = "work" /\ old.used[kind] < PerTurn[kind] /\ old.seq \in Nat
      /\ old.used \in [Kinds -> Nat]
  BY DEF BudgetInd, CallsTyped, ReserveOp, CallState
<1>2. PICK k : k = <<c[1], old.seq + 1, kind>> OBVIOUS
<1>3. /\ old.seq + 1 \in 1..MaxOps /\ old.seq + 1 = SumFunctionOnSet(used, Kinds)
      /\ used \in [Kinds -> Nat] /\ \A j \in Kinds : used[j] <= PerTurn[j]
  BY <1>1, AnotherOp
<1>4. k \in OpKeys /\ k \in Keys /\ Cost[kind] \in Nat /\ \A m : AudioKey(m) # k
  <2>1. k \in OpKeys BY <1>2, <1>3, CallFacts DEF OpKeys
  <2> QED BY <2>1, KeyFacts, LedgerAssumption
<1>5. call' = [call EXCEPT ![c] = r]
  <2>1. call' = [call EXCEPT ![c].seq = @ + 1, ![c].used[kind] = @ + 1, ![c].pc = pc,
                             ![c].key = key]
    BY DEF ReserveOp
  <2> HIDE DEF pc, key, ok
  <2> QED BY <1>1, <2>1 DEF CallState
<1>6. /\ r \in CallState /\ r.seq = old.seq + 1 /\ r.used = used
      /\ r.pc = (IF ok THEN "paid" ELSE "work") /\ (ok => r.key = k)
  <2>1. PICK next \in Nat : next = old.seq + 1 BY <1>1
  <2>2. /\ pc \in Pcs /\ pc = (IF ok THEN "paid" ELSE "work")
        /\ key \in Keys \cup {NoKey} /\ (ok => key = k)
    <3> HIDE DEF ok
    <3> QED BY <1>1, <1>2, <1>4 DEF Pcs, CallState
  <2> HIDE DEF used, pc, key, ok
  <2>3. r = [old EXCEPT !.seq = next, !.used = used, !.pc = pc, !.key = key] BY <2>1
  <2> HIDE DEF r, old
  <2>4. /\ r \in CallState /\ r.seq = next /\ r.used = used /\ r.pc = pc /\ r.key = key
    BY <1>1, <1>3, <2>2, <2>3 DEF CallState
  <2> QED BY <2>1, <2>2, <2>4
<1>7. Moves(c, r)
  <2> HIDE DEF r, used, ok, pc, key
  <2> QED BY <1>3, <1>4, <1>5, <1>6 DEF Moves, CallOk, VoicePcs
<1>8. HoldsOn(c, r)
  <2> HIDE DEF r, used, ok, pc, key
  <2> QED BY <1>6 DEF HoldsOn, Listening
<1>9. ok = (Refusal(k, Cost[kind], FALSE) = "none") BY <1>2
<1>10. /\ IF ok THEN Reserve(k, Cost[kind]) ELSE UNCHANGED <<entry, bucket>>
       /\ asked' = [asked EXCEPT ![k] = @ + (IF ok THEN 1 ELSE 0)]
       /\ UNCHANGED <<profile, month, changes, faults>>
  BY <1>2 DEF ReserveOp
<1>11. asked \in [Keys -> Nat] /\ changes' \in Nat /\ faults' \in Nat
  BY <1>10 DEF BudgetInd, CallsTyped
<1> HIDE DEF r, used, ok, old, pc, key
<1>12. CASE ok
  <2>1. Reserve(k, Cost[kind]) /\ Refusal(k, Cost[kind], FALSE) = "none" BY <1>9, <1>10, <1>12
  <2>2. /\ Ledger' /\ \A j \in Keys \ {k} : entry'[j] = entry[j]
        /\ \/ entry[k].status = "COMPLETED" /\ entry'[k] = entry[k]
           \/ entry[k].status = "NONE" /\ entry'[k].status = "RESERVED"
    BY <1>4, <1>10, <2>1, ReserveKeepsLedger DEF BudgetInd
  <2>3. entry[k].status = "NONE" BY <2>1, <2>2 DEF Refusal
  <2>4. asked[k] = 0 BY <1>4, <1>11, <2>3 DEF BudgetInd, PaidOnce
  <2>5. /\ asked' \in [Keys -> Nat] /\ asked'[k] = 1
        /\ \A j \in Keys \ {k} : asked'[j] = asked[j]
    BY <1>4, <1>10, <1>11, <1>12, <2>4
  <2>6. PaidOnce' BY <2>2, <2>3, <2>5 DEF BudgetInd, PaidOnce
  <2>7. ASSUME NEW m \in VoiceNotes
        PROVE  /\ asked'[AudioKey(m)] = asked[AudioKey(m)]
               /\ Held(AudioKey(m)) => Held(AudioKey(m))'
    BY <1>4, <2>2, <2>5, KeyFacts DEF Held
  <2> QED BY <1>7, <1>8, <1>11, <2>2, <2>5, <2>6, <2>7, AttemptGoesOn
<1>13. CASE ~ok
  <2>1. UNCHANGED <<entry, bucket, profile, month, changes, faults>> BY <1>10, <1>13
  <2>2. asked' = asked BY <1>4, <1>10, <1>11, <1>13
  <2> QED BY <1>7, <1>8, <2>1, <2>2, BesideTheLedger
<1> QED BY <1>12, <1>13

-----------------------------------------------------------------------------
(* The steps that settle *)

\* What has been paid for is charged: only a recording nobody has heard is settled for nothing.
LEMMA SettleKeepsPaid ==
  ASSUME BudgetInd, NEW k \in Keys, NEW charge \in Nat \cup {Unknown}, NEW text \in BOOLEAN,
         Settle(k, charge, text), UNCHANGED <<profile, month, asked>>,
         k[3] = "audio" /\ charge = 0 => asked[k] = 0
  PROVE  Ledger' /\ PaidOnce' /\ \A j \in Keys : Held(j) => Held(j)' \/ (j = k /\ charge # Unknown)
<1>1. /\ Ledger' /\ \A j \in Keys \ {k} : entry'[j] = entry[j]
      /\ \/ entry[k].status # "RESERVED" /\ entry'[k] = entry[k]
         \/ /\ entry[k].status = "RESERVED" /\ charge = Unknown
            /\ entry'[k].status = "UNKNOWN" /\ entry'[k].charged = entry'[k].reserved
         \/ /\ entry[k].status = "RESERVED" /\ charge # Unknown
            /\ entry'[k].status = "COMPLETED" /\ entry'[k].charged = charge
  BY SettleKeepsLedger DEF BudgetInd
<1>2. asked[k] \in Nat /\ asked' = asked BY DEF BudgetInd, CallsTyped
<1>3. charge # Unknown => charge \in Nat /\ (charge # 0 => charge > 0) OBVIOUS
<1>4. ASSUME NEW j \in Keys, asked'[j] > 0
      PROVE  /\ asked'[j] = 1
             /\ \/ entry'[j].status = "RESERVED"
                \/ entry'[j].status = "UNKNOWN" /\ entry'[j].charged = entry'[j].reserved
                \/ entry'[j].status = "COMPLETED" /\ (j[3] = "audio" => entry'[j].charged > 0)
  <2>1. /\ asked[j] = 1
        /\ \/ entry[j].status = "RESERVED"
           \/ entry[j].status = "UNKNOWN" /\ entry[j].charged = entry[j].reserved
           \/ entry[j].status = "COMPLETED" /\ (j[3] = "audio" => entry[j].charged > 0)
    BY <1>2, <1>4 DEF BudgetInd, PaidOnce
  <2>2. CASE j # k BY <1>1, <1>2, <2>1, <2>2
  <2>3. CASE j = k
    <3>1. k[3] = "audio" => charge # 0 BY <2>1, <2>3
    <3> QED BY <1>1, <1>2, <1>3, <2>1, <2>3, <3>1
  <2> QED BY <2>2, <2>3
<1>5. PaidOnce' BY <1>4 DEF PaidOnce
<1>6. \A j \in Keys : Held(j) => Held(j)' \/ (j = k /\ charge # Unknown) BY <1>1 DEF Held
<1> QED BY <1>1, <1>5, <1>6

\* The settlement of a message, at no charge; asked for or not, it has no recording.
LEMMA SettleMessage ==
  ASSUME BudgetInd, NEW m \in Messages, Settle(MessageKey(m), 0, FALSE),
         UNCHANGED <<profile, month, asked>>
  PROVE  Ledger' /\ PaidOnce' /\ \A n \in VoiceNotes : Held(AudioKey(n)) => Held(AudioKey(n))'
<1>1. MessageKey(m) \in Keys /\ MessageKey(m)[3] # "audio" /\ 0 \in Nat \cup {Unknown}
  BY KeyFacts
<1>2. /\ Ledger' /\ PaidOnce'
      /\ \A j \in Keys : Held(j) => Held(j)' \/ (j = MessageKey(m) /\ 0 # Unknown)
  BY <1>1, SettleKeepsPaid
<1> QED BY <1>2, KeyFacts

LEMMA VoiceEndKeeps == ASSUME BudgetInd, NEW c \in Calls, VoiceEnd(c) PROVE BudgetInd'
<1>1. Ledger' /\ PaidOnce' /\ \A n \in VoiceNotes : Held(AudioKey(n)) => Held(AudioKey(n))'
  BY CallFacts, SettleMessage DEF VoiceEnd
<1>2. PICK r : Moves(c, r) /\ r.pc = "look"
  BY GotoMoves DEF VoiceEnd, BudgetInd, Pcs, VoicePcs
<1>3. HoldsOn(c, r) BY <1>2 DEF HoldsOn, Listening
<1>4. asked' \in [Keys -> Nat] /\ asked' = asked /\ changes' \in Nat /\ faults' \in Nat
  BY DEF BudgetInd, CallsTyped, VoiceEnd
<1> QED BY <1>1, <1>2, <1>3, <1>4, AttemptGoesOn

LEMMA EndTurnKeeps == ASSUME BudgetInd, NEW c \in Calls, EndTurn(c) PROVE BudgetInd'
<1>1. Ledger' /\ PaidOnce' /\ \A n \in VoiceNotes : Held(AudioKey(n)) => Held(AudioKey(n))'
  BY CallFacts, SettleMessage DEF EndTurn
<1>2. PICK pc \in {"answered", "failed"} : End(c, pc, "none") BY DEF EndTurn
<1>3. PICK r : Moves(c, r) /\ r.pc = pc BY <1>2, EndMoves
<1>4. HoldsOn(c, r) BY <1>3 DEF HoldsOn, Listening
<1>5. asked' \in [Keys -> Nat] /\ asked' = asked /\ changes' \in Nat /\ faults' \in Nat
  BY DEF BudgetInd, CallsTyped, EndTurn
<1> QED BY <1>1, <1>3, <1>4, <1>5, AttemptGoesOn

\* Whoever holds an interrupted recording, it has been charged in full.
LEMMA SettleInterruptedKeeps ==
  ASSUME BudgetInd, NEW c \in Calls, SettleInterrupted(c) PROVE BudgetInd'
<1>1. AudioKey(c[1]) \in Keys BY VoiceFacts DEF BudgetInd, SettleInterrupted, VoicePcs
<1>2. /\ Ledger' /\ PaidOnce'
      /\ \A j \in Keys : Held(j) => Held(j)' \/ (j = AudioKey(c[1]) /\ Unknown # Unknown)
  <2>1. Unknown # 0 BY DEF Unknown
  <2> QED BY <1>1, <2>1, SettleKeepsPaid DEF SettleInterrupted
<1>3. PICK r : Moves(c, r) /\ r.pc = "look"
  BY GotoMoves DEF SettleInterrupted, BudgetInd, Pcs, VoicePcs
<1>4. HoldsOn(c, r) BY <1>3 DEF HoldsOn, Listening
<1>5. asked' \in [Keys -> Nat] /\ asked' = asked /\ changes' \in Nat /\ faults' \in Nat
  BY DEF BudgetInd, CallsTyped, SettleInterrupted
<1> QED BY <1>2, <1>3, <1>4, <1>5, KeyFacts, AttemptGoesOn

\* The listener lets go of the recording; it is settled for nothing only if nobody was asked.
LEMMA FinishVoiceKeeps == ASSUME BudgetInd, NEW c \in Calls, FinishVoice(c) PROVE BudgetInd'
<1> DEFINE n == c[1]
           k == AudioKey(n)
           text == call[c].charge \in {"short", "noReceipt"}
<1>1. n \in VoiceNotes /\ k \in Keys /\ call[c].pc = "heard"
  BY VoiceFacts DEF BudgetInd, FinishVoice, VoicePcs
<1>2. Billed(c) \in Nat \cup {Unknown} /\ (Billed(c) = 0 => call[c].charge = "nothing")
  BY DEF Billed, Unknown
<1>3. k[3] = "audio" /\ Billed(c) = 0 => asked[k] = 0
  <2>1. OneListener(n) BY <1>1 DEF BudgetInd
  <2> QED BY <1>1, <1>2, <2>1 DEF OneListener, Unheard, Listening
<1>4. Settle(k, Billed(c), text) /\ UNCHANGED <<profile, month, asked>> BY DEF FinishVoice
<1>5. text \in BOOLEAN OBVIOUS
<1> HIDE DEF text
<1>6. /\ Ledger' /\ PaidOnce'
      /\ \A j \in Keys : Held(j) => Held(j)' \/ (j = k /\ Billed(c) # Unknown)
  BY <1>1, <1>2, <1>3, <1>4, <1>5, SettleKeepsPaid
<1>7. PICK r : Moves(c, r) /\ r.pc = "voiceEnd" /\ r.charge = "none"
  <2>1. Hears(c, "voiceEnd", "none") BY DEF FinishVoice, Hears
  <2> QED BY <1>1, <2>1, HearMoves DEF BudgetInd, Answers
<1>8. HoldsOn(c, r) /\ call[c].pc \in Listening /\ r.pc \notin Listening
  BY <1>1, <1>7 DEF HoldsOn, Listening
<1>9. ASSUME NEW m \in VoiceNotes
      PROVE  /\ Held(AudioKey(m)) =>
                  Held(AudioKey(m))' \/ (m = c[1] /\ call[c].pc \in Listening /\ r.pc \notin Listening)
             /\ asked'[AudioKey(m)] = asked[AudioKey(m)]
  BY <1>4, <1>6, <1>8, KeyFacts
<1>10. asked' \in [Keys -> Nat] /\ changes' \in Nat /\ faults' \in Nat
  BY DEF BudgetInd, CallsTyped, FinishVoice
<1> QED BY <1>6, <1>7, <1>8, <1>9, <1>10, AttemptGoesOn

LEMMA FinishOpKeeps ==
  ASSUME BudgetInd, NEW c \in Calls, NEW kind \in Kinds, NEW timeout \in BOOLEAN,
         NEW charge \in Receipts(kind), FinishOp(c, charge, timeout)
  PROVE  BudgetInd'
<1> DEFINE r == [call[c] EXCEPT !.pc = "work", !.key = NoKey, !.timedOut = @ \/ timeout]
           k == call[c].key
<1>1. call[c] \in CallState /\ CallOk(c, call[c]) /\ call \in [Calls -> CallState]
  BY DEF BudgetInd, CallsTyped
<1>2. call' = [call EXCEPT ![c] = r] BY <1>1 DEF FinishOp, BackToWork, CallState
<1>3. r \in CallState /\ r.pc = "work" /\ r.seq = call[c].seq /\ r.used = call[c].used
  <2>1. (call[c].timedOut \/ timeout) \in BOOLEAN BY <1>1 DEF CallState
  <2> QED BY <1>1, <2>1 DEF CallState, Pcs
<1>4. k \in Keys /\ k[3] # "audio" BY <1>1, KeyFacts DEF FinishOp, CallOk
<1>5. charge \in Nat \cup {Unknown}
  <2>1. Cost[kind] \in Nat /\ Overrun \in Nat BY LedgerAssumption
  <2>2. Cost[kind] + Overrun \in Nat BY <2>1
  <2> QED BY <2>2 DEF Receipts
<1> HIDE DEF r
<1>6. Settle(k, charge, FALSE) /\ UNCHANGED <<profile, month, asked, changes, faults>>
  BY DEF FinishOp
<1> HIDE DEF k
<1>7. /\ Ledger' /\ PaidOnce'
      /\ \A j \in Keys : Held(j) => Held(j)' \/ (j = k /\ charge # Unknown)
  BY <1>4, <1>5, <1>6, SettleKeepsPaid
<1>8. \A m \in VoiceNotes : Held(AudioKey(m)) => Held(AudioKey(m))'
  BY <1>4, <1>7, KeyFacts
<1>9. Moves(c, r) BY <1>1, <1>2, <1>3 DEF Moves, CallOk, VoicePcs
<1>10. HoldsOn(c, r) BY <1>3 DEF HoldsOn, Listening
<1>11. asked' \in [Keys -> Nat] /\ changes' \in Nat /\ faults' \in Nat
  BY <1>6 DEF BudgetInd, CallsTyped
<1> QED BY <1>6, <1>7, <1>8, <1>9, <1>10, <1>11, AttemptGoesOn

-----------------------------------------------------------------------------
(* The theorems *)

LEMMA InitInd == Init => BudgetInd
<1> SUFFICES ASSUME Init PROVE BudgetInd
  OBVIOUS
<1>1. /\ entry \in [Keys -> Row] /\ \A k \in Keys : entry[k] = NoEntry
      /\ NoEntry.status = "NONE" /\ 1 \in 1..Months
  BY LedgerAssumption DEF Init, Row, RowStatuses, NoEntry
<1>2. /\ bucket \in [1..Months -> Bucket] /\ profile \in Profile /\ profile.ceiling <= profile.peak
      /\ month \in 1..Months /\ profile.peak \in Nat
      /\ \A p \in 1..Months :
           bucket[p].spent = 0 /\ bucket[p].reserved = 0 /\ bucket[p].messages = 0
  BY LedgerAssumption DEF Init, Bucket, Profile
<1>3. ASSUME NEW p \in 1..Months PROVE MonthTotals(p) /\ MonthSpend(p)
  <2>1. Rows(p) = {} /\ Open(p) = {} /\ {k \in Rows(p) : k[3] = "message"} = {}
    BY <1>1 DEF Rows, Open
  <2>2. IsFiniteSet({}) /\ Cardinality({}) = 0 BY FS_EmptySet
  <2>3. /\ SumFunctionOnSet(Reserved, {}) = 0 /\ SumFunctionOnSet(Charged, {}) = 0
        /\ SumFunctionOnSet(Excess, {}) = 0
    BY <2>2, SumIsAdded
  <2> QED BY <1>2, <2>1, <2>2, <2>3 DEF MonthTotals, MonthSpend
<1>4. Ledger BY <1>1, <1>2, <1>3 DEF Ledger, OpenIsUncharged
<1>5. CallsTyped BY IdleIsOk DEF Init, CallsTyped
<1>6. ASSUME NEW m \in VoiceNotes PROVE OneListener(m)
  BY IdleIsOk DEF Init, OneListener, Listening
<1>7. PaidOnce BY DEF Init, PaidOnce
<1> QED BY <1>4, <1>5, <1>6, <1>7 DEF BudgetInd

LEMMA StepInd == BudgetInd /\ [Next]_vars => BudgetInd'
<1> SUFFICES ASSUME BudgetInd, [Next]_vars PROVE BudgetInd'
  OBVIOUS
<1>1. CASE UNCHANGED vars
  <2>1. UNCHANGED <<entry, bucket, profile, month, call, asked, changes, faults>>
    BY <1>1 DEF vars
  <2>2. Ledger' BY <2>1, LedgerStays DEF BudgetInd
  <2>3. CallsTyped' BY <2>1 DEF BudgetInd, CallsTyped, CallOk
  <2>4. \A m \in VoiceNotes : OneListener(m)' BY <2>1 DEF BudgetInd, OneListener, Held, Unheard
  <2>5. PaidOnce' BY <2>1 DEF BudgetInd, PaidOnce
  <2> QED BY <2>2, <2>3, <2>4, <2>5 DEF BudgetInd
<1>2. ASSUME NEW c \in Calls,
             Start(c) \/ Crash(c) \/ CallStep(c) \/ FinishVoiceFails(c) \/ FinishOpFails(c)
      PROVE  BudgetInd'
  <2>1. CASE CallStep(c)
    BY <2>1, VoiceLookKeeps, SettleInterruptedKeeps, VoiceReserveKeeps, LoadKeeps,
       CheckAllowanceKeeps, TranscribeKeeps, FinishVoiceKeeps, VoiceEndKeeps, LookUpProfileKeeps,
       BeginTurnKeeps, ReserveOpKeeps, FinishOpKeeps, EngineEndsKeeps, EndTurnKeeps DEF CallStep
  <2> QED BY <1>2, <2>1, StartKeeps, CrashKeeps, FinishVoiceFailsKeeps, FinishOpFailsKeeps
<1>3. ASSUME NEW status \in {"ACTIVE", "SUSPENDED"}, NEW ceiling \in Ceilings,
             ChangeAccount(status, ceiling)
      PROVE  BudgetInd'
  BY <1>3, ChangeAccountKeeps
<1>4. CASE NextMonth BY <1>4, NextMonthKeeps
<1> QED BY <1>1, <1>2, <1>3, <1>4 DEF Next

\* The inductive invariant holds in every state of every instance.
THEOREM BudgetInductive == Spec => []BudgetInd
BY InitInd, StepInd, PTL DEF Spec

\* Every row, bucket and profile and every attempt has its type: no count of a bucket, a
\* sequence number or a reservation leaves its range (reserve, finish, runTurn).
THEOREM BudgetTypes == Spec => [](Ledger /\ CallsTyped)
<1>1. BudgetInd => Ledger /\ CallsTyped BY DEF BudgetInd
<1> QED BY <1>1, BudgetInductive, PTL

\* The monthly totals of the account are the sums of its ledger, however many attempts,
\* months, crashes and late settlements there are (reserve, finish).
THEOREM TotalsAreTrue == Spec => []TotalsMatchLedger
<1>1. BudgetInd => TotalsMatchLedger BY DEF BudgetInd, Ledger, MonthTotals, TotalsMatchLedger
<1> QED BY <1>1, BudgetInductive, PTL

\* What is spent and promised in a month never exceeds the highest ceiling the account has
\* had by more than what receipts exceed their reservations (reserve, finish).
THEOREM NeverOverspent == Spec => []NoOverspend
<1>1. BudgetInd => NoOverspend BY DEF BudgetInd, Ledger, MonthSpend, NoOverspend
<1> QED BY <1>1, BudgetInductive, PTL

\* A provider is asked once under a key, and what it did stays reserved or charged, whoever
\* died, retried or settled (transcribeVoice, runTurn, finish).
THEOREM PaidForOnce == Spec => []PaidOnce
<1>1. BudgetInd => PaidOnce BY DEF BudgetInd
<1> QED BY <1>1, BudgetInductive, PTL
=============================================================================
