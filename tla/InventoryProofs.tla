--------------------------- MODULE InventoryProofs ---------------------------
(***************************************************************************)
(* What a load accepts, for every family of files: policies without cycles, *)
(* hosts that can be served, and authorities that are not met for free, can *)
(* be met in the window, and stay met.                                      *)
(***************************************************************************)
EXTENDS Inventory, FiniteSetTheorems, SequenceTheorems, WellFoundedInduction, TLAPS

(***************************************************************************)
(* Numbers: induction and maxima, from the well-foundedness of <.           *)
(***************************************************************************)

\* A set of naturals that is not empty has a least member.
LEMMA LeastNat ==
    ASSUME NEW T \in SUBSET Nat, T # {}
    PROVE  \E x \in T : \A y \in T : x <= y
  <1>1. PICK x \in T : \A y \in T : ~(<<y, x>> \in OpToRel(<, Nat))
    BY NatLessThanWellFounded, WFMin
  <1>2. \A y \in T : ~(y < x)
    BY <1>1 DEF OpToRel
  <1> QED
    BY <1>2

\* Induction up to n over a set.
LEMMA UpTo ==
    ASSUME NEW n \in Nat, NEW S, 0 \in S, \A k \in 1 .. n : k - 1 \in S => k \in S
    PROVE  \A k \in 0 .. n : k \in S
  <1> SUFFICES ASSUME NEW k \in 0 .. n, k \notin S PROVE FALSE
    OBVIOUS
  <1>0. (0 .. n) \ S \in SUBSET Nat /\ (0 .. n) \ S # {}
    OBVIOUS
  <1>1. PICK x \in (0 .. n) \ S : \A y \in (0 .. n) \ S : x <= y
    BY <1>0, LeastNat
  <1>2. x \in 1 .. n
    BY <1>1
  <1>3. x - 1 \in 0 .. n /\ ~(x <= x - 1)
    BY <1>2
  <1> QED
    BY <1>1, <1>2, <1>3

\* A bounded set of naturals that is not empty has a largest member.
LEMMA MaxIsLargest ==
    ASSUME NEW T \in SUBSET Nat, T # {}, NEW cap \in Nat, \A x \in T : x <= cap
    PROVE  Max(T) \in T /\ \A x \in T : x <= Max(T)
  <1> DEFINE Bounds == {b \in Nat : \A x \in T : x <= b}
  <1>1. PICK b \in Bounds : \A c \in Bounds : b <= c
    BY LeastNat
  <1>2. b \in T
    <2> SUFFICES ASSUME b \notin T PROVE FALSE
      OBVIOUS
    <2>1. PICK x \in T : TRUE
      OBVIOUS
    <2>2. \A y \in T : y < b
      BY <1>1
    <2>3. b - 1 \in Nat /\ \A y \in T : y <= b - 1
      BY <2>1, <2>2, <1>1
    <2> QED
      BY <2>3, <1>1
  <1>3. \A x \in T : b >= x
    BY <1>1
  <1>4. Max(T) \in T /\ \A x \in T : Max(T) >= x
    BY <1>2, <1>3 DEF Max
  <1> QED
    BY <1>4

(***************************************************************************)
(* Sums of weights.                                                         *)
(***************************************************************************)

\* The partial sums of a list.
Sums(w, f) ==
    /\ f \in [0 .. Len(w) -> Nat]
    /\ f[0] = 0
    /\ \A n \in 1 .. Len(w) : f[n] = f[n - 1] + w[n]

\* Total is the last of the partial sums, which exist.
LEMMA TotalIsSum ==
    ASSUME NEW w \in Seq(Nat)
    PROVE  \E f : Sums(w, f) /\ Total(w) = f[Len(w)]
  <1> DEFINE Upto(m, f) == f = [n \in 0 .. m |-> IF n = 0 THEN 0 ELSE f[n - 1] + w[n]]
             Summable(m) == \E f \in [0 .. m -> Nat] : Upto(m, f)
             S == {m \in 0 .. Len(w) : Summable(m)}
             sum[n \in 0 .. Len(w)] == IF n = 0 THEN 0 ELSE sum[n - 1] + w[n]
  <1>0. Len(w) \in Nat /\ \A n \in 1 .. Len(w) : w[n] \in Nat
    OBVIOUS
  <1>1. 0 \in S
    <2> DEFINE z == [n \in 0 .. 0 |-> 0]
    <2>1. z \in [0 .. 0 -> Nat] /\ Upto(0, z)
      OBVIOUS
    <2>2. Summable(0)
      <3> HIDE DEF z, Upto
      <3> QED
        BY <2>1
    <2> QED
      BY <1>0, <2>2
  <1>2. ASSUME NEW m \in 1 .. Len(w), m - 1 \in S PROVE m \in S
    <2>1. PICK f \in [0 .. m - 1 -> Nat] : Upto(m - 1, f)
      BY <1>2
    <2> DEFINE g == [n \in 0 .. m |-> IF n = m THEN f[m - 1] + w[m] ELSE f[n]]
    <2>2. g \in [0 .. m -> Nat]
      OBVIOUS
    <2>3. \A n \in 0 .. m - 1 : f[n] = IF n = 0 THEN 0 ELSE f[n - 1] + w[n]
      BY <2>1
    <2>4. \A n \in 0 .. m : g[n] = IF n = 0 THEN 0 ELSE g[n - 1] + w[n]
      BY <2>3
    <2>5. Upto(m, g)
      BY <2>4
    <2>6. Summable(m)
      <3> HIDE DEF g, Upto
      <3> QED
        BY <2>2, <2>5
    <2>7. m \in 0 .. Len(w)
      BY <1>0
    <2> HIDE DEF Summable
    <2> QED
      BY <2>6, <2>7
  <1>3. Len(w) \in S
    <2> HIDE DEF S
    <2>1. \A m \in 0 .. Len(w) : m \in S
      BY <1>0, <1>1, <1>2, UpTo
    <2> QED
      BY <2>1, <1>0
  <1>4. PICK f \in [0 .. Len(w) -> Nat] : Upto(Len(w), f)
    BY <1>3
  <1>5. sum = CHOOSE f_1 : f_1 = [n \in 0 .. Len(w) |-> IF n = 0 THEN 0 ELSE f_1[n - 1] + w[n]]
    BY DEF sum
  <1>6. Total(w) = sum[Len(w)]
    BY DEF Total, sum
  <1> HIDE DEF sum
  <1>7. Upto(Len(w), sum)
    BY <1>4, <1>5
  <1>8. sum[0] = 0 /\ \A n \in 1 .. Len(w) : sum[n] = sum[n - 1] + w[n]
    BY <1>7
  <1>9. sum \in [0 .. Len(w) -> Nat]
    <2> DEFINE R == {n \in 0 .. Len(w) : sum[n] \in Nat}
    <2>1. 0 \in R
      BY <1>8
    <2>2. ASSUME NEW k \in 1 .. Len(w), k - 1 \in R PROVE k \in R
      <3>1. sum[k] = sum[k - 1] + w[k] /\ sum[k - 1] \in Nat /\ w[k] \in Nat
        BY <1>0, <1>8, <2>2
      <3> QED
        BY <3>1
    <2>3. \A k \in 0 .. Len(w) : k \in R
      <3> HIDE DEF R
      <3> QED
        BY <1>0, <2>1, <2>2, UpTo
    <2>4. sum = [n \in 0 .. Len(w) |-> IF n = 0 THEN 0 ELSE sum[n - 1] + w[n]]
      BY <1>7
    <2>5. DOMAIN sum = 0 .. Len(w) /\ sum = [n \in 0 .. Len(w) |-> sum[n]]
      BY <2>4
    <2> QED
      BY <2>3, <2>5
  <1> QED
    BY <1>6, <1>8, <1>9 DEF Sums

\* A total grows with its summands.
LEMMA TotalGrows ==
    ASSUME NEW v \in Seq(Nat), NEW w \in Seq(Nat), Len(v) = Len(w),
           \A i \in 1 .. Len(v) : v[i] <= w[i]
    PROVE  Total(v) \in Nat /\ Total(w) \in Nat /\ Total(v) <= Total(w)
  <1>1. PICK f : Sums(v, f) /\ Total(v) = f[Len(v)]
    BY TotalIsSum
  <1>2. PICK g : Sums(w, g) /\ Total(w) = g[Len(w)]
    BY TotalIsSum
  <1> DEFINE S == {n \in 0 .. Len(v) : f[n] <= g[n]}
  <1>0. Len(v) \in Nat
    OBVIOUS
  <1>3. 0 \in S
    BY <1>0, <1>1, <1>2 DEF Sums
  <1>4. ASSUME NEW n \in 1 .. Len(v), n - 1 \in S PROVE n \in S
    <2>1. f[n] = f[n - 1] + v[n] /\ g[n] = g[n - 1] + w[n]
      BY <1>1, <1>2 DEF Sums
    <2>0. n - 1 \in 0 .. Len(v)
      BY <1>0
    <2>2. f[n - 1] \in Nat /\ g[n - 1] \in Nat
      BY <2>0, <1>1, <1>2 DEF Sums
    <2>3. v[n] \in Nat /\ w[n] \in Nat /\ v[n] <= w[n]
      OBVIOUS
    <2> QED
      BY <2>1, <2>2, <2>3, <1>4
  <1>5. \A n \in 0 .. Len(v) : n \in S
    <2> HIDE DEF S
    <2> QED
      BY <1>0, <1>3, <1>4, UpTo
  <1> QED
    BY <1>0, <1>1, <1>2, <1>5 DEF Sums

\* Nothing adds up to nothing.
LEMMA TotalOfNothing ==
    ASSUME NEW w \in Seq(Nat), \A i \in 1 .. Len(w) : w[i] = 0
    PROVE  Total(w) = 0
  <1>1. PICK f : Sums(w, f) /\ Total(w) = f[Len(w)]
    BY TotalIsSum
  <1> DEFINE S == {n \in 0 .. Len(w) : f[n] = 0}
  <1>0. Len(w) \in Nat
    OBVIOUS
  <1>2. 0 \in S
    BY <1>0, <1>1 DEF Sums
  <1>3. ASSUME NEW n \in 1 .. Len(w), n - 1 \in S PROVE n \in S
    BY <1>1, <1>3 DEF Sums
  <1>4. \A n \in 0 .. Len(w) : n \in S
    <2> HIDE DEF S
    <2> QED
      BY <1>0, <1>2, <1>3, UpTo
  <1> QED
    BY <1>0, <1>1, <1>4

(***************************************************************************)
(* Groups that refer to groups.                                             *)
(***************************************************************************)

\* The groups a group names.
Children(m, g) == Refers(m.groups[g], "group")

\* Every reference of a group to a group resolves.
Resolved(m) == \A g \in DOMAIN m.groups : Children(m, g) \subseteq DOMAIN m.groups

\* Groups each of which names one of them: a cycle and what leads into it.
Knot(m, X) == \A g \in X : Children(m, g) \cap X # {}

\* The group is in no knot.
Unknotted(m, g) == \A X \in SUBSET DOMAIN m.groups : Knot(m, X) => g \notin X

Acyclic(m) == \A g \in DOMAIN m.groups : Unknotted(m, g)

\* What is reached has what is named, and what its members name.
LEMMA ReachedIsClosed ==
    ASSUME NEW m, NEW a
    PROVE  /\ Reached(m, a) \subseteq DOMAIN m.groups
           /\ Refers(a, "group") \subseteq DOMAIN m.groups => Refers(a, "group") \subseteq Reached(m, a)
           /\ Resolved(m) => \A g \in Reached(m, a) : Children(m, g) \subseteq Reached(m, a)
  BY DEF Reached, Resolved, Children

\* Nothing else is reached.
LEMMA ReachedIsLeast ==
    ASSUME NEW m, NEW a, NEW Y \in SUBSET DOMAIN m.groups,
           Refers(a, "group") \subseteq Y, \A g \in Y : Children(m, g) \subseteq Y
    PROVE  Reached(m, a) \subseteq Y
  BY DEF Reached, Children

\* What is reached is named, or reached from a group that is.
LEMMA ReachedThroughChild ==
    ASSUME NEW m, Resolved(m), NEW a, Refers(a, "group") \subseteq DOMAIN m.groups,
           NEW g \in Reached(m, a)
    PROVE  \E c \in Refers(a, "group") : g = c \/ g \in Reached(m, m.groups[c])
  <1> DEFINE Y == {x \in DOMAIN m.groups :
                      \E c \in Refers(a, "group") : x = c \/ x \in Reached(m, m.groups[c])}
  <1>1. Refers(a, "group") \subseteq Y
    OBVIOUS
  <1>2. ASSUME NEW x \in Y PROVE Children(m, x) \subseteq Y
    <2>1. PICK c \in Refers(a, "group") : x = c \/ x \in Reached(m, m.groups[c])
      OBVIOUS
    <2>2. Children(m, c) \subseteq DOMAIN m.groups /\ Children(m, x) \subseteq DOMAIN m.groups
      BY DEF Resolved
    <2>3. Children(m, c) \subseteq Reached(m, m.groups[c])
      BY <2>2, ReachedIsClosed DEF Children
    <2>4. Children(m, x) \subseteq Reached(m, m.groups[c])
      BY <2>1, <2>3, ReachedIsClosed
    <2> QED
      BY <2>2, <2>4
  <1>3. Reached(m, a) \subseteq Y
    <2> HIDE DEF Y
    <2>1. Y \in SUBSET DOMAIN m.groups
      BY DEF Y
    <2> QED
      BY <1>1, <1>2, <2>1, ReachedIsLeast
  <1> QED
    BY <1>3

\* Where there is no knot no group reaches itself.
LEMMA UnknottedIsAcyclic ==
    ASSUME NEW m, Resolved(m), Acyclic(m), NEW g \in DOMAIN m.groups
    PROVE  g \notin Reached(m, m.groups[g])
  <1> SUFFICES ASSUME g \in Reached(m, m.groups[g]) PROVE FALSE
    OBVIOUS
  <1> DEFINE X == {x \in DOMAIN m.groups : g \in Reached(m, m.groups[x])}
  <1>1. ASSUME NEW x \in X PROVE Children(m, x) \cap X # {}
    <2>1. Children(m, x) \subseteq DOMAIN m.groups
      BY DEF Resolved
    <2>2. PICK c \in Children(m, x) : g = c \/ g \in Reached(m, m.groups[c])
      BY <2>1, ReachedThroughChild DEF Children
    <2> QED
      BY <2>1, <2>2
  <1>2. Knot(m, X)
    BY <1>1 DEF Knot
  <1> QED
    BY <1>2 DEF Acyclic, Unknotted

(***************************************************************************)
(* The depth-first search.                                                  *)
(***************************************************************************)

\* E has what a list of factors may push.
Pushable(factors, E) ==
    \A i \in 1 .. Len(factors) : factors[i].kind = "group" => <<factors[i].of, TRUE>> \in E

\* P is what it pushes.
IsPushed(P, factors, colour, E) ==
    /\ P \in Seq(E)
    /\ \A i \in 1 .. Len(factors) :
           factors[i].kind = "group" /\ colour[factors[i].of] = "white" =>
              \E j \in DOMAIN P : P[j] = <<factors[i].of, TRUE>>
    /\ \A j \in DOMAIN P :
           \E i \in 1 .. Len(factors) :
               factors[i].kind = "group" /\ P[j] = <<factors[i].of, TRUE>>

\* The children that are pushed are those that are white.
LEMMA PushedAreWhite ==
    ASSUME NEW factors, Len(factors) \in Nat, NEW colour, NEW E, Pushable(factors, E)
    PROVE  IsPushed(Pushed(factors, colour), factors, colour, E)
  <1> DEFINE White(n) == factors[n].kind = "group" /\ colour[factors[n].of] = "white"
             Entry(n) == <<factors[n].of, TRUE>>
             Step(f, n) == IF n = 0 THEN <<>>
                           ELSE IF White(n) THEN Append(f[n - 1], Entry(n)) ELSE f[n - 1]
             Upto(m, f) == f = [n \in 0 .. m |-> Step(f, n)]
             Built(m) == \E f \in [0 .. m -> Seq(E)] : Upto(m, f)
             S == {m \in 0 .. Len(factors) : Built(m)}
             pushed[n \in 0 .. Len(factors)] ==
                 IF n = 0 THEN <<>>
                 ELSE IF factors[n].kind = "group" /\ colour[factors[n].of] = "white"
                      THEN Append(pushed[n - 1], <<factors[n].of, TRUE>>)
                      ELSE pushed[n - 1]
  <1>0. \A n \in 1 .. Len(factors) : White(n) => Entry(n) \in E
    BY DEF Pushable
  <1>1. 0 \in S
    <2> DEFINE z == [n \in 0 .. 0 |-> <<>>]
    <2>1. z \in [0 .. 0 -> Seq(E)] /\ Upto(0, z)
      OBVIOUS
    <2>2. Built(0)
      <3> HIDE DEF z, Upto
      <3> QED
        BY <2>1
    <2> HIDE DEF Built
    <2> QED
      BY <2>2
  <1>2. ASSUME NEW m \in 1 .. Len(factors), m - 1 \in S PROVE m \in S
    <2> HIDE DEF White, Entry
    <2>1. PICK f \in [0 .. m - 1 -> Seq(E)] : Upto(m - 1, f)
      BY <1>2
    <2> DEFINE last == IF White(m) THEN Append(f[m - 1], Entry(m)) ELSE f[m - 1]
               g == [n \in 0 .. m |-> IF n = m THEN last ELSE f[n]]
    <2>2. last \in Seq(E)
      <3>0. m - 1 \in 0 .. m - 1
        OBVIOUS
      <3>1. f[m - 1] \in Seq(E)
        BY <3>0
      <3> QED
        BY <3>1, <1>0
    <2>3. g \in [0 .. m -> Seq(E)]
      <3> HIDE DEF last
      <3> QED
        BY <2>2
    <2>4. \A n \in 0 .. m - 1 : f[n] = Step(f, n)
      BY <2>1
    <2>5. ASSUME NEW n \in 0 .. m PROVE g[n] = Step(g, n)
      <3>1. CASE n = m
        <4>1. g[m] = last /\ g[m - 1] = f[m - 1] /\ m # 0
          OBVIOUS
        <4> QED
          BY <3>1, <4>1
      <3>2. CASE n # m
        <4>1. n \in 0 .. m - 1 /\ (n # 0 => n - 1 \in 0 .. m - 1)
          BY <3>2
        <4>2. g[n] = f[n] /\ (n # 0 => g[n - 1] = f[n - 1])
          BY <4>1
        <4> HIDE DEF g
        <4> QED
          BY <2>4, <4>1, <4>2
      <3> QED
        BY <3>1, <3>2
    <2>6. Upto(m, g)
      <3> HIDE DEF Step
      <3>1. g = [n \in 0 .. m |-> g[n]]
        OBVIOUS
      <3> QED
        BY <2>5, <3>1
    <2>7. Built(m)
      <3> HIDE DEF g, Upto
      <3> QED
        BY <2>3, <2>6
    <2>8. m \in 0 .. Len(factors)
      OBVIOUS
    <2> HIDE DEF Built
    <2> QED
      BY <2>7, <2>8
  <1>3. Built(Len(factors))
    <2> HIDE DEF Built
    <2>1. \A m \in 0 .. Len(factors) : m \in S
      <3> HIDE DEF S
      <3> QED
        BY <1>1, <1>2, UpTo
    <2> QED
      BY <2>1
  <1>4. pushed = CHOOSE f : Upto(Len(factors), f)
    BY DEF pushed
  <1>5. Pushed(factors, colour) = pushed[Len(factors)]
    BY DEF Pushed, pushed
  <1> HIDE DEF pushed
  <1>6. Upto(Len(factors), pushed)
    <2> HIDE DEF Upto
    <2> QED
      BY <1>3, <1>4
  <1>7. pushed[0] = <<>> /\ \A n \in 1 .. Len(factors) :
            pushed[n] = IF White(n) THEN Append(pushed[n - 1], Entry(n)) ELSE pushed[n - 1]
    <2>1. \A n \in 0 .. Len(factors) : pushed[n] = Step(pushed, n)
      <3> HIDE DEF Step
      <3> QED
        BY <1>6
    <2> HIDE DEF White, Entry
    <2>2. pushed[0] = Step(pushed, 0)
      BY <2>1
    <2>3. ASSUME NEW n \in 1 .. Len(factors)
          PROVE  pushed[n] = IF White(n) THEN Append(pushed[n - 1], Entry(n)) ELSE pushed[n - 1]
      <3>1. pushed[n] = Step(pushed, n) /\ n # 0
        BY <2>1
      <3> QED
        BY <3>1
    <2> QED
      BY <2>2, <2>3
  <1> HIDE DEF Upto, Built, Step, S
  <1> DEFINE Right(n) ==
                 /\ pushed[n] \in Seq(E)
                 /\ \A i \in 1 .. n : White(i) => \E j \in DOMAIN pushed[n] : pushed[n][j] = Entry(i)
                 /\ \A j \in DOMAIN pushed[n] :
                        \E i \in 1 .. n : White(i) /\ pushed[n][j] = Entry(i)
             R == {n \in 0 .. Len(factors) : Right(n)}
  <1>8. 0 \in R
    <2>1. DOMAIN pushed[0] = {} /\ pushed[0] \in Seq(E)
      BY <1>7
    <2>2. Right(0)
      BY <2>1
    <2> HIDE DEF Right
    <2> QED
      BY <2>2
  <1>9. ASSUME NEW n \in 1 .. Len(factors), n - 1 \in R PROVE n \in R
    <2> HIDE DEF White, Entry
    <2>1. Right(n - 1) /\ n \in 0 .. Len(factors)
      BY <1>9
    <2> DEFINE old == pushed[n - 1]
    <2>2. CASE ~White(n)
      <3>1. pushed[n] = old
        BY <1>7, <2>2
      <3>2. Right(n)
        BY <2>1, <2>2, <3>1
      <3> HIDE DEF Right
      <3> QED
        BY <3>2, <2>1
    <2>3. CASE White(n)
      <3>1. pushed[n] = Append(old, Entry(n))
        BY <1>7, <2>3
      <3>2. old \in Seq(E) /\ Entry(n) \in E
        BY <2>1, <2>3, <1>0
      <3>3. /\ pushed[n] \in Seq(E)
            /\ DOMAIN old = 1 .. Len(old) /\ Len(old) \in Nat
            /\ DOMAIN pushed[n] = 1 .. Len(old) + 1
            /\ \A j \in 1 .. Len(old) : pushed[n][j] = old[j]
            /\ pushed[n][Len(old) + 1] = Entry(n)
        <4> HIDE DEF old
        <4> QED
          BY <3>1, <3>2
      <3>4. ASSUME NEW i \in 1 .. n, White(i) PROVE \E j \in DOMAIN pushed[n] : pushed[n][j] = Entry(i)
        <4>1. CASE i = n
          BY <3>3, <4>1
        <4>2. CASE i # n
          <5>1. PICK j \in DOMAIN old : old[j] = Entry(i)
            BY <2>1, <3>4, <4>2
          <5> QED
            BY <5>1, <3>3
        <4> QED
          BY <4>1, <4>2
      <3>5. ASSUME NEW j \in DOMAIN pushed[n] PROVE \E i \in 1 .. n : White(i) /\ pushed[n][j] = Entry(i)
        <4>1. CASE j = Len(old) + 1
          BY <3>3, <4>1, <2>3
        <4>2. CASE j # Len(old) + 1
          <5>1. j \in DOMAIN old
            BY <3>3, <4>2
          <5>2. PICK i \in 1 .. n - 1 : White(i) /\ old[j] = Entry(i)
            BY <2>1, <5>1
          <5> QED
            BY <5>1, <5>2, <3>3
        <4> QED
          BY <4>1, <4>2
      <3>6. Right(n)
        BY <3>3, <3>4, <3>5
      <3> HIDE DEF Right
      <3> QED
        BY <3>6, <2>1
    <2> QED
      BY <2>2, <2>3
  <1>10. Right(Len(factors))
    <2> HIDE DEF Right
    <2>1. \A n \in 0 .. Len(factors) : n \in R
      <3> HIDE DEF R
      <3> QED
        BY <1>8, <1>9, UpTo
    <2> QED
      BY <2>1
  <1> DEFINE all == pushed[Len(factors)]
  <1>11. all \in Seq(E)
    BY <1>10
  <1>12. ASSUME NEW i \in 1 .. Len(factors), White(i)
         PROVE  \E j \in DOMAIN all : all[j] = Entry(i)
    <2> HIDE DEF White, Entry
    <2> QED
      BY <1>10, <1>12
  <1>13. ASSUME NEW j \in DOMAIN all
         PROVE  \E i \in 1 .. Len(factors) : White(i) /\ all[j] = Entry(i)
    <2> HIDE DEF White, Entry
    <2> QED
      BY <1>10
  <1> HIDE DEF all
  <1>14. Pushed(factors, colour) = all
    BY <1>5 DEF all
  <1> QED
    BY <1>11, <1>12, <1>13, <1>14 DEF IsPushed

Coloured(s, m) ==
    /\ s.colour \in [DOMAIN m.groups -> {"white", "grey", "black"}]
    /\ s.stack \in Seq((DOMAIN m.groups) \X BOOLEAN)

\* What lies above a group that is being left is reached from it.
PathOK(s, m) ==
    \A i, j \in DOMAIN s.stack :
        i < j /\ ~s.stack[i][2] => s.stack[j][1] \in Reached(m, m.groups[s.stack[i][1]])

\* Each child of such a group is finished or still lies above it.
ExploredOK(s, m) ==
    \A i \in DOMAIN s.stack : ~s.stack[i][2] =>
        \A c \in Children(m, s.stack[i][1]) :
            \/ s.colour[c] = "black"
            \/ \E j \in DOMAIN s.stack : i < j /\ s.stack[j][1] = c

\* A grey group is about to be left.
GreyOK(s, m) ==
    \A g \in DOMAIN m.groups :
        s.colour[g] = "grey" => \E i \in DOMAIN s.stack : s.stack[i] = <<g, FALSE>>

\* A finished group is in no knot.
BlackOK(s, m) == \A g \in DOMAIN m.groups : s.colour[g] = "black" => Unknotted(m, g)

SearchInv(s, m) ==
    Coloured(s, m) /\ PathOK(s, m) /\ ExploredOK(s, m) /\ GreyOK(s, m) /\ BlackOK(s, m)

\* A fresh search, every group white and nothing on the stack, satisfies the invariant.
LEMMA NewSearchOK ==
    ASSUME NEW m
    PROVE  SearchInv(NewSearch(m), m)
  BY DEF NewSearch, SearchInv, Coloured, PathOK, ExploredOK, GreyOK, BlackOK

\* Taking the next white root onto an empty stack keeps the search's invariant.
LEMMA StartOK ==
    ASSUME NEW m, NEW s, SearchInv(s, m), s.stack = <<>>, NEW g \in Roots(s)
    PROVE  SearchInv(StartAt(s, g), m)
  <1> DEFINE new == StartAt(s, g)
  <1>1. new.colour = s.colour /\ new.stack = <<<<g, TRUE>>>>
    BY DEF StartAt
  <1>2. g \in DOMAIN m.groups
    BY DEF Roots, SearchInv, Coloured
  <1> HIDE DEF new
  <1>3. DOMAIN new.stack = {1} /\ new.stack[1][2] = TRUE
    BY <1>1
  <1>4. Coloured(new, m)
    <2>1. <<g, TRUE>> \in (DOMAIN m.groups) \X BOOLEAN
      BY <1>2
    <2>2. new.stack \in Seq((DOMAIN m.groups) \X BOOLEAN)
      BY <1>1, <2>1
    <2> QED
      BY <1>1, <2>2 DEF SearchInv, Coloured
  <1>5. PathOK(new, m) /\ ExploredOK(new, m)
    BY <1>3 DEF PathOK, ExploredOK
  <1>6. GreyOK(new, m) /\ BlackOK(new, m)
    <2>1. \A c \in DOMAIN m.groups : s.colour[c] # "grey"
      BY DEF SearchInv, GreyOK
    <2> QED
      BY <1>1, <2>1 DEF SearchInv, GreyOK, BlackOK
  <1> QED
    BY <1>4, <1>5, <1>6 DEF SearchInv, new

\* The top of a stack.
LEMMA TopOfStack ==
    ASSUME NEW m, NEW s, Coloured(s, m), s.stack # <<>>
    PROVE  /\ Len(s.stack) \in Nat \ {0}
           /\ DOMAIN s.stack = 1 .. Len(s.stack)
           /\ Last(s.stack) = s.stack[Len(s.stack)]
           /\ Last(s.stack)[1] \in DOMAIN m.groups
           /\ Front(s.stack) \in Seq((DOMAIN m.groups) \X BOOLEAN)
           /\ Len(Front(s.stack)) = Len(s.stack) - 1
           /\ \A i \in 1 .. Len(s.stack) - 1 : Front(s.stack)[i] = s.stack[i]
           /\ \A i \in DOMAIN s.stack : /\ s.stack[i][1] \in DOMAIN m.groups
                                        /\ s.stack[i][2] \in BOOLEAN
                                        /\ s.stack[i] = <<s.stack[i][1], s.stack[i][2]>>
  <1> DEFINE E == (DOMAIN m.groups) \X BOOLEAN
  <1>1. s.stack \in Seq(E)
    BY DEF Coloured
  <1>2. \A e \in E : e[1] \in DOMAIN m.groups /\ e[2] \in BOOLEAN /\ e = <<e[1], e[2]>>
    OBVIOUS
  <1> HIDE DEF E
  <1>3. Len(s.stack) \in Nat \ {0} /\ DOMAIN s.stack = 1 .. Len(s.stack)
    BY <1>1
  <1>4. Front(s.stack) = SubSeq(s.stack, 1, Len(s.stack) - 1) /\ Last(s.stack) = s.stack[Len(s.stack)]
    BY DEF Front, Last
  <1>5. /\ Front(s.stack) \in Seq(E)
        /\ Len(Front(s.stack)) = Len(s.stack) - 1
        /\ \A i \in 1 .. Len(s.stack) - 1 : Front(s.stack)[i] = s.stack[i]
    BY <1>1, <1>3, <1>4
  <1>6. \A i \in DOMAIN s.stack : s.stack[i] \in E
    BY <1>1
  <1> QED
    BY <1>2, <1>3, <1>4, <1>5, <1>6 DEF E

\* Leaving a group colours it black and pops it: all it refers to is black by then.
LEMMA LeaveOK ==
    ASSUME NEW m, Resolved(m), NEW s, SearchInv(s, m), s.stack # <<>>, ~Last(s.stack)[2]
    PROVE  SearchInv(Leave(s), m)
  <1> DEFINE new == Leave(s)
             n == Len(s.stack)
             g == Last(s.stack)[1]
  <1>0. Coloured(s, m) /\ PathOK(s, m) /\ ExploredOK(s, m) /\ GreyOK(s, m) /\ BlackOK(s, m)
    BY DEF SearchInv
  <1>1. new.colour = [s.colour EXCEPT ![g] = "black"] /\ new.stack = Front(s.stack)
    BY DEF Leave
  <1>2. n \in Nat \ {0} /\ DOMAIN s.stack = 1 .. n /\ g \in DOMAIN m.groups
    BY <1>0, TopOfStack
  <1>t. s.stack[n] = <<g, FALSE>> /\ s.stack[n][1] = g /\ ~s.stack[n][2]
    <2>1. n \in DOMAIN s.stack
      BY <1>2
    <2>2. s.stack[n] = <<g, s.stack[n][2]>> /\ s.stack[n][2] \in BOOLEAN /\ ~s.stack[n][2]
      BY <1>0, <2>1, TopOfStack
    <2>3. s.stack[n][2] = FALSE
      BY <2>2
    <2> HIDE DEF n, g
    <2>4. s.stack[n] = <<g, FALSE>>
      BY <2>2, <2>3
    <2> QED
      BY <2>4
  <1>f. /\ Front(s.stack) \in Seq((DOMAIN m.groups) \X BOOLEAN)
        /\ Len(Front(s.stack)) = n - 1
        /\ \A i \in 1 .. n - 1 : Front(s.stack)[i] = s.stack[i]
    BY <1>0, TopOfStack
  <1> HIDE DEF new, n, g
  <1>3. DOMAIN new.stack = 1 .. n - 1 /\ \A i \in 1 .. n - 1 : new.stack[i] = s.stack[i]
    BY <1>1, <1>2, <1>f
  <1>4. /\ new.colour \in [DOMAIN m.groups -> {"white", "grey", "black"}]
        /\ new.colour[g] = "black"
        /\ \A c \in DOMAIN m.groups : c # g => new.colour[c] = s.colour[c]
    BY <1>0, <1>1, <1>2 DEF Coloured
  <1>5. Coloured(new, m)
    BY <1>1, <1>f, <1>4 DEF Coloured
  <1>6. PathOK(new, m)
    BY <1>0, <1>2, <1>3 DEF PathOK
  <1>7. ExploredOK(new, m)
    <2> SUFFICES ASSUME NEW i \in 1 .. n - 1, ~s.stack[i][2], NEW c \in Children(m, s.stack[i][1])
                 PROVE  new.colour[c] = "black" \/ \E j \in 1 .. n - 1 : i < j /\ s.stack[j][1] = c
      BY <1>3 DEF ExploredOK
    <2>1. s.colour[c] = "black" \/ \E j \in 1 .. n : i < j /\ s.stack[j][1] = c
      BY <1>0, <1>2 DEF ExploredOK
    <2>2. s.stack[i][1] \in DOMAIN m.groups
      <3>1. i \in DOMAIN s.stack
        BY <1>2
      <3> QED
        BY <1>0, <3>1, TopOfStack
    <2>3. c \in DOMAIN m.groups
      BY <2>2 DEF Resolved
    <2>4. CASE s.colour[c] = "black"
      BY <2>3, <2>4, <1>4
    <2>5. CASE \E j \in 1 .. n : i < j /\ s.stack[j][1] = c
      <3>1. PICK j \in 1 .. n : i < j /\ s.stack[j][1] = c
        BY <2>5
      <3>2. CASE j = n
        BY <3>1, <3>2, <1>t, <1>4
      <3>3. CASE j # n
        BY <3>1, <3>3, <1>2
      <3> QED
        BY <3>2, <3>3
    <2> QED
      BY <2>1, <2>4, <2>5
  <1>8. GreyOK(new, m)
    <2> SUFFICES ASSUME NEW c \in DOMAIN m.groups, new.colour[c] = "grey"
                 PROVE  \E i \in 1 .. n - 1 : s.stack[i] = <<c, FALSE>>
      BY <1>3 DEF GreyOK
    <2>1. c # g /\ s.colour[c] = "grey"
      BY <1>4
    <2>2. PICK i \in 1 .. n : s.stack[i] = <<c, FALSE>>
      BY <2>1, <1>0, <1>2 DEF GreyOK
    <2>3. i # n
      BY <2>1, <2>2, <1>t
    <2>4. i \in 1 .. n - 1
      BY <2>3, <1>2
    <2> QED
      BY <2>2, <2>4
  <1>9. Unknotted(m, g)
    <2> SUFFICES ASSUME NEW X \in SUBSET DOMAIN m.groups, Knot(m, X), g \in X PROVE FALSE
      BY DEF Unknotted
    <2>1. PICK c \in Children(m, g) : c \in X
      BY DEF Knot
    <2>2. n \in DOMAIN s.stack /\ ~s.stack[n][2] /\ s.stack[n][1] = g
      BY <1>2, <1>t
    <2>3. s.colour[c] = "black" \/ \E j \in DOMAIN s.stack : n < j
      BY <1>0, <2>1, <2>2 DEF ExploredOK
    <2>5. s.colour[c] = "black"
      BY <1>2, <2>3
    <2>4. Unknotted(m, c)
      BY <2>1, <2>5, <1>0 DEF BlackOK
    <2> QED
      BY <2>1, <2>4 DEF Unknotted
  <1>10. BlackOK(new, m)
    BY <1>0, <1>4, <1>9 DEF BlackOK
  <1> QED
    BY <1>5, <1>6, <1>7, <1>8, <1>10 DEF SearchInv, new

\* The factors of an authority are a list.
Listed(a) == Len(a.factors) \in Nat /\ DOMAIN a.factors = 1 .. Len(a.factors)

\* P has the white children of g, to be entered, and no others.
ChildrenToEnter(P, m, g, colour) ==
    /\ P \in Seq((DOMAIN m.groups) \X BOOLEAN)
    /\ \A c \in Children(m, g) : colour[c] = "white" => \E j \in DOMAIN P : P[j][1] = c
    /\ \A j \in DOMAIN P : P[j][1] \in Children(m, g) /\ P[j][2] = TRUE

\* That is what entering a group pushes.
LEMMA PushedChildren ==
    ASSUME NEW m, Resolved(m), NEW g \in DOMAIN m.groups, Listed(m.groups[g]), NEW colour
    PROVE  ChildrenToEnter(Pushed(m.groups[g].factors, colour), m, g, colour)
  <1> DEFINE factors == m.groups[g].factors
             E == (DOMAIN m.groups) \X BOOLEAN
             P == Pushed(factors, colour)
  <1>1. Children(m, g) = {factors[i].of : i \in {j \in 1 .. Len(factors) : factors[j].kind = "group"}}
    BY DEF Children, Refers, Listed
  <1>2. Children(m, g) \subseteq DOMAIN m.groups
    BY DEF Resolved
  <1>3. Len(factors) \in Nat
    BY DEF Listed
  <1> HIDE DEF factors
  <1>4. \A i \in 1 .. Len(factors) : factors[i].kind = "group" =>
            factors[i].of \in Children(m, g) /\ <<factors[i].of, TRUE>> \in E
    BY <1>1, <1>2
  <1> HIDE DEF E
  <1>5. IsPushed(P, factors, colour, E)
    BY <1>3, <1>4, PushedAreWhite DEF Pushable
  <1> HIDE DEF P
  <1>6. P \in Seq(E)
    BY <1>5 DEF IsPushed
  <1>7. ASSUME NEW c \in Children(m, g), colour[c] = "white" PROVE \E j \in DOMAIN P : P[j][1] = c
    <2>1. PICK i \in 1 .. Len(factors) : factors[i].kind = "group" /\ factors[i].of = c
      BY <1>1
    <2>2. PICK j \in DOMAIN P : P[j] = <<factors[i].of, TRUE>>
      BY <1>5, <2>1, <1>7 DEF IsPushed
    <2> QED
      BY <2>1, <2>2
  <1>8. ASSUME NEW j \in DOMAIN P PROVE P[j][1] \in Children(m, g) /\ P[j][2] = TRUE
    <2>1. PICK i \in 1 .. Len(factors) : factors[i].kind = "group" /\ P[j] = <<factors[i].of, TRUE>>
      BY <1>5 DEF IsPushed
    <2>2. P[j][1] = factors[i].of /\ P[j][2] = TRUE
      BY <2>1
    <2> QED
      BY <2>1, <2>2, <1>4
  <1>9. ChildrenToEnter(P, m, g, colour)
    BY <1>6, <1>7, <1>8 DEF ChildrenToEnter, E
  <1> QED
    BY <1>9 DEF P, factors

\* A stack of n - 1 entries F, the entry e, and the entries P.
Stacked(st, E, F, e, P) ==
    LET n == Len(F) + 1 IN
    /\ st \in Seq(E)
    /\ Len(P) \in Nat /\ DOMAIN st = 1 .. n + Len(P)
    /\ \A i \in 1 .. n - 1 : st[i] = F[i]
    /\ st[n] = e
    /\ \A j \in 1 .. Len(P) : st[n + j] = P[j]

\* The stack Enter leaves: what was below, the group's leave entry, then what it pushed.
LEMMA ThreePieces ==
    ASSUME NEW E, NEW F \in Seq(E), NEW e \in E, NEW P \in Seq(E)
    PROVE  Stacked(F \o <<e>> \o P, E, F, e, P)
  <1> DEFINE last == <<e>>
             G == F \o last
             st == G \o P
             n == Len(F) + 1
  <1>0. last \in Seq(E) /\ Len(last) = 1 /\ last[1] = e /\ Len(F) \in Nat /\ Len(P) \in Nat
    OBVIOUS
  <1>1. /\ G \in Seq(E) /\ Len(G) = Len(F) + Len(last)
        /\ \A i \in 1 .. Len(F) + Len(last) :
              G[i] = IF i <= Len(F) THEN F[i] ELSE last[i - Len(F)]
    <2> HIDE DEF last
    <2> QED
      BY <1>0, ConcatProperties
  <1> HIDE DEF last, G
  <1>2. Len(G) = n /\ (\A i \in 1 .. n - 1 : G[i] = F[i]) /\ G[n] = e
    BY <1>0, <1>1
  <1>3. /\ st \in Seq(E) /\ Len(st) = n + Len(P)
        /\ \A i \in 1 .. n + Len(P) : st[i] = IF i <= n THEN G[i] ELSE P[i - n]
    <2>0. G \in Seq(E)
      BY <1>1
    <2>1. /\ st \in Seq(E) /\ Len(st) = Len(G) + Len(P)
          /\ \A i \in 1 .. Len(G) + Len(P) : st[i] = IF i <= Len(G) THEN G[i] ELSE P[i - Len(G)]
      BY <2>0, ConcatProperties
    <2> HIDE DEF n, st
    <2> QED
      BY <1>2, <2>1
  <1> HIDE DEF st
  <1>4. (\A i \in 1 .. n - 1 : st[i] = F[i]) /\ st[n] = e
    BY <1>0, <1>2, <1>3
  <1>5. \A j \in 1 .. Len(P) : st[n + j] = P[j]
    <2> SUFFICES ASSUME NEW j \in 1 .. Len(P) PROVE st[n + j] = P[j]
      OBVIOUS
    <2>1. n + j \in 1 .. n + Len(P) /\ ~(n + j <= n) /\ (n + j) - n = j
      BY <1>0
    <2> HIDE DEF n
    <2> QED
      BY <1>3, <2>1
  <1>6. DOMAIN st = 1 .. n + Len(P)
    BY <1>3
  <1>7. Stacked(st, E, F, e, P)
    BY <1>0, <1>3, <1>4, <1>5, <1>6 DEF Stacked
  <1> QED
    BY <1>7 DEF st, G, last

\* Entering a group that has no edge back to a grey one keeps the search's invariant.
LEMMA EnterOK ==
    ASSUME NEW m, Resolved(m), \A g \in DOMAIN m.groups : Listed(m.groups[g]),
           NEW s, SearchInv(s, m), s.stack # <<>>, Last(s.stack)[2], ~BackEdge(s, m)
    PROVE  SearchInv(Enter(s, m), m)
  <1> DEFINE new == Enter(s, m)
             n == Len(s.stack)
             g == Last(s.stack)[1]
             colour == [s.colour EXCEPT ![g] = "grey"]
             P == Pushed(m.groups[g].factors, colour)
             k == Len(P)
  <1>0. Coloured(s, m) /\ PathOK(s, m) /\ ExploredOK(s, m) /\ GreyOK(s, m) /\ BlackOK(s, m)
    BY DEF SearchInv
  <1>1. new.colour = colour /\ new.stack = Front(s.stack) \o <<<<g, FALSE>>>> \o P
    BY DEF Enter
  <1>t. n \in Nat \ {0} /\ DOMAIN s.stack = 1 .. n /\ g \in DOMAIN m.groups /\ Last(s.stack) = s.stack[n]
    BY <1>0, TopOfStack
  <1>2. /\ n \in Nat \ {0} /\ DOMAIN s.stack = 1 .. n /\ g \in DOMAIN m.groups
        /\ n \in DOMAIN s.stack /\ s.stack[n][1] = g /\ s.stack[n][2]
    <2> HIDE DEF n
    <2> QED
      BY <1>t
  <1>3. /\ Front(s.stack) \in Seq((DOMAIN m.groups) \X BOOLEAN)
        /\ Len(Front(s.stack)) = n - 1
        /\ \A i \in 1 .. n - 1 : Front(s.stack)[i] = s.stack[i]
    BY <1>0, TopOfStack
  <1>4. /\ colour \in [DOMAIN m.groups -> {"white", "grey", "black"}]
        /\ colour[g] = "grey"
        /\ \A c \in DOMAIN m.groups : c # g => colour[c] = s.colour[c]
    BY <1>0, <1>2 DEF Coloured
  <1>5. \A c \in Children(m, g) : c # g /\ s.colour[c] # "grey"
    BY DEF BackEdge, Children
  <1> HIDE DEF new, n, g, colour
  <1>p. ChildrenToEnter(P, m, g, colour)
    BY <1>2, PushedChildren
  <1> HIDE DEF P
  <1>6. /\ P \in Seq((DOMAIN m.groups) \X BOOLEAN)
        /\ \A c \in Children(m, g) : colour[c] = "white" => \E j \in DOMAIN P : P[j][1] = c
        /\ \A j \in DOMAIN P : P[j][1] \in Children(m, g) /\ P[j][2] = TRUE
    BY <1>p DEF ChildrenToEnter
  <1>7. <<g, FALSE>> \in (DOMAIN m.groups) \X BOOLEAN
    BY <1>2
  <1>s. Stacked(new.stack, (DOMAIN m.groups) \X BOOLEAN, Front(s.stack), <<g, FALSE>>, P)
    <2> DEFINE E == (DOMAIN m.groups) \X BOOLEAN
    <2>1. Front(s.stack) \in Seq(E) /\ P \in Seq(E) /\ <<g, FALSE>> \in E
      BY <1>3, <1>6, <1>7
    <2> HIDE DEF E
    <2>2. Stacked(Front(s.stack) \o <<<<g, FALSE>>>> \o P, E, Front(s.stack), <<g, FALSE>>, P)
      BY <2>1, ThreePieces
    <2> QED
      BY <1>1, <2>2 DEF E
  <1>l. Len(Front(s.stack)) + 1 = n /\ Len(Front(s.stack)) = n - 1
    BY <1>2, <1>3
  <1>8. /\ new.stack \in Seq((DOMAIN m.groups) \X BOOLEAN)
        /\ DOMAIN new.stack = 1 .. n + k
        /\ k \in Nat
        /\ \A i \in 1 .. n - 1 : new.stack[i] = Front(s.stack)[i]
        /\ new.stack[n] = <<g, FALSE>>
        /\ \A j \in 1 .. k : new.stack[n + j] = P[j]
    BY <1>s, <1>l DEF Stacked
  <1>9. DOMAIN P = 1 .. k
    BY <1>6
  <1> HIDE DEF k
  \* The stack, entry by entry.
  <1>d. n \in Nat \ {0} /\ k \in Nat /\ DOMAIN new.stack = 1 .. n + k
    BY <1>2, <1>8
  <1>a. \A i \in 1 .. n - 1 : new.stack[i] = s.stack[i]
    BY <1>3, <1>8
  <1>b. new.stack[n] = <<g, FALSE>> /\ new.stack[n][1] = g /\ new.stack[n][2] = FALSE
    BY <1>8
  <1>c. \A j \in DOMAIN new.stack : n < j =>
            new.stack[j][1] \in Children(m, g) /\ new.stack[j][2] = TRUE
    <2> SUFFICES ASSUME NEW j \in 1 .. n + k, n < j
                 PROVE  new.stack[j][1] \in Children(m, g) /\ new.stack[j][2] = TRUE
      BY <1>d
    <2>1. j - n \in 1 .. k /\ n + (j - n) = j
      BY <1>d
    <2>2. new.stack[j] = P[j - n]
      BY <2>1, <1>8
    <2> QED
      BY <2>1, <2>2, <1>6, <1>9
  <1>e. \A c \in Children(m, g) : colour[c] = "white" =>
            \E j \in DOMAIN new.stack : n < j /\ new.stack[j][1] = c
    <2> SUFFICES ASSUME NEW c \in Children(m, g), colour[c] = "white"
                 PROVE  \E j \in DOMAIN new.stack : n < j /\ new.stack[j][1] = c
      OBVIOUS
    <2>1. PICK j \in 1 .. k : P[j][1] = c
      BY <1>6, <1>9
    <2>2. n + j \in DOMAIN new.stack /\ n < n + j /\ new.stack[n + j] = P[j]
      BY <1>8, <1>d
    <2> QED
      BY <2>1, <2>2
  \* Above the top of the old stack there is nothing.
  <1>f. \A i \in 1 .. n - 1 : i \in DOMAIN s.stack
    BY <1>2
  <1>10. Coloured(new, m)
    BY <1>1, <1>4, <1>8 DEF Coloured
  <1>11. PathOK(new, m)
    <2> SUFFICES ASSUME NEW i \in 1 .. n + k, NEW j \in 1 .. n + k, i < j, ~new.stack[i][2]
                 PROVE  new.stack[j][1] \in Reached(m, m.groups[new.stack[i][1]])
      BY <1>d DEF PathOK
    <2>1. Children(m, g) \subseteq Reached(m, m.groups[g])
      BY <1>2, ReachedIsClosed DEF Resolved, Children
    <2>2. i <= n
      BY <1>c, <1>d
    <2>3. CASE i = n
      BY <2>1, <2>3, <1>b, <1>c, <1>d
    <2>4. CASE i < n
      <3>1. i \in 1 .. n - 1 /\ i \in DOMAIN s.stack /\ new.stack[i] = s.stack[i] /\ ~s.stack[i][2]
        BY <2>4, <1>d, <1>a, <1>f
      <3>2. g \in Reached(m, m.groups[s.stack[i][1]])
        BY <3>1, <2>4, <1>0, <1>2 DEF PathOK
      <3>3. CASE j < n
        <4>1. j \in 1 .. n - 1 /\ j \in DOMAIN s.stack /\ new.stack[j] = s.stack[j]
          BY <3>3, <1>d, <1>a, <1>f
        <4> QED
          BY <3>1, <4>1, <1>0 DEF PathOK
      <3>4. CASE j = n
        BY <3>1, <3>2, <3>4, <1>b
      <3>5. CASE n < j
        <4>1. new.stack[j][1] \in Children(m, g)
          BY <3>5, <1>c, <1>d
        <4> QED
          BY <3>1, <3>2, <4>1, ReachedIsClosed
      <3> QED
        BY <3>3, <3>4, <3>5, <1>d
    <2> QED
      BY <2>2, <2>3, <2>4, <1>d
  <1>12. ExploredOK(new, m)
    <2> SUFFICES ASSUME NEW i \in DOMAIN new.stack, ~new.stack[i][2],
                        NEW c \in Children(m, new.stack[i][1])
                 PROVE  \/ new.colour[c] = "black"
                        \/ \E j \in DOMAIN new.stack : i < j /\ new.stack[j][1] = c
      BY DEF ExploredOK
    <2>1. i <= n
      BY <1>c, <1>d
    <2>2. CASE i = n
      <3>1. c \in Children(m, g) /\ c \in DOMAIN m.groups
        BY <2>2, <1>b, <1>2 DEF Resolved
      <3>2. colour[c] \in {"white", "black"}
        BY <3>1, <1>4, <1>5
      <3> QED
        BY <3>1, <3>2, <2>2, <1>1, <1>e
    <2>3. CASE i < n
      <3>1. i \in 1 .. n - 1 /\ i \in DOMAIN s.stack /\ new.stack[i] = s.stack[i] /\ ~s.stack[i][2]
        BY <2>3, <1>d, <1>a, <1>f
      <3>2. s.stack[i][1] \in DOMAIN m.groups
        BY <3>1, <1>0, TopOfStack
      <3>3. c \in Children(m, s.stack[i][1]) /\ c \in DOMAIN m.groups
        BY <3>1, <3>2 DEF Resolved
      <3>4. CASE c = g
        BY <3>4, <2>3, <1>b, <1>d
      <3>5. CASE c # g /\ s.colour[c] = "black"
        BY <3>5, <3>3, <1>1, <1>4
      <3>6. CASE c # g /\ \E j \in DOMAIN s.stack : i < j /\ s.stack[j][1] = c
        <4>1. PICK j \in DOMAIN s.stack : i < j /\ s.stack[j][1] = c
          BY <3>6
        <4>2. j # n
          BY <4>1, <3>6, <1>2
        <4>3. j \in 1 .. n - 1
          BY <4>2, <1>2
        <4>4. new.stack[j] = s.stack[j] /\ j \in DOMAIN new.stack
          BY <4>3, <1>a, <1>d
        <4> QED
          BY <4>1, <4>4
      <3> QED
        BY <3>1, <3>3, <3>4, <3>5, <3>6, <1>0 DEF ExploredOK
    <2> QED
      BY <2>1, <2>2, <2>3, <1>d
  <1>13. GreyOK(new, m)
    <2> SUFFICES ASSUME NEW c \in DOMAIN m.groups, colour[c] = "grey"
                 PROVE  \E i \in DOMAIN new.stack : new.stack[i] = <<c, FALSE>>
      BY <1>1 DEF GreyOK
    <2>1. CASE c = g
      <3>1. n \in DOMAIN new.stack
        BY <1>d
      <3> QED
        BY <2>1, <3>1, <1>b
    <2>2. CASE c # g
      <3>1. PICK i \in DOMAIN s.stack : s.stack[i] = <<c, FALSE>>
        BY <2>2, <1>0, <1>4 DEF GreyOK
      <3>2. s.stack[i][1] = c
        BY <3>1
      <3>3. i # n
        BY <3>2, <2>2, <1>2
      <3>4. i \in 1 .. n - 1 /\ i \in 1 .. n + k
        BY <3>3, <1>2, <1>d
      <3> QED
        BY <3>1, <3>4, <1>a, <1>d
    <2> QED
      BY <2>1, <2>2
  <1>14. BlackOK(new, m)
    BY <1>0, <1>1, <1>4 DEF BlackOK
  <1> QED
    BY <1>10, <1>11, <1>12, <1>13, <1>14 DEF SearchInv, new

\* A back edge closes a cycle.
LEMMA BackEdgeIsCycle ==
    ASSUME NEW m, Resolved(m), NEW s, SearchInv(s, m), s.stack # <<>>, Last(s.stack)[2],
           BackEdge(s, m)
    PROVE  \E c \in DOMAIN m.groups : c \in Reached(m, m.groups[c])
  <1> DEFINE n == Len(s.stack)
             g == Last(s.stack)[1]
  <1>1. Coloured(s, m) /\ PathOK(s, m) /\ GreyOK(s, m)
    BY DEF SearchInv
  <1>t. n \in Nat \ {0} /\ DOMAIN s.stack = 1 .. n /\ g \in DOMAIN m.groups /\ Last(s.stack) = s.stack[n]
    BY <1>1, TopOfStack
  <1>2. /\ n \in Nat \ {0} /\ DOMAIN s.stack = 1 .. n /\ g \in DOMAIN m.groups
        /\ n \in DOMAIN s.stack /\ s.stack[n][1] = g /\ s.stack[n][2]
    <2> HIDE DEF n
    <2> QED
      BY <1>t
  <1>3. PICK c \in Children(m, g) : c = g \/ s.colour[c] = "grey"
    BY DEF BackEdge, Children
  <1>4. Children(m, g) \subseteq DOMAIN m.groups /\ Children(m, g) \subseteq Reached(m, m.groups[g])
    BY <1>2, ReachedIsClosed DEF Resolved, Children
  <1>5. CASE c = g
    BY <1>3, <1>4, <1>5
  <1>6. CASE c # g /\ s.colour[c] = "grey"
    <2> HIDE DEF n, g
    <2>1. PICK i \in DOMAIN s.stack : s.stack[i] = <<c, FALSE>>
      BY <1>1, <1>3, <1>4, <1>6 DEF GreyOK
    <2>2. s.stack[i][1] = c /\ ~s.stack[i][2]
      BY <2>1
    <2>3. i # n
      BY <2>2, <1>2
    <2>4. i < n
      BY <2>3, <1>2
    <2>5. g \in Reached(m, m.groups[c])
      BY <2>2, <2>4, <1>1, <1>2 DEF PathOK
    <2>6. c \in Reached(m, m.groups[c])
      BY <2>5, <1>3, ReachedIsClosed
    <2> QED
      BY <2>6, <1>3, <1>4
  <1> QED
    BY <1>3, <1>5, <1>6

\* When nothing is left to visit, every group is in no knot.
LEMMA DoneIsAcyclic ==
    ASSUME NEW m, NEW s, SearchInv(s, m), s.stack = <<>>, Roots(s) = {}
    PROVE  Acyclic(m)
  <1>1. Coloured(s, m) /\ GreyOK(s, m) /\ BlackOK(s, m)
    BY DEF SearchInv
  <1>2. \A g \in DOMAIN m.groups : s.colour[g] # "grey"
    BY <1>1 DEF GreyOK
  <1>3. \A g \in DOMAIN m.groups : s.colour[g] # "white"
    BY <1>1 DEF Coloured, Roots
  <1>4. \A g \in DOMAIN m.groups : s.colour[g] = "black"
    BY <1>1, <1>2, <1>3 DEF Coloured
  <1> QED
    BY <1>1, <1>4 DEF BlackOK, Acyclic

(***************************************************************************)
(* Authorities and what they weigh.                                         *)
(***************************************************************************)

\* What build_authority lets through.
FactorSound(f) ==
    /\ f.weight \in Nat
    /\ f.kind \in {"authenticator", "group", "wait"}
    /\ f.kind = "wait" => f.of \in 1 .. MaxWaitCap

AuthoritySound(a) ==
    /\ Listed(a)
    /\ \A i \in DOMAIN a.factors : FactorSound(a.factors[i])
    /\ a.threshold \in Nat \ {0}
    /\ a.threshold <= Available(a.factors)

\* A body is as it was parsed.
BodyParsed(b) == b.threshold \in Nat /\ b.factor \in Seq(FactorSpecs)

\* An authority that build_authority accepted has a positive threshold its weights reach.
LEMMA BuiltIsSound ==
    ASSUME NEW id, NEW body, BodyParsed(body), Builds(id, body)
    PROVE  AuthoritySound(BuildAuthority(body))
  <1> DEFINE a == BuildAuthority(body)
             f == body.factor
  <1>1. f \in Seq(FactorSpecs) /\ Len(f) \in Nat /\ DOMAIN f = 1 .. Len(f)
    BY DEF BodyParsed
  <1>2. /\ a.threshold = body.threshold
        /\ a.factors = [i \in DOMAIN f |-> [weight |-> f[i].weight, kind |-> Named(f[i]).kind,
                                            of |-> Named(f[i]).of]]
    BY DEF BuildAuthority
  <1>3. /\ body.threshold \in Nat \ {0} /\ body.threshold <= Available(f)
        /\ \A i \in DOMAIN f : FactorOK(f[i])
    <2>1. body.threshold \in Nat /\ body.threshold > 0 /\ body.threshold <= Available(f)
      BY DEF Builds, BodyParsed
    <2>2. \A i \in DOMAIN f : FactorOK(f[i])
      BY DEF Builds
    <2> QED
      BY <2>1, <2>2
  <1> HIDE DEF a, f
  <1>4. /\ DOMAIN a.factors = DOMAIN f
        /\ \A i \in DOMAIN f : /\ a.factors[i].weight = f[i].weight
                               /\ a.factors[i].kind = Named(f[i]).kind
                               /\ a.factors[i].of = Named(f[i]).of
    BY <1>2
  <1>5. Listed(a)
    <2>1. a.factors \in [1 .. Len(f) -> {a.factors[i] : i \in 1 .. Len(f)}]
      BY <1>1, <1>2
    <2>2. Len(a.factors) = Len(f)
      BY <1>1, <2>1
    <2> QED
      BY <1>1, <1>4, <2>2 DEF Listed
  <1>6. ASSUME NEW i \in DOMAIN f PROVE FactorSound(a.factors[i])
    <2>1. f[i] \in FactorSpecs
      BY <1>1
    <2>2. f[i].names # {}
      <3> SUFFICES ASSUME f[i].names = {} PROVE FALSE
        OBVIOUS
      <3>1. Cardinality({}) = 0
        BY FS_EmptySet
      <3>2. Cardinality(f[i].names) = 1
        BY <1>3 DEF FactorOK
      <3> QED
        BY <3>1, <3>2
    <2>3. Named(f[i]) \in f[i].names
      BY <2>2 DEF Named
    <2>4. f[i].weight \in Nat /\ Named(f[i]).kind \in {"authenticator", "group", "wait"}
      BY <2>1, <2>3 DEF FactorSpecs
    <2>5. Named(f[i]).kind = "wait" => Named(f[i]).of \in 1 .. MaxWaitCap
      BY <2>3, <1>3 DEF FactorOK
    <2> QED
      BY <2>4, <2>5, <1>4 DEF FactorSound
  <1>7. Available(a.factors) = Available(f)
    <2>1. [i \in DOMAIN a.factors |-> a.factors[i].weight] = [i \in DOMAIN f |-> f[i].weight]
      BY <1>4
    <2> QED
      BY <2>1 DEF Available
  <1>8. AuthoritySound(a)
    BY <1>2, <1>3, <1>4, <1>5, <1>6, <1>7 DEF AuthoritySound
  <1> QED
    BY <1>8 DEF a

\* What each factor contributes.
Counted(a, proofs, elapsed, met) ==
    [i \in DOMAIN a.factors |->
        IF Satisfied(a.factors[i], proofs, elapsed, met) THEN a.factors[i].weight ELSE 0]

\* The weights that count towards a threshold form a list of naturals, one per factor.
LEMMA CountedIsList ==
    ASSUME NEW a, AuthoritySound(a), NEW proofs, NEW elapsed, NEW met
    PROVE  /\ Counted(a, proofs, elapsed, met) \in Seq(Nat)
           /\ Len(Counted(a, proofs, elapsed, met)) = Len(a.factors)
           /\ \A i \in 1 .. Len(a.factors) :
                 /\ a.factors[i].weight \in Nat
                 /\ Counted(a, proofs, elapsed, met)[i] =
                       IF Satisfied(a.factors[i], proofs, elapsed, met) THEN a.factors[i].weight ELSE 0
  <1> DEFINE c == Counted(a, proofs, elapsed, met)
             n == Len(a.factors)
  <1>1. n \in Nat /\ DOMAIN a.factors = 1 .. n
    BY DEF AuthoritySound, Listed
  <1>2. \A i \in 1 .. n : a.factors[i].weight \in Nat
    BY <1>1 DEF AuthoritySound, FactorSound
  <1>3. c = [i \in 1 .. n |-> IF Satisfied(a.factors[i], proofs, elapsed, met)
                             THEN a.factors[i].weight ELSE 0]
    BY <1>1 DEF Counted
  <1> HIDE DEF n, c
  <1>4. c \in [1 .. n -> Nat]
    BY <1>2, <1>3
  <1>5. c \in Seq(Nat) /\ Len(c) = n
    BY <1>1, <1>4
  <1> QED
    BY <1>2, <1>3, <1>5 DEF c, n

\* An authority does not weigh less when its factors are still satisfied.
LEMMA WeightGrows ==
    ASSUME NEW a, AuthoritySound(a), NEW proofs1, NEW elapsed1, NEW met1,
           NEW proofs2, NEW elapsed2, NEW met2,
           \A i \in DOMAIN a.factors :
               Satisfied(a.factors[i], proofs1, elapsed1, met1) =>
                   Satisfied(a.factors[i], proofs2, elapsed2, met2)
    PROVE  /\ Weight(a, proofs1, elapsed1, met1) \in Nat
           /\ Weight(a, proofs2, elapsed2, met2) \in Nat
           /\ Weight(a, proofs1, elapsed1, met1) <= Weight(a, proofs2, elapsed2, met2)
  <1> DEFINE v == Counted(a, proofs1, elapsed1, met1)
             w == Counted(a, proofs2, elapsed2, met2)
  <1>1. v \in Seq(Nat) /\ w \in Seq(Nat) /\ Len(v) = Len(a.factors) /\ Len(w) = Len(a.factors)
    BY CountedIsList
  <1>2. \A i \in 1 .. Len(a.factors) : v[i] <= w[i]
    <2> SUFFICES ASSUME NEW i \in 1 .. Len(a.factors) PROVE v[i] <= w[i]
      OBVIOUS
    <2>1. i \in DOMAIN a.factors
      BY DEF AuthoritySound, Listed
    <2>2. /\ a.factors[i].weight \in Nat
          /\ v[i] = IF Satisfied(a.factors[i], proofs1, elapsed1, met1) THEN a.factors[i].weight ELSE 0
          /\ w[i] = IF Satisfied(a.factors[i], proofs2, elapsed2, met2) THEN a.factors[i].weight ELSE 0
      BY CountedIsList
    <2> HIDE DEF v, w
    <2> QED
      BY <2>1, <2>2
  <1>3. Weight(a, proofs1, elapsed1, met1) = Total(v) /\ Weight(a, proofs2, elapsed2, met2) = Total(w)
    BY DEF Weight, Counted
  <1> HIDE DEF v, w
  <1> QED
    BY <1>1, <1>2, <1>3, TotalGrows

\* An authority with all its factors satisfied is met.
LEMMA FullWeight ==
    ASSUME NEW a, AuthoritySound(a), NEW proofs, NEW elapsed, NEW met,
           \A i \in DOMAIN a.factors : Satisfied(a.factors[i], proofs, elapsed, met)
    PROVE  Weight(a, proofs, elapsed, met) >= a.threshold
  <1>1. Counted(a, proofs, elapsed, met) = [i \in DOMAIN a.factors |-> a.factors[i].weight]
    BY DEF Counted
  <1>2. Weight(a, proofs, elapsed, met) = Available(a.factors)
    BY <1>1 DEF Weight, Counted, Available
  <1>3. Weight(a, proofs, elapsed, met) \in Nat
    BY WeightGrows
  <1> QED
    BY <1>2, <1>3 DEF AuthoritySound

\* An authority with none of them satisfied is not.
LEMMA NoWeight ==
    ASSUME NEW a, AuthoritySound(a), NEW proofs, NEW elapsed, NEW met,
           \A i \in DOMAIN a.factors : ~Satisfied(a.factors[i], proofs, elapsed, met)
    PROVE  ~(Weight(a, proofs, elapsed, met) >= a.threshold)
  <1> DEFINE c == Counted(a, proofs, elapsed, met)
  <1>1. DOMAIN a.factors = 1 .. Len(a.factors)
    BY DEF AuthoritySound, Listed
  <1>2. c \in Seq(Nat) /\ Len(c) = Len(a.factors)
    BY CountedIsList
  <1>3. \A i \in 1 .. Len(c) : c[i] = 0
    BY <1>1, <1>2 DEF Counted
  <1>4. Weight(a, proofs, elapsed, met) = Total(c)
    BY DEF Weight, Counted
  <1> HIDE DEF c
  <1>5. Total(c) = 0
    BY <1>2, <1>3, TotalOfNothing
  <1> QED
    BY <1>4, <1>5 DEF AuthoritySound

(***************************************************************************)
(* Which groups are met.                                                    *)
(***************************************************************************)

\* A policy that passed from_spec, but for the cycle check.
PolicySound(m) == Resolved(m) /\ \A g \in DOMAIN m.groups : AuthoritySound(m.groups[g])

\* An authority of such a policy.
AuthorityOf(a, m) == AuthoritySound(a) /\ Refers(a, "group") \subseteq DOMAIN m.groups

\* met says of each group what evaluate returns for it.
IsMet(m, proofs, elapsed, met) ==
    met = [g \in DOMAIN m.groups |->
              Weight(m.groups[g], proofs, elapsed, met) >= m.groups[g].threshold]

\* A group of a sound policy is itself an authority over that policy.
LEMMA GroupIsOf ==
    ASSUME NEW m, PolicySound(m), NEW g \in DOMAIN m.groups
    PROVE  AuthorityOf(m.groups[g], m)
  BY DEF PolicySound, AuthorityOf, Resolved, Children

\* A group factor names a group.
LEMMA FactorsGroup ==
    ASSUME NEW m, NEW a, AuthorityOf(a, m), NEW i \in DOMAIN a.factors, a.factors[i].kind = "group"
    PROVE  a.factors[i].of \in Refers(a, "group") /\ a.factors[i].of \in DOMAIN m.groups
  BY DEF AuthorityOf, Refers

\* The recursion of evaluate has a solution: the groups in every set that is
\* closed under being met.
LEMMA SomeMet ==
    ASSUME NEW m, PolicySound(m), NEW proofs, NEW elapsed
    PROVE  \E met : IsMet(m, proofs, elapsed, met)
  <1> DEFINE gs == DOMAIN m.groups
             In(Y) == [g \in gs |-> g \in Y]
             Up(Y) == {g \in gs : Weight(m.groups[g], proofs, elapsed, In(Y)) >= m.groups[g].threshold}
             L == {g \in gs : \A Y \in SUBSET gs : Up(Y) \subseteq Y => g \in Y}
  <1>1. ASSUME NEW Y \in SUBSET gs, NEW Z \in SUBSET gs, Y \subseteq Z PROVE Up(Y) \subseteq Up(Z)
    <2> SUFFICES ASSUME NEW g \in gs, Weight(m.groups[g], proofs, elapsed, In(Y)) >= m.groups[g].threshold
                 PROVE  Weight(m.groups[g], proofs, elapsed, In(Z)) >= m.groups[g].threshold
      OBVIOUS
    <2> DEFINE a == m.groups[g]
    <2>1. AuthorityOf(a, m)
      BY GroupIsOf
    <2>2. ASSUME NEW i \in DOMAIN a.factors, Satisfied(a.factors[i], proofs, elapsed, In(Y))
          PROVE  Satisfied(a.factors[i], proofs, elapsed, In(Z))
      <3>1. CASE a.factors[i].kind = "group"
        <4>1. a.factors[i].of \in gs
          BY <2>1, <3>1, FactorsGroup
        <4>2. a.factors[i].of \in Y
          BY <2>2, <3>1, <4>1 DEF Satisfied
        <4> QED
          BY <1>1, <3>1, <4>1, <4>2 DEF Satisfied
      <3>2. CASE a.factors[i].kind # "group"
        BY <2>2, <3>2 DEF Satisfied
      <3> QED
        BY <3>1, <3>2
    <2>3. a.threshold \in Nat
      BY <2>1 DEF AuthorityOf, AuthoritySound
    <2> HIDE DEF a, In
    <2>4. /\ Weight(a, proofs, elapsed, In(Y)) \in Nat
          /\ Weight(a, proofs, elapsed, In(Z)) \in Nat
          /\ Weight(a, proofs, elapsed, In(Y)) <= Weight(a, proofs, elapsed, In(Z))
      BY <2>1, <2>2, WeightGrows DEF AuthorityOf
    <2>5. Weight(a, proofs, elapsed, In(Y)) >= a.threshold
      BY DEF a
    <2>6. Weight(a, proofs, elapsed, In(Z)) >= a.threshold
      BY <2>3, <2>4, <2>5
    <2> QED
      BY <2>6 DEF a
  <1> DEFINE met == In(L)
  <1>2. \A Y \in SUBSET gs : Up(Y) \in SUBSET gs
    OBVIOUS
  <1>3. \A Y \in SUBSET gs : Up(Y) \subseteq Y => L \subseteq Y
    <2> HIDE DEF Up
    <2> QED
      OBVIOUS
  <1>4. L \in SUBSET gs
    OBVIOUS
  <1>5. \A g \in gs : (\A Y \in SUBSET gs : Up(Y) \subseteq Y => g \in Y) => g \in L
    <2> HIDE DEF Up
    <2> QED
      OBVIOUS
  <1>6. \A g \in gs : g \in Up(L) <=> Weight(m.groups[g], proofs, elapsed, met) >= m.groups[g].threshold
    OBVIOUS
  <1> HIDE DEF Up, L
  <1>7. Up(L) \subseteq L
    BY <1>1, <1>2, <1>3, <1>4, <1>5
  <1>8. L \subseteq Up(L)
    BY <1>1, <1>2, <1>3, <1>4, <1>7
  <1>9. \A g \in gs : g \in L <=> Weight(m.groups[g], proofs, elapsed, met) >= m.groups[g].threshold
    BY <1>6, <1>7, <1>8
  <1>10. met = [g \in gs |-> Weight(m.groups[g], proofs, elapsed, met) >= m.groups[g].threshold]
    <2> DEFINE W(g) == Weight(m.groups[g], proofs, elapsed, met) >= m.groups[g].threshold
    <2>1. \A g \in gs : (g \in L) = W(g)
      BY <1>9
    <2>2. met = [g \in gs |-> g \in L]
      OBVIOUS
    <2> HIDE DEF met
    <2>3. [g \in gs |-> g \in L] = [g \in gs |-> W(g)]
      BY <2>1
    <2> QED
      BY <2>2, <2>3
  <1> HIDE DEF met
  <1> QED
    BY <1>10 DEF IsMet

\* Groups is such a solution.
LEMMA GroupsMet ==
    ASSUME NEW m, PolicySound(m), NEW proofs, NEW elapsed
    PROVE  /\ IsMet(m, proofs, elapsed, Groups(m, proofs, elapsed))
           /\ \A g \in DOMAIN m.groups :
                 Groups(m, proofs, elapsed)[g] <=>
                    Weight(m.groups[g], proofs, elapsed, Groups(m, proofs, elapsed))
                        >= m.groups[g].threshold
  <1>1. Groups(m, proofs, elapsed) = CHOOSE met : IsMet(m, proofs, elapsed, met)
    BY DEF Groups, IsMet
  <1>2. IsMet(m, proofs, elapsed, Groups(m, proofs, elapsed))
    BY <1>1, SomeMet
  <1> QED
    BY <1>2 DEF IsMet

\* A factor that is satisfied stays so, unless it is a group that does not.
LEMMA SatisfiedGrows ==
    ASSUME NEW a, AuthoritySound(a), NEW i \in DOMAIN a.factors,
           NEW proofs1, NEW proofs2, proofs1 \subseteq proofs2,
           NEW elapsed1 \in Nat, NEW elapsed2 \in Nat, elapsed1 <= elapsed2, NEW met1, NEW met2,
           Satisfied(a.factors[i], proofs1, elapsed1, met1),
           ~Satisfied(a.factors[i], proofs2, elapsed2, met2)
    PROVE  a.factors[i].kind = "group" /\ met1[a.factors[i].of] /\ ~met2[a.factors[i].of]
  <1> DEFINE f == a.factors[i]
  <1>1. f.kind = "wait" => f.of \in Nat
    BY DEF AuthoritySound, FactorSound
  <1>2. CASE f.kind = "wait"
    <2>1. elapsed1 >= f.of /\ ~(elapsed2 >= f.of)
      BY <1>2 DEF Satisfied
    <2> QED
      BY <1>1, <1>2, <2>1
  <1>3. CASE f.kind = "authenticator"
    BY <1>3 DEF Satisfied
  <1>4. CASE f.kind = "group"
    BY <1>4 DEF Satisfied
  <1> QED
    BY <1>2, <1>3, <1>4 DEF AuthoritySound, FactorSound

\* An authority that is met and later is not has a group of which that holds too.
LEMMA LostGroup ==
    ASSUME NEW m, NEW a, AuthorityOf(a, m),
           NEW proofs1, NEW proofs2, proofs1 \subseteq proofs2,
           NEW elapsed1 \in Nat, NEW elapsed2 \in Nat, elapsed1 <= elapsed2, NEW met1, NEW met2,
           Weight(a, proofs1, elapsed1, met1) >= a.threshold,
           ~(Weight(a, proofs2, elapsed2, met2) >= a.threshold)
    PROVE  \E c \in Refers(a, "group") : c \in DOMAIN m.groups /\ met1[c] /\ ~met2[c]
  <1>1. AuthoritySound(a) /\ a.threshold \in Nat
    BY DEF AuthorityOf, AuthoritySound
  <1>2. PICK i \in DOMAIN a.factors : /\ Satisfied(a.factors[i], proofs1, elapsed1, met1)
                                      /\ ~Satisfied(a.factors[i], proofs2, elapsed2, met2)
    <2> SUFFICES ASSUME \A i \in DOMAIN a.factors :
                            Satisfied(a.factors[i], proofs1, elapsed1, met1) =>
                                Satisfied(a.factors[i], proofs2, elapsed2, met2)
                 PROVE  FALSE
      OBVIOUS
    <2>1. /\ Weight(a, proofs1, elapsed1, met1) \in Nat
          /\ Weight(a, proofs2, elapsed2, met2) \in Nat
          /\ Weight(a, proofs1, elapsed1, met1) <= Weight(a, proofs2, elapsed2, met2)
      BY <1>1, WeightGrows
    <2> QED
      BY <1>1, <2>1
  <1>3. a.factors[i].kind = "group" /\ met1[a.factors[i].of] /\ ~met2[a.factors[i].of]
    BY <1>1, <1>2, SatisfiedGrows
  <1>4. a.factors[i].of \in Refers(a, "group") /\ a.factors[i].of \in DOMAIN m.groups
    BY <1>3, FactorsGroup
  <1> QED
    BY <1>3, <1>4

\* With more proofs and more time, what was met is met.
LEMMA EvaluateGrows ==
    ASSUME NEW m, PolicySound(m), Acyclic(m), NEW a, AuthorityOf(a, m),
           NEW proofs1, NEW proofs2, proofs1 \subseteq proofs2,
           NEW elapsed1 \in Nat, NEW elapsed2 \in Nat, elapsed1 <= elapsed2,
           Evaluate(m, a, proofs1, elapsed1)
    PROVE  Evaluate(m, a, proofs2, elapsed2)
  <1> DEFINE met1 == Groups(m, proofs1, elapsed1)
             met2 == Groups(m, proofs2, elapsed2)
             X == {g \in DOMAIN m.groups : met1[g] /\ ~met2[g]}
  <1>1. \A g \in DOMAIN m.groups :
            /\ met1[g] <=> Weight(m.groups[g], proofs1, elapsed1, met1) >= m.groups[g].threshold
            /\ met2[g] <=> Weight(m.groups[g], proofs2, elapsed2, met2) >= m.groups[g].threshold
    BY GroupsMet
  <1> HIDE DEF met1, met2
  <1>2. ASSUME NEW g \in X PROVE Children(m, g) \cap X # {}
    <2>1. AuthorityOf(m.groups[g], m)
      BY GroupIsOf
    <2>2. /\ Weight(m.groups[g], proofs1, elapsed1, met1) >= m.groups[g].threshold
          /\ ~(Weight(m.groups[g], proofs2, elapsed2, met2) >= m.groups[g].threshold)
      BY <1>1
    <2>3. PICK c \in Children(m, g) : c \in DOMAIN m.groups /\ met1[c] /\ ~met2[c]
      BY <2>1, <2>2, LostGroup DEF Children
    <2> QED
      BY <2>3
  <1>3. X = {}
    <2>1. Knot(m, X) /\ X \in SUBSET DOMAIN m.groups
      BY <1>2 DEF Knot
    <2> HIDE DEF X
    <2> QED
      BY <2>1 DEF Acyclic, Unknotted
  <1>4. Weight(a, proofs1, elapsed1, met1) >= a.threshold
    BY DEF Evaluate, met1
  <1>5. Weight(a, proofs2, elapsed2, met2) >= a.threshold
    <2> SUFFICES ASSUME ~(Weight(a, proofs2, elapsed2, met2) >= a.threshold) PROVE FALSE
      OBVIOUS
    <2>1. PICK c \in Refers(a, "group") : c \in DOMAIN m.groups /\ met1[c] /\ ~met2[c]
      BY <1>4, LostGroup
    <2> QED
      BY <2>1, <1>3
  <1> QED
    BY <1>5 DEF Evaluate, met2

\* What is met without a proof and at once rests on a group that is.
LEMMA FreeGroup ==
    ASSUME NEW m, NEW a, AuthorityOf(a, m), NEW met, Weight(a, {}, 0, met) >= a.threshold
    PROVE  \E c \in Refers(a, "group") : c \in DOMAIN m.groups /\ met[c]
  <1>1. AuthoritySound(a)
    BY DEF AuthorityOf
  <1>2. PICK i \in DOMAIN a.factors : Satisfied(a.factors[i], {}, 0, met)
    BY <1>1, NoWeight
  <1>3. a.factors[i].kind = "wait" => ~(0 >= a.factors[i].of)
    <2>1. a.factors[i].kind = "wait" => a.factors[i].of \in 1 .. MaxWaitCap
      BY <1>1 DEF AuthoritySound, FactorSound
    <2> QED
      BY <2>1, InventoryAssumption
  <1>4. a.factors[i].kind = "group" /\ met[a.factors[i].of]
    BY <1>2, <1>3 DEF Satisfied
  <1> QED
    BY <1>4, FactorsGroup

\* With no proof and no time elapsed, no authority of an acyclic sound policy is met.
LEMMA EvaluateIsNotFree ==
    ASSUME NEW m, PolicySound(m), Acyclic(m), NEW a, AuthorityOf(a, m)
    PROVE  ~Evaluate(m, a, {}, 0)
  <1> SUFFICES ASSUME Evaluate(m, a, {}, 0) PROVE FALSE
    OBVIOUS
  <1> DEFINE met == Groups(m, {}, 0)
             X == {g \in DOMAIN m.groups : met[g]}
  <1>1. \A g \in DOMAIN m.groups :
            met[g] <=> Weight(m.groups[g], {}, 0, met) >= m.groups[g].threshold
    BY GroupsMet
  <1>2. Weight(a, {}, 0, met) >= a.threshold
    BY DEF Evaluate
  <1> HIDE DEF met
  <1>3. ASSUME NEW g \in X PROVE Children(m, g) \cap X # {}
    <2>1. AuthorityOf(m.groups[g], m) /\ Weight(m.groups[g], {}, 0, met) >= m.groups[g].threshold
      BY <1>1, GroupIsOf
    <2>2. PICK c \in Children(m, g) : c \in DOMAIN m.groups /\ met[c]
      BY <2>1, FreeGroup DEF Children
    <2> QED
      BY <2>2
  <1>4. Knot(m, X) /\ X \in SUBSET DOMAIN m.groups
    BY <1>3 DEF Knot
  <1>5. PICK c \in Refers(a, "group") : c \in DOMAIN m.groups /\ met[c]
    BY <1>2, FreeGroup
  <1>6. c \in X
    BY <1>5
  <1> HIDE DEF X
  <1> QED
    BY <1>4, <1>5, <1>6 DEF Acyclic, Unknotted

(***************************************************************************)
(* The longest wait.                                                        *)
(***************************************************************************)

\* Every wait of an authority and of the groups it reaches is within MaxWait.
LEMMA WaitsFit ==
    ASSUME NEW m, PolicySound(m), NEW a, AuthorityOf(a, m)
    PROVE  /\ MaxWait(m, a) \in Nat
           /\ \A w \in Refers(a, "wait") : w \in Nat /\ w <= MaxWait(m, a)
           /\ \A g \in Reached(m, a) :
                 \A w \in Refers(m.groups[g], "wait") : w \in Nat /\ w <= MaxWait(m, a)
  <1> DEFINE T == {0} \union Refers(a, "wait")
                      \union UNION {Refers(m.groups[g], "wait") : g \in Reached(m, a)}
  <1>1. ASSUME NEW b, AuthoritySound(b) PROVE Refers(b, "wait") \subseteq 0 .. MaxWaitCap
    <2>1. \A i \in DOMAIN b.factors : b.factors[i].kind = "wait" => b.factors[i].of \in 1 .. MaxWaitCap
      BY <1>1 DEF AuthoritySound, FactorSound
    <2>2. 1 .. MaxWaitCap \subseteq 0 .. MaxWaitCap
      BY InventoryAssumption
    <2> QED
      BY <2>1, <2>2 DEF Refers
  <1>2. Refers(a, "wait") \subseteq 0 .. MaxWaitCap
    BY <1>1 DEF AuthorityOf
  <1>3. \A g \in Reached(m, a) : Refers(m.groups[g], "wait") \subseteq 0 .. MaxWaitCap
    BY <1>1, ReachedIsClosed DEF PolicySound
  <1>4. T \subseteq 0 .. MaxWaitCap
    BY <1>2, <1>3, InventoryAssumption
  <1>5. T \in SUBSET Nat /\ T # {} /\ \A w \in T : w <= MaxWaitCap
    BY <1>4, InventoryAssumption
  <1>6. MaxWait(m, a) = Max(T)
    BY DEF MaxWait
  <1>7. Refers(a, "wait") \subseteq T /\ \A g \in Reached(m, a) : Refers(m.groups[g], "wait") \subseteq T
    OBVIOUS
  <1> HIDE DEF T
  <1>8. Max(T) \in T /\ \A w \in T : w <= Max(T)
    BY <1>5, MaxIsLargest, InventoryAssumption
  <1> QED
    BY <1>5, <1>6, <1>7, <1>8

\* With every proof and after every wait, only a group can be missing.
LEMMA MissingGroup ==
    ASSUME NEW m, NEW a, AuthorityOf(a, m), NEW proofs, Refers(a, "authenticator") \subseteq proofs,
           NEW elapsed \in Nat, \A w \in Refers(a, "wait") : w \in Nat /\ w <= elapsed,
           NEW met, ~(Weight(a, proofs, elapsed, met) >= a.threshold)
    PROVE  \E c \in Refers(a, "group") : c \in DOMAIN m.groups /\ ~met[c]
  <1>1. AuthoritySound(a)
    BY DEF AuthorityOf
  <1>2. PICK i \in DOMAIN a.factors : ~Satisfied(a.factors[i], proofs, elapsed, met)
    BY <1>1, FullWeight
  <1>3. a.factors[i].kind \in {"authenticator", "group", "wait"}
    BY <1>1 DEF AuthoritySound, FactorSound
  <1>4. a.factors[i].of \in Refers(a, a.factors[i].kind)
    BY DEF Refers
  <1>5. CASE a.factors[i].kind = "authenticator"
    BY <1>2, <1>4, <1>5 DEF Satisfied
  <1>6. CASE a.factors[i].kind = "wait"
    <2>1. a.factors[i].of \in Nat /\ a.factors[i].of <= elapsed
      BY <1>4, <1>6
    <2>2. elapsed >= a.factors[i].of
      BY <2>1
    <2> QED
      BY <1>2, <1>6, <2>2 DEF Satisfied
  <1>7. CASE a.factors[i].kind = "group"
    <2>1. ~met[a.factors[i].of]
      BY <1>2, <1>7 DEF Satisfied
    <2> QED
      BY <1>7, <2>1, FactorsGroup
  <1> QED
    BY <1>3, <1>5, <1>6, <1>7

\* With every proof in and the longest wait over, each authority of such a policy is met.
LEMMA EvaluateIsReachable ==
    ASSUME NEW m, PolicySound(m), Acyclic(m), NEW a, AuthorityOf(a, m), NEW proofs,
           Refers(a, "authenticator") \subseteq proofs,
           \A g \in DOMAIN m.groups : Refers(m.groups[g], "authenticator") \subseteq proofs,
           NEW elapsed \in Nat, MaxWait(m, a) <= elapsed
    PROVE  Evaluate(m, a, proofs, elapsed)
  <1> DEFINE met == Groups(m, proofs, elapsed)
             X == {g \in Reached(m, a) : ~met[g]}
  <1>1. \A g \in DOMAIN m.groups :
            met[g] <=> Weight(m.groups[g], proofs, elapsed, met) >= m.groups[g].threshold
    BY GroupsMet
  <1> HIDE DEF met
  <1>2. /\ \A w \in Refers(a, "wait") : w \in Nat /\ w <= elapsed
        /\ \A g \in Reached(m, a) : \A w \in Refers(m.groups[g], "wait") : w \in Nat /\ w <= elapsed
    <2>1. /\ MaxWait(m, a) \in Nat
          /\ \A w \in Refers(a, "wait") : w \in Nat /\ w <= MaxWait(m, a)
          /\ \A g \in Reached(m, a) :
                \A w \in Refers(m.groups[g], "wait") : w \in Nat /\ w <= MaxWait(m, a)
      BY WaitsFit
    <2> QED
      BY <2>1
  <1>3. /\ Reached(m, a) \subseteq DOMAIN m.groups
        /\ Refers(a, "group") \subseteq Reached(m, a)
        /\ \A g \in Reached(m, a) : Children(m, g) \subseteq Reached(m, a)
    BY ReachedIsClosed DEF AuthorityOf, PolicySound
  <1>4. ASSUME NEW g \in X PROVE Children(m, g) \cap X # {}
    <2>1. g \in Reached(m, a) /\ g \in DOMAIN m.groups
      BY <1>3
    <2>2. AuthorityOf(m.groups[g], m) /\ ~(Weight(m.groups[g], proofs, elapsed, met) >= m.groups[g].threshold)
      BY <1>1, <2>1, GroupIsOf
    <2>3. PICK c \in Children(m, g) : c \in DOMAIN m.groups /\ ~met[c]
      BY <1>2, <2>1, <2>2, MissingGroup DEF Children
    <2> QED
      BY <2>1, <2>3, <1>3
  <1>5. X = {}
    <2>1. Knot(m, X) /\ X \in SUBSET DOMAIN m.groups
      BY <1>3, <1>4 DEF Knot
    <2> HIDE DEF X
    <2> QED
      BY <2>1 DEF Acyclic, Unknotted
  <1>6. Weight(a, proofs, elapsed, met) >= a.threshold
    <2> SUFFICES ASSUME ~(Weight(a, proofs, elapsed, met) >= a.threshold) PROVE FALSE
      OBVIOUS
    <2>1. PICK c \in Refers(a, "group") : c \in DOMAIN m.groups /\ ~met[c]
      BY <1>2, MissingGroup
    <2> QED
      BY <2>1, <1>3, <1>5
  <1> QED
    BY <1>6 DEF Evaluate, met

(***************************************************************************)
(* The policy of a file.                                                    *)
(***************************************************************************)

\* from_spec, but for the cycle check.
PolicyOK ==
    /\ AuthenticatorsOK(inventory.approval)
    /\ AuthoritiesOK(inventory.approval)
    /\ RefsOK(Model)

\* Every entry of a table is built from a body that was let through.
LEMMA TableIsSound ==
    ASSUME NEW entries, \A i \in DOMAIN entries : BodyParsed(entries[i]) /\ Builds(entries[i].id, entries[i]),
           NEW id \in DOMAIN Table(entries)
    PROVE  AuthoritySound(Table(entries)[id])
  <1>1. id \in Ids(entries)
    BY DEF Table
  <1> DEFINE i == CHOOSE j \in DOMAIN entries : entries[j].id = id
  <1>2. i \in DOMAIN entries
    BY <1>1 DEF Ids
  <1>3. Table(entries)[id] = BuildAuthority(entries[i])
    BY <1>1 DEF Table
  <1> HIDE DEF i
  <1> QED
    BY <1>2, <1>3, BuiltIsSound

\* The policy from_spec accepted is sound, and names only authenticators it declares.
LEMMA PolicyIsSound ==
    ASSUME inventory \in Inventories, PolicyOK
    PROVE  /\ PolicySound(Model)
           /\ \A p \in DOMAIN Model.profiles : AuthorityOf(Model.profiles[p], Model)
           /\ \A g \in DOMAIN Model.groups :
                 Refers(Model.groups[g], "authenticator") \subseteq Model.authenticators
           /\ \A p \in DOMAIN Model.profiles :
                 Refers(Model.profiles[p], "authenticator") \subseteq Model.authenticators
  <1>1. Parsed(inventory)
    BY ParsedAssumption
  <1>2. /\ Model.groups = Table(inventory.approval.group)
        /\ Model.profiles = Table(inventory.approval.profile)
    BY DEF Model, ModelOf
  <1>3. \A g \in DOMAIN Model.groups : AuthoritySound(Model.groups[g])
    <2>1. \A i \in DOMAIN inventory.approval.group :
              /\ BodyParsed(inventory.approval.group[i])
              /\ Builds(inventory.approval.group[i].id, inventory.approval.group[i])
      BY <1>1 DEF Parsed, BodyParsed, PolicyOK, AuthoritiesOK
    <2> QED
      BY <1>2, <2>1, TableIsSound
  <1>4. \A p \in DOMAIN Model.profiles : AuthoritySound(Model.profiles[p])
    <2>1. \A i \in DOMAIN inventory.approval.profile :
              /\ BodyParsed(inventory.approval.profile[i])
              /\ Builds(inventory.approval.profile[i].id, inventory.approval.profile[i])
      BY <1>1 DEF Parsed, BodyParsed, PolicyOK, AuthoritiesOK
    <2> QED
      BY <1>2, <2>1, TableIsSound
  <1>5. /\ \A g \in DOMAIN Model.groups : CheckRefs(Model, Model.groups[g])
        /\ \A p \in DOMAIN Model.profiles : CheckRefs(Model, Model.profiles[p])
    BY DEF PolicyOK, RefsOK
  <1> QED
    BY <1>3, <1>4, <1>5 DEF PolicySound, Resolved, Children, AuthorityOf, CheckRefs

(***************************************************************************)
(* The invariant.                                                           *)
(***************************************************************************)
AllAccessOK == \A i \in DOMAIN inventory.hosts : AccessOK(inventory.hosts[i])

\* The request is one that open lets in on the host.
AskedOf(h) ==
    /\ request.host = h.name
    /\ Resolvable(h, request.profile)
    /\ MaxWait(Model, ResolveAuthority(h, request.profile)) < ApprovalWindow

\* How far the load has come, and what it has seen to be right.
LoadInv ==
    /\ inventory \in Inventories
    /\ phase \in Phases
    /\ phase \in {"policy", "cycles", "cyclic", "access", "serving"} => HostsOK
    /\ phase \in {"policy", "cycles", "cyclic"} => inventory.approval.present
    /\ phase \in {"cycles", "cyclic", "access", "serving"} /\ inventory.approval.present => PolicyOK
    /\ phase = "cycles" => SearchInv(search, Model)
    /\ phase = "cyclic" => Cyclic
    /\ phase \in {"access", "serving"} /\ inventory.approval.present => Acyclic(Model)
    /\ phase = "serving" => AllAccessOK
    /\ \A g \in DOMAIN search.colour : search.colour[g] \in {"white", "grey", "black"}

RequestInv ==
    request # NoRequest =>
        /\ phase = "serving" /\ inventory.approval.present
        /\ request = [host |-> request.host, profile |-> request.profile,
                      proofs |-> request.proofs, elapsed |-> request.elapsed]
        /\ request.proofs \subseteq Ids(inventory.approval.authenticator)
        /\ request.elapsed \in Nat /\ request.elapsed < ApprovalWindow
        /\ \E i \in DOMAIN inventory.hosts : AskedOf(inventory.hosts[i])

\* Nothing changes the file.
LEMMA SameFile ==
    ASSUME inventory' = inventory
    PROVE  /\ Model' = Model
           /\ HostsOK' <=> HostsOK
           /\ PolicyOK' <=> PolicyOK
           /\ Cyclic' <=> Cyclic
           /\ AllAccessOK' <=> AllAccessOK
  <1>1. Model' = Model
    BY DEF Model
  <1>2. HostsOK' <=> HostsOK
    BY DEF HostsOK, HostOK, SshOK, BmcOK, VncOK, GenericOK, DeviceOK, EmbeddedOK
  <1>3. PolicyOK' <=> PolicyOK
    BY <1>1 DEF PolicyOK
  <1>4. Cyclic' <=> Cyclic
    BY <1>1 DEF Cyclic
  <1>5. AllAccessOK' <=> AllAccessOK
    BY <1>1 DEF AllAccessOK, AccessOK
  <1> QED
    BY <1>1, <1>2, <1>3, <1>4, <1>5

\* Loading starts with the invariants true: no phase has established anything yet.
LEMMA LoadInit == Init => LoadInv /\ RequestInv
  BY DEF Init, LoadInv, RequestInv, Phases

\* Every phase of the load, and every step of a request after it, keeps LoadInv.
LEMMA LoadNext == LoadInv /\ RequestInv /\ [Next]_vars => LoadInv'
  <1> SUFFICES ASSUME LoadInv, RequestInv, [Next]_vars PROVE LoadInv'
    OBVIOUS
  <1> USE DEF LoadInv
  <1>1. ASSUME ValidateHosts PROVE LoadInv'
    <2>1. inventory' = inventory /\ search' = search
      BY <1>1 DEF ValidateHosts
    <2> QED
      BY <1>1, <2>1, SameFile DEF ValidateHosts, Phases
  <1>2. ASSUME FromSpec PROVE LoadInv'
    <2>1. inventory' = inventory
      BY <1>2 DEF FromSpec
    <2>2. CASE PolicyOK
      <3>1. phase' = "cycles" /\ search' = NewSearch(Model)
        BY <1>2, <2>2 DEF FromSpec, PolicyOK, Model
      <3>2. SearchInv(search', Model')
        BY <2>1, <3>1, SameFile, NewSearchOK
      <3>3. \A g \in DOMAIN search'.colour : search'.colour[g] \in {"white", "grey", "black"}
        BY <3>1 DEF NewSearch
      <3> QED
        BY <1>2, <2>1, <2>2, <3>1, <3>2, <3>3, SameFile DEF FromSpec, Phases
    <2>3. CASE ~PolicyOK
      <3>1. phase' = "refused" /\ search' = search
        BY <1>2, <2>3 DEF FromSpec, PolicyOK, Model
      <3> QED
        BY <2>1, <3>1 DEF Phases
    <2> QED
      BY <2>2, <2>3
  <1>s. ASSUME phase = "cycles"
        PROVE  /\ inventory.approval.present /\ PolicyOK /\ HostsOK
               /\ SearchInv(search, Model)
               /\ Resolved(Model)
               /\ \A g \in DOMAIN Model.groups : Listed(Model.groups[g])
    BY <1>s, PolicyIsSound DEF PolicySound, AuthoritySound
  <1>c. ASSUME SearchInv(search', Model'), phase' = "cycles", phase = "cycles", inventory' = inventory
        PROVE  LoadInv'
    <2>1. \A g \in DOMAIN search'.colour : search'.colour[g] \in {"white", "grey", "black"}
      BY <1>c DEF SearchInv, Coloured
    <2> QED
      BY <1>c, <2>1, <1>s, SameFile
  <1>3. ASSUME StartSearch PROVE LoadInv'
    <2>1. phase = "cycles" /\ inventory' = inventory /\ search.stack = <<>>
      BY <1>3 DEF StartSearch
    <2>2. CASE Roots(search) = {} /\ phase' = "access" /\ search' = search
      <3>1. Acyclic(Model)
        BY <2>1, <2>2, <1>s, DoneIsAcyclic
      <3> QED
        BY <2>1, <2>2, <3>1, <1>s, SameFile DEF Phases
    <2>3. CASE (\E g \in Roots(search) : search' = StartAt(search, g)) /\ phase' = phase
      <3>1. SearchInv(search', Model')
        BY <2>1, <2>3, <1>s, SameFile, StartOK
      <3> QED
        BY <2>1, <2>3, <3>1, <1>c
    <2> QED
      BY <1>3, <2>2, <2>3 DEF StartSearch
  <1>4. ASSUME EnterGroup PROVE LoadInv'
    <2>1. phase = "cycles" /\ inventory' = inventory /\ search.stack # <<>> /\ Last(search.stack)[2]
      BY <1>4 DEF EnterGroup
    <2>2. CASE BackEdge(search, Model)
      <3>1. phase' = "cyclic" /\ search' = search
        BY <1>4, <2>2 DEF EnterGroup
      <3>2. Cyclic
        BY <2>1, <2>2, <1>s, BackEdgeIsCycle DEF Cyclic
      <3> QED
        BY <2>1, <3>1, <3>2, <1>s, SameFile DEF Phases
    <2>3. CASE ~BackEdge(search, Model)
      <3>1. phase' = phase /\ search' = Enter(search, Model)
        BY <1>4, <2>3 DEF EnterGroup
      <3>2. SearchInv(search', Model')
        BY <2>1, <2>3, <3>1, <1>s, SameFile, EnterOK
      <3> QED
        BY <2>1, <3>1, <3>2, <1>c
    <2> QED
      BY <2>2, <2>3
  <1>5. ASSUME LeaveGroup PROVE LoadInv'
    <2>1. /\ phase = "cycles" /\ inventory' = inventory /\ phase' = phase
          /\ search.stack # <<>> /\ ~Last(search.stack)[2] /\ search' = Leave(search)
      BY <1>5 DEF LeaveGroup
    <2>2. SearchInv(search', Model')
      BY <2>1, <1>s, SameFile, LeaveOK
    <2> QED
      BY <2>1, <2>2, <1>c
  <1>6. ASSUME CheckAccess PROVE LoadInv'
    <2>1. /\ phase = "access" /\ inventory' = inventory /\ search' = search
          /\ phase' = IF AllAccessOK THEN "serving" ELSE "refused"
      BY <1>6 DEF CheckAccess, AllAccessOK
    <2> QED
      BY <2>1, SameFile DEF Phases
  <1>7. ASSUME UNCHANGED <<inventory, phase, search>> PROVE LoadInv'
    BY <1>7, SameFile
  <1>8. ASSUME NEW h, NEW p, Open(h, p) PROVE LoadInv'
    BY <1>7, <1>8 DEF Open
  <1>9. ASSUME NEW a, Prove(a) PROVE LoadInv'
    BY <1>7, <1>9 DEF Prove
  <1>10. ASSUME Wait PROVE LoadInv'
    BY <1>7, <1>10 DEF Wait
  <1>11. ASSUME Rest \/ UNCHANGED vars PROVE LoadInv'
    BY <1>7, <1>11 DEF Rest, vars
  <1> HIDE DEF LoadInv
  <1> QED
    BY <1>1, <1>2, <1>3, <1>4, <1>5, <1>6, <1>8, <1>9, <1>10, <1>11 DEF Next, Loading

\* A name is of one host.
LEMMA HostByName ==
    ASSUME HostsOK, NEW i \in DOMAIN inventory.hosts
    PROVE  Host(inventory.hosts[i].name) = inventory.hosts[i]
  <1> DEFINE j == CHOOSE k \in DOMAIN inventory.hosts : inventory.hosts[k].name = inventory.hosts[i].name
  <1>1. j \in DOMAIN inventory.hosts /\ inventory.hosts[j].name = inventory.hosts[i].name
    OBVIOUS
  <1>2. Host(inventory.hosts[i].name) = inventory.hosts[j]
    BY DEF Host
  <1> HIDE DEF j
  <1>3. j = i
    BY <1>1 DEF HostsOK
  <1> QED
    BY <1>2, <1>3

\* Every step keeps what open saw.
LEMMA RequestNext == LoadInv /\ RequestInv /\ [Next]_vars => RequestInv'
  <1> SUFFICES ASSUME LoadInv, RequestInv, [Next]_vars PROVE RequestInv'
    OBVIOUS
  <1>1. ASSUME phase # "serving", request' = request PROVE RequestInv'
    BY <1>1 DEF RequestInv
  <1>2. ASSUME Loading PROVE RequestInv'
    <2>1. phase # "serving" /\ request' = request
      BY <1>2 DEF Loading, ValidateHosts, FromSpec, StartSearch, EnterGroup, LeaveGroup, CheckAccess
    <2> QED
      BY <2>1, <1>1
  <1>3. ASSUME NEW i \in DOMAIN inventory.hosts, NEW p, Open(inventory.hosts[i], p) PROVE RequestInv'
    <2> DEFINE h == inventory.hosts[i]
    <2>1. /\ phase = "serving" /\ inventory.approval.present /\ Resolvable(h, p)
          /\ MaxWait(Model, ResolveAuthority(h, p)) < ApprovalWindow
          /\ request' = [host |-> h.name, profile |-> p, proofs |-> {}, elapsed |-> 0]
          /\ inventory' = inventory /\ phase' = phase
      BY <1>3 DEF Open
    <2>a. h' = h /\ i \in DOMAIN inventory'.hosts
      BY <2>1
    <2> HIDE DEF h
    <2>2. request'.host = h.name /\ request'.profile = p /\ request'.proofs = {} /\ request'.elapsed = 0
      BY <2>1
    <2>3. AskedOf(h)'
      BY <2>1, <2>2, <2>a, SameFile DEF AskedOf, Resolvable, PermittedProfiles, ResolveAuthority
    <2>4. AskedOf(inventory.hosts[i])'
      BY <2>3 DEF h
    <2>5. \E k \in DOMAIN inventory'.hosts : AskedOf(inventory.hosts[k])'
      BY <2>a, <2>4
    <2>6. 0 \in Nat /\ 0 < ApprovalWindow
      BY InventoryAssumption
    <2> QED
      BY <2>1, <2>2, <2>5, <2>6 DEF RequestInv
  <1>4. ASSUME request # NoRequest, inventory' = inventory, phase' = phase,
               request'.host = request.host, request'.profile = request.profile,
               request' = [host |-> request'.host, profile |-> request'.profile,
                           proofs |-> request'.proofs, elapsed |-> request'.elapsed],
               request'.proofs \subseteq Ids(inventory.approval.authenticator),
               request'.elapsed \in Nat, request'.elapsed < ApprovalWindow
        PROVE  RequestInv'
    <2>1. PICK i \in DOMAIN inventory.hosts : AskedOf(inventory.hosts[i])
      BY <1>4 DEF RequestInv
    <2>2. AskedOf(inventory.hosts[i])'
      <3> DEFINE h == inventory.hosts[i]
      <3>1. AskedOf(h)
        BY <2>1
      <3>2. h' = h
        BY <1>4
      <3> HIDE DEF h
      <3>3. AskedOf(h)'
        BY <1>4, <3>1, <3>2, SameFile DEF AskedOf, Resolvable, PermittedProfiles, ResolveAuthority
      <3> QED
        BY <3>3 DEF h
    <2> QED
      BY <1>4, <2>1, <2>2 DEF RequestInv
  <1>5. ASSUME NEW a \in Ids(inventory.approval.authenticator), Prove(a) PROVE RequestInv'
    <2>1. /\ request # NoRequest /\ inventory' = inventory /\ phase' = phase
          /\ request' = [request EXCEPT !.proofs = @ \union {a}]
      BY <1>5 DEF Prove
    <2>2. /\ request = [host |-> request.host, profile |-> request.profile,
                        proofs |-> request.proofs, elapsed |-> request.elapsed]
          /\ request.proofs \subseteq Ids(inventory.approval.authenticator)
          /\ request.elapsed \in Nat /\ request.elapsed < ApprovalWindow
      BY <2>1 DEF RequestInv
    <2>3. request' = [host |-> request.host, profile |-> request.profile,
                      proofs |-> request.proofs \union {a}, elapsed |-> request.elapsed]
      BY <2>1, <2>2
    <2>4. /\ request'.host = request.host /\ request'.profile = request.profile
          /\ request'.proofs = request.proofs \union {a} /\ request'.elapsed = request.elapsed
      BY <2>3
    <2> QED
      BY <2>1, <2>2, <2>3, <2>4, <1>4
  <1>6. ASSUME Wait PROVE RequestInv'
    <2>1. request # NoRequest /\ inventory' = inventory /\ phase' = phase
      BY <1>6 DEF Wait
    <2>2. CASE request' = NoRequest
      BY <2>2 DEF RequestInv
    <2>3. CASE request' # NoRequest
      <3>1. request.elapsed + 1 < ApprovalWindow /\ request' = [request EXCEPT !.elapsed = @ + 1]
        BY <1>6, <2>3 DEF Wait
      <3>2. /\ request = [host |-> request.host, profile |-> request.profile,
                          proofs |-> request.proofs, elapsed |-> request.elapsed]
            /\ request.proofs \subseteq Ids(inventory.approval.authenticator)
            /\ request.elapsed \in Nat
        BY <2>1 DEF RequestInv
      <3>3. request' = [host |-> request.host, profile |-> request.profile,
                        proofs |-> request.proofs, elapsed |-> request.elapsed + 1]
        BY <3>1, <3>2
      <3>4. /\ request'.host = request.host /\ request'.profile = request.profile
            /\ request'.proofs = request.proofs /\ request'.elapsed = request.elapsed + 1
        BY <3>3
      <3>5. request'.elapsed \in Nat /\ request'.elapsed < ApprovalWindow
        BY <3>1, <3>2, <3>4
      <3> QED
        BY <2>1, <3>2, <3>3, <3>4, <3>5, <1>4
    <2> QED
      BY <2>2, <2>3
  <1>7. ASSUME Rest \/ UNCHANGED vars PROVE RequestInv'
    <2>1. inventory' = inventory /\ phase' = phase /\ request' = request
      BY <1>7 DEF Rest, vars
    <2>2. CASE request = NoRequest
      BY <2>1, <2>2 DEF RequestInv
    <2>3. CASE request # NoRequest
      BY <2>1, <2>3, <1>4 DEF RequestInv
    <2> QED
      BY <2>2, <2>3
  <1> QED
    BY <1>2, <1>3, <1>5, <1>6, <1>7 DEF Next

\* The invariant holds of every run.
LEMMA LoadAlways == Spec => [](LoadInv /\ RequestInv)
  BY LoadInit, LoadNext, RequestNext, PTL DEF Spec

(***************************************************************************)
(* The theorems.                                                            *)
(***************************************************************************)

\* The load and the request have their types.
THEOREM LoadTypeCorrect == Spec => []TypeOK
  <1>1. LoadInv /\ RequestInv => TypeOK
    <2> SUFFICES ASSUME LoadInv, RequestInv PROVE TypeOK
      OBVIOUS
    <2>1. request.elapsed \in 0 .. ApprovalWindow
      <3>1. CASE request = NoRequest
        <4>1. request.elapsed = 0
          BY <3>1 DEF NoRequest
        <4> QED
          BY <4>1, InventoryAssumption
      <3>2. CASE request # NoRequest
        BY <3>2, InventoryAssumption DEF RequestInv
      <3> QED
        BY <3>1, <3>2
    <2>2. request.proofs \subseteq Ids(inventory.approval.authenticator)
      <3>1. NoRequest.proofs = {}
        BY DEF NoRequest
      <3> QED
        BY <3>1 DEF RequestInv
    <2> QED
      BY <2>1, <2>2 DEF LoadInv, TypeOK
  <1> QED
    BY <1>1, LoadAlways, PTL

\* check_group_acyclic refuses exactly the policies with a group that reaches
\* itself, whatever order its stack visits the groups in.
THEOREM CyclesAreRefused == Spec => []CycleVerdict
  <1>1. LoadInv => CycleVerdict
    <2> SUFFICES ASSUME LoadInv PROVE CycleVerdict
      OBVIOUS
    <2>1. ASSUME phase \in {"access", "serving"}, inventory.approval.present PROVE ~Cyclic
      <3>1. inventory \in Inventories /\ PolicyOK /\ Acyclic(Model)
        BY <2>1 DEF LoadInv
      <3>2. Resolved(Model)
        BY <3>1, PolicyIsSound DEF PolicySound
      <3> QED
        BY <3>1, <3>2, UnknottedIsAcyclic DEF Cyclic
    <2> QED
      BY <2>1 DEF LoadInv, CycleVerdict
  <1> QED
    BY <1>1, LoadAlways, PTL

\* What validate() accepts can be served: the sections the drivers read are
\* there, no two tunnels share a port, and every permitted profile resolves.
THEOREM AcceptedCanBeServed == Spec => []AcceptedIsServable
  <1>1. LoadInv => AcceptedIsServable
    <2> SUFFICES ASSUME LoadInv, phase = "serving" PROVE AcceptedIsServable
      BY DEF AcceptedIsServable
    <2>1. inventory \in Inventories /\ HostsOK /\ AllAccessOK
      BY DEF LoadInv
    <2>2. ASSUME NEW i \in DOMAIN inventory.hosts PROVE HostOK(inventory.hosts[i])
      BY <2>1 DEF HostsOK
    <2>3. ASSUME NEW i \in DOMAIN inventory.hosts, NEW c \in ToSet(inventory.hosts[i].channels)
          PROVE  (IF c = "authorized-keys" THEN "ssh" ELSE c) \in inventory.hosts[i].sections
      <3> DEFINE h == inventory.hosts[i]
      <3>1. h.channels \in Seq(ChannelNames)
        BY <2>1, ParsedAssumption DEF Parsed
      <3>2. HostOK(h)
        BY <2>2
      <3> HIDE DEF h
      <3>3. PICK k \in 1 .. Len(h.channels) : c = h.channels[k]
        BY <2>3, <3>1 DEF ToSet, h
      <3>4. c \in ChannelNames /\ Has(h, c)
        BY <3>1, <3>3 DEF Has, Contains
      <3>5. (IF c = "authorized-keys" THEN "ssh" ELSE c) \in h.sections
        BY <3>2, <3>4 DEF ChannelNames, HostOK, SshOK, BmcOK, VncOK, GenericOK, DeviceOK, Paired
      <3> QED
        BY <3>5 DEF h
    <2>4. ASSUME NEW i \in DOMAIN inventory.hosts, NEW j \in DOMAIN inventory.hosts, i # j,
                 {"vnc"} \subseteq inventory.hosts[i].sections \cap inventory.hosts[j].sections
          PROVE  inventory.hosts[i].localPort # inventory.hosts[j].localPort
      <3>1. VncOK(inventory.hosts[i]) /\ VncOK(inventory.hosts[j])
        BY <2>2 DEF HostOK
      <3>2. Has(inventory.hosts[i], "vnc") /\ Has(inventory.hosts[j], "vnc")
        BY <2>4, <3>1 DEF VncOK, Paired
      <3> QED
        BY <2>1, <2>4, <3>2 DEF HostsOK
    <2>5. ASSUME NEW i \in DOMAIN inventory.hosts, NEW p \in PermittedProfiles(inventory.hosts[i])
          PROVE  Resolvable(inventory.hosts[i], p)
      <3>1. AccessOK(inventory.hosts[i])
        BY <2>1 DEF AllAccessOK
      <3> QED
        BY <2>5, <3>1 DEF AccessOK, Resolvable, PermittedProfiles
    <2> QED
      BY <2>3, <2>4, <2>5 DEF AcceptedIsServable
  <1> QED
    BY <1>1, LoadAlways, PTL

\* What evaluate works on while a request is pending.
Asked == ResolveAuthority(Host(request.host), request.profile)

\* A pending request's authority belongs to a sound policy and can be met in the window.
LEMMA PendingAuthority ==
    ASSUME LoadInv, RequestInv, request # NoRequest
    PROVE  /\ PolicySound(Model) /\ Acyclic(Model)
           /\ AuthorityOf(Asked, Model)
           /\ MaxWait(Model, Asked) < ApprovalWindow
           /\ Refers(Asked, "authenticator") \subseteq Model.authenticators
           /\ \A g \in DOMAIN Model.groups :
                 Refers(Model.groups[g], "authenticator") \subseteq Model.authenticators
  <1>1. inventory \in Inventories /\ HostsOK /\ PolicyOK /\ Acyclic(Model)
    BY DEF LoadInv, RequestInv
  <1>2. PICK i \in DOMAIN inventory.hosts : AskedOf(inventory.hosts[i])
    BY DEF RequestInv
  <1> DEFINE h == inventory.hosts[i]
             p == request.profile
  <1>3. Host(request.host) = h
    BY <1>1, <1>2, HostByName DEF AskedOf
  <1>4. Resolvable(h, p) /\ MaxWait(Model, ResolveAuthority(h, p)) < ApprovalWindow
    BY <1>2 DEF AskedOf
  <1>5. Asked = ResolveAuthority(h, p)
    BY <1>3 DEF Asked
  <1>6. AuthorityOf(Asked, Model) /\ Refers(Asked, "authenticator") \subseteq Model.authenticators
    <2>1. CASE h.access.present /\ p \in DOMAIN h.access.overrides
      <3> DEFINE body == h.access.overrides[p]
      <3>1. Asked = BuildAuthority(body) /\ ResolvesOverride(Model, p, body)
        BY <2>1, <1>4, <1>5 DEF ResolveAuthority, Resolvable
      <3>2. BodyParsed(body)
        BY <1>1, <2>1, ParsedAssumption DEF Parsed, BodyParsed
      <3> HIDE DEF body
      <3>3. AuthoritySound(Asked)
        BY <3>1, <3>2, BuiltIsSound DEF ResolvesOverride
      <3> QED
        BY <3>1, <3>3 DEF ResolvesOverride, CheckRefs, AuthorityOf
    <2>2. CASE ~(h.access.present /\ p \in DOMAIN h.access.overrides)
      <3>1. Asked = Model.profiles[p] /\ p \in DOMAIN Model.profiles
        BY <2>2, <1>4, <1>5 DEF ResolveAuthority, Resolvable
      <3> QED
        BY <3>1, <1>1, PolicyIsSound
    <2> QED
      BY <2>1, <2>2
  <1> QED
    BY <1>1, <1>4, <1>5, <1>6, PolicyIsSound

\* A policy that loads opens nothing without a proof and at once.
THEOREM NothingIsFree == Spec => []NothingForFree
  <1>1. LoadInv /\ RequestInv => NothingForFree
    <2> SUFFICES ASSUME LoadInv, RequestInv, request # NoRequest,
                        request.proofs = {}, request.elapsed = 0
                 PROVE  ~Met
      BY DEF NothingForFree, Pending
    <2>1. ~Evaluate(Model, Asked, {}, 0)
      BY PendingAuthority, EvaluateIsNotFree
    <2> QED
      BY <2>1 DEF Met, Asked
  <1> QED
    BY <1>1, LoadAlways, PTL

\* What open lets in can be met in its window.
THEOREM AdmittedIsApprovable == Spec => []Approvable
  <1>1. LoadInv /\ RequestInv => Approvable
    <2> SUFFICES ASSUME LoadInv, RequestInv, request # NoRequest,
                        request.proofs = Ids(inventory.approval.authenticator),
                        request.elapsed = ApprovalWindow - 1
                 PROVE  Met
      BY DEF Approvable, Pending
    <2>1. Model.authenticators = request.proofs
      BY DEF Model, ModelOf
    <2>2. MaxWait(Model, Asked) \in Nat
      BY PendingAuthority, WaitsFit
    <2>3. request.elapsed \in Nat /\ MaxWait(Model, Asked) <= request.elapsed
      BY <2>2, PendingAuthority, InventoryAssumption
    <2>4. Evaluate(Model, Asked, request.proofs, request.elapsed)
      BY <2>1, <2>3, PendingAuthority, EvaluateIsReachable
    <2> QED
      BY <2>4 DEF Met, Asked
  <1> QED
    BY <1>1, LoadAlways, PTL

\* No proof and no passing of time takes back that an authority is met.
THEOREM MetIsKept == Spec => MetStays
  <1>1. LoadInv /\ RequestInv /\ [Next]_vars => [Pending /\ Met /\ request' # NoRequest => Met']_vars
    <2> SUFFICES ASSUME LoadInv, RequestInv, [Next]_vars, request # NoRequest, Met,
                        request' # NoRequest
                 PROVE  Met'
      BY DEF Pending
    <2>1. /\ inventory' = inventory
          /\ request'.host = request.host /\ request'.profile = request.profile
          /\ request.proofs \subseteq request'.proofs
          /\ request.elapsed \in Nat /\ request'.elapsed \in Nat /\ request.elapsed <= request'.elapsed
      <3>1. /\ request = [host |-> request.host, profile |-> request.profile,
                          proofs |-> request.proofs, elapsed |-> request.elapsed]
            /\ request.elapsed \in Nat /\ phase = "serving"
        BY DEF RequestInv
      <3>2. CASE Loading
        BY <3>1, <3>2 DEF Loading, ValidateHosts, FromSpec, StartSearch, EnterGroup, LeaveGroup, CheckAccess
      <3>3. ASSUME NEW h, NEW p PROVE ~Open(h, p)
        BY DEF Open
      <3>4. ASSUME NEW a, Prove(a)
            PROVE  /\ inventory' = inventory
                   /\ request' = [host |-> request.host, profile |-> request.profile,
                                  proofs |-> request.proofs \union {a}, elapsed |-> request.elapsed]
        BY <3>1, <3>4 DEF Prove
      <3>5. ASSUME Wait
            PROVE  /\ inventory' = inventory
                   /\ request' = [host |-> request.host, profile |-> request.profile,
                                  proofs |-> request.proofs, elapsed |-> request.elapsed + 1]
        BY <3>1, <3>5 DEF Wait
      <3>6. CASE Rest \/ UNCHANGED vars
        BY <3>1, <3>6 DEF Rest, vars
      <3>7. CASE \E a \in Ids(inventory.approval.authenticator) : Prove(a)
        BY <3>1, <3>4, <3>7
      <3>8. CASE Wait
        BY <3>1, <3>5, <3>8
      <3> QED
        BY <3>2, <3>3, <3>6, <3>7, <3>8 DEF Next
    <2>2. Evaluate(Model, Asked, request.proofs, request.elapsed)
      BY DEF Met, Asked
    <2>3. Evaluate(Model, Asked, request'.proofs, request'.elapsed)
      BY <2>1, <2>2, PendingAuthority, EvaluateGrows
    <2>4. Model' = Model /\ Asked' = Asked
      BY <2>1, SameFile DEF Asked, ResolveAuthority, Host
    <2>5. Evaluate(Model', Asked', request'.proofs, request'.elapsed)
      BY <2>3, <2>4
    <2> QED
      BY <2>5 DEF Met, Asked
  <1> QED
    BY <1>1, LoadAlways, PTL DEF Spec, MetStays
=============================================================================
