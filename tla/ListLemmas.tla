----------------------------- MODULE ListLemmas -----------------------------
(*****************************************************************************)
(* Lemmas about the list operators of the models: Filter of ListOps.tla, and *)
(* ToSet, InsertAt and RemoveAt of SequencesExt.  What a recursive function  *)
(* computes for every input is proved by a least counterexample (LeastNat).  *)
(*****************************************************************************)
EXTENDS ListOps, WellFoundedInduction, SequenceTheorems, TLAPS

\* Every nonempty set of naturals has a least element.  The induction of
\* this module goes through it: a least counterexample.
LEMMA LeastNat ==
  ASSUME NEW T \in SUBSET Nat, T # {}
  PROVE  \E n \in T : \A m \in T : n <= m
  <1> DEFINE R == {ss \in Nat \X Nat : ss[1] < ss[2]}
  <1>1. IsWellFoundedOn(R, Nat)
    <2>1. OpToRel(<, Nat) = R BY Zenon DEF OpToRel
    <2> QED BY <2>1, NatLessThanWellFounded, Zenon
  <1> HIDE DEF R
  <1>2. PICK x \in T : \A y \in T : <<y, x>> \notin R BY <1>1, WFMin
  <1>3. \A y \in T : ~(y < x) BY <1>2 DEF R
  <1> QED BY <1>3

FilterStep(s, S, g, n) == 
  /\ g[0] = <<>>
  /\ \A k \in 1..n : g[k] = IF s[k] \in S THEN Append(g[k - 1], s[k]) ELSE g[k - 1]

\* Filter is well defined: the function its definition chooses exists ...
LEMMA FilterExists ==
  ASSUME NEW A, NEW S, NEW s \in Seq(A), NEW n \in 0..Len(s)
  PROVE  \E g \in [0..n -> Seq(A)] : FilterStep(s, S, g, n)
  <1> DEFINE T == {m \in 0..Len(s) : ~\E g \in [0..m -> Seq(A)] : FilterStep(s, S, g, m)}
  <1> SUFFICES T = {} OBVIOUS
  <1> SUFFICES ASSUME T # {} PROVE FALSE OBVIOUS
  <1>0. T \in SUBSET Nat BY LenProperties
  <1>1. PICK m \in T : \A k \in T : m <= k BY <1>0, LeastNat
  <1>2. m # 0
    <2>1. [k \in 0..0 |-> <<>>] \in [0..0 -> Seq(A)] BY EmptySeq
    <2>2. FilterStep(s, S, [k \in 0..0 |-> <<>>], 0) BY DEF FilterStep
    <2> QED BY <2>1, <2>2
  <1>3. m \in 0..Len(s) /\ m - 1 \in 0..Len(s) /\ m - 1 \notin T
    BY <1>1, <1>2, LenProperties
  <1>4. PICK g \in [0..(m-1) -> Seq(A)] : FilterStep(s, S, g, m - 1) BY <1>3
  <1> DEFINE last == IF s[m] \in S THEN Append(g[m - 1], s[m]) ELSE g[m - 1]
             h == [k \in 0..m |-> IF k = m THEN last ELSE g[k]]
  <1>5. s[m] \in A BY <1>2, <1>3, ElementOfSeq
  <1>6. last \in Seq(A)
    <2>1. g[m - 1] \in Seq(A) BY <1>3, <1>4
    <2> QED BY <2>1, <1>5, AppendProperties
  <1>7. h \in [0..m -> Seq(A)] BY <1>3, <1>6, LenProperties
  <1>8. FilterStep(s, S, h, m) 
    <2>1. h[0] = <<>> BY <1>2, <1>3, <1>4 DEF FilterStep
    <2>2. ASSUME NEW k \in 1..m PROVE h[k] = IF s[k] \in S THEN Append(h[k - 1], s[k]) ELSE h[k - 1]
      <3>1. CASE k = m
        <4>1. h[m - 1] = g[m - 1] /\ h[m] = last BY <1>2, <1>3
        <4> QED BY <3>1, <4>1
      <3>2. CASE k # m
        <4>1. k \in 1..(m-1) /\ h[k] = g[k] /\ h[k - 1] = g[k - 1] BY <3>2, <1>3
        <4> QED BY <4>1, <1>4 DEF FilterStep
      <3> QED BY <3>1, <3>2
    <2> QED BY <2>1, <2>2 DEF FilterStep
  <1> QED BY <1>1, <1>7, <1>8

\* ... so Filter takes one element after the other.
LEMMA FilterDef ==
  ASSUME NEW A, NEW S, NEW s \in Seq(A)
  PROVE  \E g : /\ Filter(s, S) = g[Len(s)]
                /\ FilterStep(s, S, g, Len(s))
  <1> DEFINE body(g, k) == IF k = 0 THEN <<>>
                ELSE IF s[k] \in S THEN Append(g[k - 1], s[k]) ELSE g[k - 1]
             kept == CHOOSE g : g = [k \in 0..Len(s) |-> body(g, k)]
  <1>0. Len(s) \in Nat /\ Len(s) \in 0..Len(s) BY LenProperties
  <1>1. PICK g \in [0..Len(s) -> Seq(A)] : FilterStep(s, S, g, Len(s)) 
    <2> HIDE DEF body, kept
    <2> QED BY <1>0, FilterExists
  <1>2. g = [k \in 0..Len(s) |-> body(g, k)] 
    <2>1. \A k \in 0..Len(s) : g[k] = body(g, k)
      <3> SUFFICES ASSUME NEW k \in 0..Len(s) PROVE g[k] = body(g, k) OBVIOUS
      <3>1. CASE k = 0 BY <3>1, <1>1 DEF FilterStep
      <3>2. CASE k # 0 
        <4>1. k \in 1..Len(s) BY <3>2, <1>0
        <4> QED BY <4>1, <3>2, <1>1 DEF FilterStep
      <3> QED BY <3>1, <3>2
    <2> HIDE DEF body
    <2> QED BY <2>1
  <1>3. kept = [k \in 0..Len(s) |-> body(kept, k)] BY <1>2, Zenon
  <1>4. Filter(s, S) = kept[Len(s)] BY Zenon DEF Filter
  <1> HIDE DEF kept
  <1>5. FilterStep(s, S, kept, Len(s)) 
    <2>1. \A k \in 0..Len(s) : kept[k] = body(kept, k) 
       <3> HIDE DEF body
       <3> QED BY <1>3
    <2>2. kept[0] = <<>> BY <2>1, <1>0
    <2>3. ASSUME NEW k \in 1..Len(s) PROVE kept[k] = IF s[k] \in S THEN Append(kept[k - 1], s[k]) ELSE kept[k - 1]
      <3>1. k \in 0..Len(s) /\ k # 0 BY <1>0
      <3> QED BY <3>1, <2>1
    <2> QED BY <2>2, <2>3 DEF FilterStep
  <1> QED BY <1>4, <1>5

\* The elements of Filter(s, S) are those of s that are in S, each as often
\* as before.
LEMMA FilterProperties ==
  ASSUME NEW A, NEW S, NEW s \in Seq(A)
  PROVE  /\ Filter(s, S) \in Seq(A)
         /\ ToSet(Filter(s, S)) = ToSet(s) \cap S
         /\ IsInjective(s) => IsInjective(Filter(s, S))
  <1>1. PICK g : Filter(s, S) = g[Len(s)] /\ FilterStep(s, S, g, Len(s))
    BY FilterDef
  <1> DEFINE Good(k) == /\ g[k] \in Seq(A)
                        /\ \A x : (\E i \in 1..Len(g[k]) : g[k][i] = x) <=> x \in S /\ \E i \in 1..k : s[i] = x
                        /\ IsInjective(s) => \A i, j \in 1..Len(g[k]) : g[k][i] = g[k][j] => i = j
             T == {k \in 0..Len(s) : ~Good(k)}
  <1>2. Len(s) \in Nat /\ s \in [1..Len(s) -> A] BY LenProperties
  <1>3. T = {}
    <2> SUFFICES ASSUME T # {} PROVE FALSE OBVIOUS
    <2>1. PICK m \in T : \A k \in T : m <= k
      <3>1. T \in SUBSET Nat BY <1>2
      <3> HIDE DEF T
      <3> QED BY <3>1, LeastNat
    <2>2. m # 0
      <3>1. g[0] = <<>> BY <1>1 DEF FilterStep
      <3>2. Good(0) BY <3>1, EmptySeq
      <3> QED BY <2>1, <3>2
    <2>3. m \in 1..Len(s) /\ Good(m - 1)
      <3>1. m - 1 \in 0..Len(s) /\ m \in 1..Len(s) BY <1>2, <2>1, <2>2
      <3>2. m - 1 \notin T
        <4> HIDE DEF T
        <4> QED BY <3>1, <2>1
      <3> HIDE DEF Good
      <3> QED BY <3>1, <3>2
    <2>4. g[m] = IF s[m] \in S THEN Append(g[m - 1], s[m]) ELSE g[m - 1]
      BY <1>1, <2>3 DEF FilterStep
    <2>5. s[m] \in A BY <1>2, <2>3
    <2>6. Good(m)
      <3>1. CASE s[m] \notin S
        <4>1. \A x : x \in S => ((\E i \in 1..m : s[i] = x) <=> \E i \in 1..(m-1) : s[i] = x)
          BY <3>1, <2>3, <1>2
        <4> QED BY <3>1, <4>1, <2>3, <2>4
      <3>2. CASE s[m] \in S
        <4> DEFINE p == g[m - 1]
        <4>1. p \in Seq(A) /\ g[m] = Append(p, s[m]) BY <3>2, <2>3, <2>4
        <4>2. /\ g[m] \in Seq(A) /\ Len(p) \in Nat /\ Len(g[m]) = Len(p) + 1
              /\ \A i \in 1..Len(p) : g[m][i] = p[i]
              /\ g[m][Len(p) + 1] = s[m]
          <5> HIDE DEF p
          <5> QED BY <4>1, <2>5, AppendProperties, LenProperties
        <4>3. \A x : (\E i \in 1..Len(p) : p[i] = x) <=> x \in S /\ \E i \in 1..(m - 1) : s[i] = x
          BY <2>3
        <4>4. IsInjective(s) => \A i, j \in 1..Len(p) : p[i] = p[j] => i = j
          BY <2>3
        <4>h. m \in 1..Len(s) BY <2>3
        <4> HIDE DEF p
        <4>5. \A x : (\E i \in 1..Len(g[m]) : g[m][i] = x) <=> x \in S /\ \E i \in 1..m : s[i] = x
          <5> SUFFICES ASSUME NEW x PROVE (\E i \in 1..Len(g[m]) : g[m][i] = x) <=> x \in S /\ \E i \in 1..m : s[i] = x
            OBVIOUS
          <5>0. \A i : i \in 1..Len(g[m]) <=> i \in 1..Len(p) \/ i = Len(p) + 1
            BY <4>2
          <5>1. (\E i \in 1..Len(g[m]) : g[m][i] = x) <=> (\E i \in 1..Len(p) : p[i] = x) \/ x = s[m]
            BY <5>0, <4>2
          <5>2. (\E i \in 1..m : s[i] = x) <=> (\E i \in 1..(m-1) : s[i] = x) \/ x = s[m]
            BY <4>h, <1>2
          <5> QED BY <5>1, <5>2, <4>3, <3>2
        <4>6. ASSUME IsInjective(s), NEW i \in 1..Len(g[m]), NEW j \in 1..Len(g[m]), g[m][i] = g[m][j]
              PROVE i = j
          <5>0. ASSUME NEW k \in 1..(m - 1)
                PROVE  s[k] # s[m]
            <6>1. k \in DOMAIN s /\ m \in DOMAIN s /\ k # m
              BY <4>h, <1>2
            <6> QED BY <4>6, <6>1 DEF IsInjective
          <5>1. \A k \in 1..Len(p) : p[k] # s[m] BY <5>0, <4>3
          <5>2. CASE i \in 1..Len(p) /\ j \in 1..Len(p)
            BY <5>2, <4>2, <4>4, <4>6
          <5>3. CASE i = Len(p) + 1 /\ j = Len(p) + 1 BY <5>3
          <5>4. CASE i \in 1..Len(p) /\ j = Len(p) + 1 BY <5>4, <5>1, <4>2, <4>6
          <5>5. CASE j \in 1..Len(p) /\ i = Len(p) + 1 BY <5>5, <5>1, <4>2, <4>6
          <5> QED BY <5>2, <5>3, <5>4, <5>5, <4>2
        <4> QED BY <4>2, <4>5, <4>6
      <3> QED BY <3>1, <3>2
    <2> HIDE DEF Good
    <2> QED BY <2>1, <2>6
  <1>4. Good(Len(s)) 
    <2> HIDE DEF Good
    <2> QED BY <1>2, <1>3
  <1> DEFINE f == Filter(s, S)
  <1>5. f \in Seq(A) /\ DOMAIN f = 1..Len(f) BY <1>1, <1>4, LenProperties
  <1>6. ToSet(f) = ToSet(s) \cap S
    <2>1. \A x : x \in ToSet(f) <=> \E i \in 1..Len(f) : f[i] = x
      BY <1>5 DEF ToSet
    <2>2. \A x : x \in ToSet(s) <=> \E i \in 1..Len(s) : s[i] = x
      BY <1>2 DEF ToSet
    <2>3. \A x : (\E i \in 1..Len(f) : f[i] = x) <=> x \in S /\ \E i \in 1..Len(s) : s[i] = x
      BY <1>1, <1>4
    <2> HIDE DEF f
    <2> QED BY <2>1, <2>2, <2>3
  <1>7. IsInjective(s) => IsInjective(f) BY <1>1, <1>4, <1>5 DEF IsInjective
  <1> QED BY <1>5, <1>6, <1>7

\* ToSet of a sequence, and when it is empty.
LEMMA ToSetBasics ==
  ASSUME NEW A, NEW s \in Seq(A)
  PROVE  /\ \A x : x \in ToSet(s) <=> \E i \in 1..Len(s) : s[i] = x
         /\ ToSet(s) \subseteq A
         /\ s = <<>> <=> ToSet(s) = {}
         /\ s = <<>> <=> Len(s) = 0
         /\ Len(s) \in Nat
  <1>1. Len(s) \in Nat /\ DOMAIN s = 1..Len(s) /\ s \in [1..Len(s) -> A]
    BY LenProperties
  <1>2. \A x : x \in ToSet(s) <=> \E i \in 1..Len(s) : s[i] = x
    BY <1>1 DEF ToSet
  <1>3. s = <<>> <=> Len(s) = 0 BY <1>1, EmptySeq
  <1>4. Len(s) # 0 => 1 \in 1..Len(s) BY <1>1
  <1> QED BY <1>1, <1>2, <1>3, <1>4

\* Append adds its element.
LEMMA ToSetAppend ==
  ASSUME NEW A, NEW s \in Seq(A), NEW x \in A
  PROVE  /\ ToSet(Append(s, x)) = ToSet(s) \cup {x}
         /\ IsInjective(s) /\ x \notin ToSet(s) => IsInjective(Append(s, x))
  <1> DEFINE t == Append(s, x)
  <1>1. /\ t \in Seq(A) /\ Len(t) = Len(s) + 1
        /\ \A i \in 1..Len(s) : t[i] = s[i]
        /\ t[Len(s) + 1] = x
    BY AppendProperties
  <1>2. /\ \A y : y \in ToSet(s) <=> \E i \in 1..Len(s) : s[i] = y
        /\ \A y : y \in ToSet(t) <=> \E i \in 1..Len(t) : t[i] = y
        /\ DOMAIN s = 1..Len(s) /\ DOMAIN t = 1..Len(t) /\ Len(s) \in Nat
    <2> HIDE DEF t
    <2> QED BY <1>1, ToSetBasics, LenProperties
  <1>3. \A i : i \in 1..Len(t) <=> i \in 1..Len(s) \/ i = Len(s) + 1
    BY <1>1, <1>2
  <1> HIDE DEF t
  <1>4. ToSet(t) = ToSet(s) \cup {x} BY <1>1, <1>2, <1>3
  <1>5. IsInjective(s) /\ x \notin ToSet(s) => IsInjective(t)
    BY <1>1, <1>2, <1>3 DEF IsInjective
  <1> QED BY <1>4, <1>5 DEF t

\* A concatenation has the elements of both parts.
LEMMA ToSetConcat ==
  ASSUME NEW A, NEW s \in Seq(A), NEW t \in Seq(A)
  PROVE  /\ ToSet(s \o t) = ToSet(s) \cup ToSet(t)
         /\ IsInjective(s) /\ IsInjective(t) /\ ToSet(s) \cap ToSet(t) = {}
              => IsInjective(s \o t)
  <1> DEFINE u == s \o t
  <1>1. /\ u \in Seq(A) /\ Len(u) = Len(s) + Len(t)
        /\ \A i \in 1 .. Len(s) + Len(t) : u[i] = IF i <= Len(s) THEN s[i] ELSE t[i - Len(s)]
    BY ConcatProperties
  <1>2. /\ \A y : y \in ToSet(s) <=> \E i \in 1..Len(s) : s[i] = y
        /\ \A y : y \in ToSet(t) <=> \E i \in 1..Len(t) : t[i] = y
        /\ \A y : y \in ToSet(u) <=> \E i \in 1..Len(u) : u[i] = y
        /\ DOMAIN s = 1..Len(s) /\ DOMAIN t = 1..Len(t) /\ DOMAIN u = 1..Len(u) 
        /\ Len(s) \in Nat /\ Len(t) \in Nat
    <2> HIDE DEF u
    <2> QED BY <1>1, ToSetBasics, LenProperties
  <1> HIDE DEF u
  <1>3. ASSUME NEW i \in 1..Len(u) PROVE \/ i \in 1..Len(s) /\ u[i] = s[i]
                                         \/ i - Len(s) \in 1..Len(t) /\ u[i] = t[i - Len(s)] /\ i > Len(s)
    BY <1>1, <1>2
  <1>4. \A i \in 1..Len(s) : i \in 1..Len(u) /\ u[i] = s[i] BY <1>1, <1>2
  <1>5. \A i \in 1..Len(t) : Len(s) + i \in 1..Len(u) /\ u[Len(s) + i] = t[i]
    BY <1>1, <1>2
  <1>6. ToSet(u) = ToSet(s) \cup ToSet(t) BY <1>2, <1>3, <1>4, <1>5
  <1>7. ASSUME IsInjective(s), IsInjective(t), ToSet(s) \cap ToSet(t) = {}
        PROVE IsInjective(u)
    <2> SUFFICES ASSUME NEW i \in 1..Len(u), NEW j \in 1..Len(u), u[i] = u[j] PROVE i = j
      BY <1>2 DEF IsInjective
    <2>1. CASE i \in 1..Len(s) /\ j \in 1..Len(s) 
      BY <2>1, <1>4, <1>7, <1>2 DEF IsInjective
    <2>2. CASE i > Len(s) /\ j > Len(s)
      <3>1. i - Len(s) \in 1..Len(t) /\ j - Len(s) \in 1..Len(t) /\ t[i - Len(s)] = t[j - Len(s)]
        BY <2>2, <1>2, <1>3
      <3>2. i - Len(s) = j - Len(s) BY <3>1, <1>7, <1>2 DEF IsInjective
      <3> QED BY <3>2, <1>2, <1>1
    <2>3. CASE i \in 1..Len(s) /\ j > Len(s)
      <3>1. u[i] \in ToSet(s) BY <2>3, <1>2, <1>4
      <3>2. u[j] \in ToSet(t)
        <4>1. j - Len(s) \in 1..Len(t) /\ u[j] = t[j - Len(s)]
          BY <2>3, <1>2, <1>3
        <4> QED BY <4>1, <1>2
      <3> QED BY <3>1, <3>2, <1>7
    <2>4. CASE j \in 1..Len(s) /\ i > Len(s)
      <3>1. u[j] \in ToSet(s) BY <2>4, <1>2, <1>4
      <3>2. u[i] \in ToSet(t)
        <4>1. i - Len(s) \in 1..Len(t) /\ u[i] = t[i - Len(s)]
          BY <2>4, <1>2, <1>3
        <4> QED BY <4>1, <1>2
      <3> QED BY <3>1, <3>2, <1>7
    <2> QED BY <2>1, <2>2, <2>3, <2>4, <1>1, <1>2
  <1> QED BY <1>6, <1>7 DEF u

\* A sequence has the elements of its tail, and its head.
LEMMA ToSetTail ==
  ASSUME NEW A, NEW s \in Seq(A), s # <<>>
  PROVE  /\ Head(s) \in ToSet(s) /\ Head(s) = s[1]
         /\ ToSet(s) = ToSet(Tail(s)) \cup {Head(s)}
         /\ IsInjective(s) => IsInjective(Tail(s)) /\ Head(s) \notin ToSet(Tail(s))
  <1> DEFINE t == Tail(s)
  <1>1. /\ t \in Seq(A) /\ Len(t) = Len(s) - 1 /\ Len(s) \in Nat /\ Len(s) > 0
        /\ \A i \in 1..Len(t) : t[i] = s[i + 1]
    BY HeadTailProperties, ToSetBasics
  <1>2. /\ \A y : y \in ToSet(s) <=> \E i \in 1..Len(s) : s[i] = y
        /\ \A y : y \in ToSet(t) <=> \E i \in 1..Len(t) : t[i] = y
        /\ DOMAIN s = 1..Len(s) /\ DOMAIN t = 1..Len(t) /\ Head(s) = s[1]
    <2>1. Head(s) = s[1] BY SMT
    <2> HIDE DEF t
    <2> QED BY <2>1, <1>1, ToSetBasics, LenProperties
  <1> HIDE DEF t
  <1>3. \A i \in 1..Len(s) : i = 1 \/ (i - 1 \in 1..Len(t) /\ t[i - 1] = s[i])
    BY <1>1
  <1>4. \A i \in 1..Len(t) : i + 1 \in 1..Len(s) /\ s[i + 1] = t[i] BY <1>1
  <1>5. ToSet(s) = ToSet(t) \cup {Head(s)} BY <1>1, <1>2, <1>3, <1>4
  <1>6. ASSUME IsInjective(s) PROVE IsInjective(t) /\ Head(s) \notin ToSet(t)
    <2>1. \A i, j \in 1..Len(s) : s[i] = s[j] => i = j
      BY <1>6, <1>2 DEF IsInjective
    <2>2. \A i, j \in 1..Len(t) : t[i] = t[j] => i = j BY <2>1, <1>4
    <2>3. \A i \in 1..Len(t) : t[i] # s[1] BY <2>1, <1>4, <1>1
    <2> QED BY <2>2, <2>3, <1>2 DEF IsInjective
  <1>7. Head(s) \in ToSet(s) BY <1>5
  <1> QED BY <1>2, <1>5, <1>6, <1>7 DEF t

\* RemoveAt takes out one position and keeps the order of the others.
LEMMA ToSetRemoveAt ==
  ASSUME NEW A, NEW s \in Seq(A), NEW k \in 1..Len(s)
  PROVE  /\ RemoveAt(s, k) \in Seq(A)
         /\ Len(RemoveAt(s, k)) = Len(s) - 1
         /\ \A i \in 1..(Len(s) - 1) : RemoveAt(s, k)[i] = IF i < k THEN s[i] ELSE s[i + 1]
         /\ ToSet(s) = ToSet(RemoveAt(s, k)) \cup {s[k]}
         /\ IsInjective(s) => IsInjective(RemoveAt(s, k)) /\ s[k] \notin ToSet(RemoveAt(s, k))
  <1> DEFINE a == SubSeq(s, 1, k - 1)
             b == SubSeq(s, k + 1, Len(s))
             r == RemoveAt(s, k)
  <1>0. Len(s) \in Nat /\ k \in Nat /\ k >= 1 /\ k <= Len(s) /\ DOMAIN s = 1..Len(s)
        /\ \A i \in 1..Len(s) : s[i] \in A
    BY LenProperties, ElementOfSeq
  <1>1. /\ a \in Seq(A) /\ Len(a) = k - 1
        /\ \A i \in 1..(k - 1) : a[i] = s[i]
    <2>1. \A i \in 1..(k - 1) : s[i] \in A BY <1>0
    <2>2. /\ a \in Seq(A) /\ Len(a) = IF 1 <= k - 1 THEN (k - 1) - 1 + 1 ELSE 0
          /\ \A i \in 1..(k - 1) - 1 + 1 : a[i] = s[1 + i - 1]
      BY <2>1, <1>0, SubSeqProperties
    <2> QED BY <2>2, <1>0
  <1>2. /\ b \in Seq(A) /\ Len(b) = Len(s) - k
        /\ \A i \in 1..(Len(s) - k) : b[i] = s[k + i]
    <2>1. \A i \in (k + 1)..Len(s) : s[i] \in A BY <1>0
    <2>2. /\ b \in Seq(A) /\ Len(b) = IF k + 1 <= Len(s) THEN Len(s) - (k + 1) + 1 ELSE 0
          /\ \A i \in 1..Len(s) - (k + 1) + 1 : b[i] = s[(k + 1) + i - 1]
      BY <2>1, <1>0, SubSeqProperties
    <2>3. Len(s) - (k + 1) + 1 = Len(s) - k BY <1>0
    <2>4. \A i \in 1..(Len(s) - k) : (k + 1) + i - 1 = k + i BY <1>0
    <2>5. Len(b) = Len(s) - k
      <3> HIDE DEF a, b
      <3>1. CASE k + 1 <= Len(s)
        BY <2>2, <2>3, <3>1
      <3>2. CASE ~(k + 1 <= Len(s))
        <4>1. Len(b) = 0
          BY <2>2, <3>2
        <4>2. Len(s) \in Nat /\ k \in Nat /\ k <= Len(s)
          BY <1>0
        <4>3. Len(s) - k = 0
          BY <3>2, <4>2
        <4> QED BY <4>1, <4>3
      <3> QED BY <3>1, <3>2
    <2> QED BY <2>2, <2>3, <2>4, <2>5
  <1>3. r = a \o b BY DEF RemoveAt
  <1> HIDE DEF a, b, r
  <1>4. /\ r \in Seq(A) /\ Len(r) = Len(s) - 1
        /\ \A i \in 1..(Len(s) - 1) : r[i] = IF i < k THEN s[i] ELSE s[i + 1]
    <2>1. /\ r \in Seq(A) /\ Len(r) = Len(a) + Len(b)
          /\ \A i \in 1..Len(a) + Len(b) : r[i] = IF i <= Len(a) THEN a[i] ELSE b[i - Len(a)]
      BY <1>1, <1>2, <1>3, ConcatProperties
    <2>2. Len(a) + Len(b) = Len(s) - 1 BY <1>0, <1>1, <1>2
    <2>3. ASSUME NEW i \in 1..(Len(s) - 1)
          PROVE  r[i] = IF i < k THEN s[i] ELSE s[i + 1]
      <3>1. r[i] = IF i <= k - 1 THEN a[i] ELSE b[i - (k - 1)]
        BY <2>1, <2>2, <1>1
      <3>2. CASE i < k
        <4>1. i \in 1..(k - 1) BY <3>2, <1>0
        <4> QED BY <3>1, <3>2, <4>1, <1>0, <1>1
      <3>3. CASE ~(i < k)
        <4>1. i - (k - 1) \in 1..(Len(s) - k) /\ k + (i - (k - 1)) = i + 1
          BY <3>3, <1>0
        <4> QED BY <3>1, <3>3, <4>1, <1>0, <1>2
      <3> QED BY <3>2, <3>3
    <2> QED BY <2>1, <2>2, <2>3
  <1>5. /\ \A y : y \in ToSet(s) <=> \E i \in 1..Len(s) : s[i] = y
        /\ \A y : y \in ToSet(r) <=> \E i \in 1..Len(r) : r[i] = y
        /\ DOMAIN r = 1..Len(r)
    BY <1>4, ToSetBasics, LenProperties
  <1>6. ASSUME NEW i \in 1..Len(s), i # k
        PROVE  \/ i \in 1..Len(r) /\ r[i] = s[i]
               \/ i - 1 \in 1..Len(r) /\ r[i - 1] = s[i]
    <2>1. CASE i < k BY <2>1, <1>0, <1>4
    <2>2. CASE i > k
      <3>1. i - 1 \in 1..(Len(s) - 1) /\ ~(i - 1 < k) /\ (i - 1) + 1 = i
        BY <2>2, <1>0
      <3> QED BY <3>1, <1>4
    <2> QED BY <2>1, <2>2, <1>0, <1>6
  <1>7. \A i \in 1..Len(r) : \E j \in 1..Len(s) : j # k /\ r[i] = s[j] /\ j = IF i < k THEN i ELSE i + 1
    BY <1>0, <1>4
  <1>8. ToSet(s) = ToSet(r) \cup {s[k]} BY <1>5, <1>6, <1>7
  <1>9. ASSUME IsInjective(s) PROVE IsInjective(r) /\ s[k] \notin ToSet(r)
    <2>1. \A i, j \in 1..Len(s) : s[i] = s[j] => i = j
      BY <1>9, <1>0 DEF IsInjective
    <2>2. ASSUME NEW i \in 1..Len(r), NEW j \in 1..Len(r), r[i] = r[j] PROVE i = j
      <3>1. PICK ii \in 1..Len(s) : r[i] = s[ii] /\ ii = IF i < k THEN i ELSE i + 1
        BY <1>7
      <3>2. PICK jj \in 1..Len(s) : r[j] = s[jj] /\ jj = IF j < k THEN j ELSE j + 1
        BY <1>7
      <3>3. ii = jj BY <2>1, <2>2, <3>1, <3>2
      <3>4. i \in Nat /\ j \in Nat BY <1>0, <1>4
      <3> QED BY <3>1, <3>2, <3>3, <3>4, <1>0
    <2>3. \A i \in 1..Len(r) : r[i] # s[k] BY <2>1, <1>7
    <2> QED BY <2>2, <2>3, <1>5 DEF IsInjective
  <1> QED BY <1>4, <1>8, <1>9 DEF r

\* InsertAt adds its element.
LEMMA ToSetInsertAt ==
  ASSUME NEW A, NEW s \in Seq(A), NEW k \in 1..(Len(s) + 1), NEW x \in A
  PROVE  /\ InsertAt(s, k, x) \in Seq(A)
         /\ ToSet(InsertAt(s, k, x)) = ToSet(s) \cup {x}
         /\ IsInjective(s) /\ x \notin ToSet(s) => IsInjective(InsertAt(s, k, x))
  <1> DEFINE a == SubSeq(s, 1, k - 1)
             b == SubSeq(s, k, Len(s))
  <1>0. Len(s) \in Nat /\ k \in Nat /\ k >= 1 /\ k <= Len(s) + 1 /\ DOMAIN s = 1..Len(s)
        /\ \A i \in 1..Len(s) : s[i] \in A
    BY LenProperties, ElementOfSeq
  <1>1. /\ a \in Seq(A) /\ Len(a) = k - 1
        /\ \A i \in 1..(k - 1) : a[i] = s[i]
    <2>1. \A i \in 1..(k - 1) : s[i] \in A BY <1>0
    <2>2. /\ a \in Seq(A) /\ Len(a) = IF 1 <= k - 1 THEN (k - 1) - 1 + 1 ELSE 0
          /\ \A i \in 1..(k - 1) - 1 + 1 : a[i] = s[1 + i - 1]
      BY <2>1, <1>0, SubSeqProperties
    <2> QED BY <2>2, <1>0
  <1>2. /\ b \in Seq(A) /\ Len(b) = Len(s) - k + 1
        /\ \A i \in 1..(Len(s) - k + 1) : b[i] = s[k + i - 1]
    <2>1. \A i \in k..Len(s) : s[i] \in A BY <1>0
    <2>2. /\ b \in Seq(A) /\ Len(b) = IF k <= Len(s) THEN Len(s) - k + 1 ELSE 0
          /\ \A i \in 1..Len(s) - k + 1 : b[i] = s[k + i - 1]
      BY <2>1, <1>0, SubSeqProperties
    <2> HIDE DEF a, b
    <2> QED BY <2>2, <1>0
  <1>3. InsertAt(s, k, x) = (a \o <<x>>) \o b BY DEF InsertAt
  <1>4. a \o <<x>> = Append(a, x) BY <1>1, AppendIsConcat
  <1> HIDE DEF a, b
  <1>5. Append(a, x) \in Seq(A) /\ ToSet(Append(a, x)) = ToSet(a) \cup {x}
    BY <1>1, AppendProperties, ToSetAppend
  <1>6. Append(a, x) \o b \in Seq(A) /\ ToSet(Append(a, x) \o b) = (ToSet(a) \cup {x}) \cup ToSet(b)
    <2> DEFINE c == Append(a, x)
    <2>1. c \in Seq(A) BY <1>5
    <2> HIDE DEF c
    <2>2. c \o b \in Seq(A) BY <2>1, <1>2, ConcatProperties
    <2>3. ToSet(c \o b) = ToSet(c) \cup ToSet(b) BY <2>1, <1>2, ToSetConcat
    <2> QED BY <2>2, <2>3, <1>5 DEF c
  <1>7. /\ \A y : y \in ToSet(s) <=> \E i \in 1..Len(s) : s[i] = y
        /\ \A y : y \in ToSet(a) <=> \E i \in 1..Len(a) : a[i] = y
        /\ \A y : y \in ToSet(b) <=> \E i \in 1..Len(b) : b[i] = y
        /\ DOMAIN a = 1..Len(a) /\ DOMAIN b = 1..Len(b)
    BY <1>1, <1>2, ToSetBasics, LenProperties
  <1>8. \A i \in 1..Len(a) : i \in 1..Len(s) /\ i < k /\ a[i] = s[i]
    BY <1>0, <1>1
  <1>9. \A i \in 1..Len(b) : k + i - 1 \in 1..Len(s) /\ k + i - 1 >= k /\ b[i] = s[k + i - 1]
    BY <1>0, <1>2
  <1>10. ASSUME NEW i \in 1..Len(s)
         PROVE \/ i \in 1..Len(a) /\ a[i] = s[i]
               \/ i - k + 1 \in 1..Len(b) /\ b[i - k + 1] = s[i]
    <2>1. CASE i < k BY <2>1, <1>0, <1>1
    <2>2. CASE i >= k
      <3>1. i - k + 1 \in 1..Len(b) /\ k + (i - k + 1) - 1 = i
        BY <2>2, <1>0, <1>2
      <3> QED BY <3>1, <1>9
    <2> QED BY <2>1, <2>2, <1>0
  <1>11. ToSet(s) = ToSet(a) \cup ToSet(b) BY <1>7, <1>8, <1>9, <1>10
  <1>12. ASSUME IsInjective(s), x \notin ToSet(s) PROVE IsInjective(Append(a, x) \o b)
    <2>1. \A i, j \in 1..Len(s) : s[i] = s[j] => i = j
      BY <1>12, <1>0 DEF IsInjective
    <2>2. IsInjective(a) BY <2>1, <1>7, <1>8 DEF IsInjective
    <2>3. IsInjective(b)
      <3> SUFFICES ASSUME NEW i \in 1..Len(b), NEW j \in 1..Len(b), b[i] = b[j] PROVE i = j
        BY <1>7 DEF IsInjective
      <3>1. k + i - 1 = k + j - 1 BY <2>1, <1>9
      <3> QED BY <3>1, <1>0, <1>2
    <2>4. ToSet(a) \cap ToSet(b) = {}
      <3> SUFFICES ASSUME NEW i \in 1..Len(a), NEW j \in 1..Len(b), a[i] = b[j] PROVE FALSE
        BY <1>7
      <3>1. i = k + j - 1 BY <2>1, <1>8, <1>9
      <3> QED BY <3>1, <1>8, <1>9, <1>0, <1>1, <1>2
    <2>5. x \notin ToSet(a) /\ x \notin ToSet(b) BY <1>11, <1>12
    <2>6. IsInjective(Append(a, x)) BY <2>2, <2>5, <1>1, ToSetAppend
    <2>7. ToSet(Append(a, x)) \cap ToSet(b) = {} BY <2>4, <2>5, <1>5
    <2> QED BY <2>3, <2>6, <2>7, <1>2, <1>5, ToSetConcat
  <1> QED BY <1>3, <1>4, <1>6, <1>11, <1>12
\* An element that is once in a list is at most once in what is kept of it.
LEMMA FilterOnce ==
  ASSUME NEW A, NEW S, NEW s \in Seq(A), NEW x, Once(s, x)
  PROVE  Once(Filter(s, S), x)
  <1>1. PICK g : Filter(s, S) = g[Len(s)] /\ FilterStep(s, S, g, Len(s))
    BY FilterDef
  <1>2. Len(s) \in Nat /\ s \in [1..Len(s) -> A] /\ DOMAIN s = 1..Len(s)
    BY LenProperties
  <1> DEFINE Good(k) == /\ g[k] \in Seq(A)
                        /\ (\E i \in 1..Len(g[k]) : g[k][i] = x)
                             => \E i \in 1..k : s[i] = x
                        /\ \A i, j \in 1..Len(g[k]) :
                             g[k][i] = x /\ g[k][j] = x => i = j
             T == {k \in 0..Len(s) : ~Good(k)}
  <1>3. T = {}
    <2> SUFFICES ASSUME T # {} PROVE FALSE OBVIOUS
    <2>1. PICK m \in T : \A k \in T : m <= k
      <3>1. T \in SUBSET Nat BY <1>2
      <3> HIDE DEF T
      <3> QED BY <3>1, LeastNat
    <2>2. m # 0
      <3>1. g[0] = <<>> BY <1>1 DEF FilterStep
      <3>2. Good(0) BY <3>1, EmptySeq
      <3> QED BY <2>1, <3>2
    <2>3. m \in 1..Len(s) /\ Good(m - 1)
      <3>1. m - 1 \in 0..Len(s) /\ m \in 1..Len(s) BY <1>2, <2>1, <2>2
      <3>2. m - 1 \notin T
        <4> HIDE DEF T
        <4> QED BY <3>1, <2>1
      <3> HIDE DEF Good
      <3> QED BY <3>1, <3>2
    <2>4. g[m] = IF s[m] \in S THEN Append(g[m - 1], s[m]) ELSE g[m - 1]
      BY <1>1, <2>3 DEF FilterStep
    <2>5. s[m] \in A BY <1>2, <2>3
    <2>6. Good(m)
      <3>1. CASE s[m] \notin S
        BY <3>1, <1>2, <2>3, <2>4
      <3>2. CASE s[m] \in S
        <4> DEFINE p == g[m - 1]
        <4>1. p \in Seq(A) /\ g[m] = Append(p, s[m]) BY <3>2, <2>3, <2>4
        <4>2. /\ g[m] \in Seq(A) /\ Len(p) \in Nat /\ Len(g[m]) = Len(p) + 1
              /\ \A i \in 1..Len(p) : g[m][i] = p[i]
              /\ g[m][Len(p) + 1] = s[m]
          <5> HIDE DEF p
          <5> QED BY <4>1, <2>5, AppendProperties, LenProperties
        <4>3. /\ (\E i \in 1..Len(p) : p[i] = x) => \E i \in 1..(m - 1) : s[i] = x
              /\ \A i, j \in 1..Len(p) : p[i] = x /\ p[j] = x => i = j
          BY <2>3
        <4>4. m \in 1..Len(s) BY <2>3
        <4> HIDE DEF p
        <4>5. \A i : i \in 1..Len(g[m]) <=> i \in 1..Len(p) \/ i = Len(p) + 1
          BY <4>2
        <4>6. s[m] = x => \A i \in 1..(m - 1) : s[i] # x
          BY <1>2, <4>4 DEF Once
        <4>7. (\E i \in 1..Len(g[m]) : g[m][i] = x) => \E i \in 1..m : s[i] = x
          <5> SUFFICES ASSUME NEW i \in 1..Len(g[m]), g[m][i] = x
                       PROVE  \E n \in 1..m : s[n] = x
            OBVIOUS
          <5>1. CASE i \in 1..Len(p)
            <6>1. PICK n \in 1..(m - 1) : s[n] = x BY <5>1, <4>2, <4>3
            <6>2. n \in 1..m BY <1>2, <4>4
            <6> QED BY <6>1, <6>2
          <5>2. CASE i = Len(p) + 1
            <6>1. s[m] = x BY <5>2, <4>2
            <6>2. m \in 1..m BY <1>2, <4>4
            <6> QED BY <6>1, <6>2
          <5> QED BY <4>5, <5>1, <5>2
        <4>8. \A i, j \in 1..Len(g[m]) : g[m][i] = x /\ g[m][j] = x => i = j
          BY <4>2, <4>3, <4>5, <4>6
        <4> QED BY <4>2, <4>7, <4>8
      <3> QED BY <3>1, <3>2
    <2> HIDE DEF Good
    <2> QED BY <2>1, <2>6
  <1>4. Good(Len(s))
    <2> HIDE DEF Good
    <2> QED BY <1>2, <1>3
  <1> QED BY <1>1, <1>4, LenProperties DEF Once

\* A list without repetitions has each element once.
LEMMA InjectiveOnce ==
  ASSUME NEW s, NEW x, IsInjective(s)
  PROVE  Once(s, x)
  BY DEF IsInjective, Once

\* Append keeps an element single that was not there before.
LEMMA AppendOnce ==
  ASSUME NEW A, NEW s \in Seq(A), NEW y \in A, NEW x,
         Once(s, x), x = y => x \notin ToSet(s)
  PROVE  Once(Append(s, y), x)
  <1> DEFINE t == Append(s, y)
  <1>1. /\ t \in Seq(A) /\ Len(t) = Len(s) + 1
        /\ \A i \in 1..Len(s) : t[i] = s[i]
        /\ t[Len(s) + 1] = y
    BY AppendProperties
  <1>2. /\ \A z : z \in ToSet(s) <=> \E i \in 1..Len(s) : s[i] = z
        /\ DOMAIN s = 1..Len(s) /\ DOMAIN t = 1..Len(t) /\ Len(s) \in Nat
    <2> HIDE DEF t
    <2> QED BY <1>1, ToSetBasics, LenProperties
  <1>3. \A i : i \in 1..Len(t) <=> i \in 1..Len(s) \/ i = Len(s) + 1
    BY <1>1, <1>2
  <1> HIDE DEF t
  <1>4. Once(t, x) BY <1>1, <1>2, <1>3 DEF Once
  <1> QED BY <1>4 DEF t

\* An element once in one list and not in the other is once in both.
LEMMA ConcatOnce ==
  ASSUME NEW A, NEW s \in Seq(A), NEW t \in Seq(A), NEW x,
         Once(s, x), Once(t, x), x \notin ToSet(s) \cap ToSet(t)
  PROVE  Once(s \o t, x)
  <1> DEFINE u == s \o t
  <1>1. /\ u \in Seq(A) /\ Len(u) = Len(s) + Len(t)
        /\ \A i \in 1 .. Len(s) + Len(t) : u[i] = IF i <= Len(s) THEN s[i] ELSE t[i - Len(s)]
    BY ConcatProperties
  <1>2. /\ \A y : y \in ToSet(s) <=> \E i \in 1..Len(s) : s[i] = y
        /\ \A y : y \in ToSet(t) <=> \E i \in 1..Len(t) : t[i] = y
        /\ DOMAIN s = 1..Len(s) /\ DOMAIN t = 1..Len(t) /\ DOMAIN u = 1..Len(u)
        /\ Len(s) \in Nat /\ Len(t) \in Nat
    <2> HIDE DEF u
    <2> QED BY <1>1, ToSetBasics, LenProperties
  <1> HIDE DEF u
  <1>3. ASSUME NEW i \in 1..Len(u)
        PROVE  \/ i \in 1..Len(s) /\ u[i] = s[i]
               \/ i - Len(s) \in 1..Len(t) /\ u[i] = t[i - Len(s)] /\ i > Len(s)
    BY <1>1, <1>2
  <1>4. ASSUME NEW i \in 1..Len(u), NEW j \in 1..Len(u), u[i] = x, u[j] = x
        PROVE  i = j
    <2>1. CASE i \in 1..Len(s) /\ u[i] = s[i] /\ j \in 1..Len(s) /\ u[j] = s[j]
      BY <1>2, <1>4, <2>1 DEF Once
    <2>2. CASE /\ i - Len(s) \in 1..Len(t) /\ u[i] = t[i - Len(s)]
               /\ j - Len(s) \in 1..Len(t) /\ u[j] = t[j - Len(s)]
      <3>1. i - Len(s) = j - Len(s) BY <1>2, <1>4, <2>2 DEF Once
      <3> QED BY <1>1, <1>2, <3>1
    <2>3. (\E k \in 1..Len(s) : s[k] = x) => ~ \E k \in 1..Len(t) : t[k] = x
      BY <1>2
    <2> QED BY <1>3, <1>4, <2>1, <2>2, <2>3
  <1>5. Once(u, x) BY <1>2, <1>4 DEF Once
  <1> QED BY <1>5 DEF u

\* Filter starts with the first element of s that is in S.
LEMMA FilterHead ==
  ASSUME NEW A, NEW S, NEW s \in Seq(A), Filter(s, S) # <<>>
  PROVE  \E k \in 1..Len(s) : /\ Head(Filter(s, S)) = s[k] /\ s[k] \in S
                              /\ \A j \in 1..(k - 1) : s[j] \notin S
  <1>1. PICK g : Filter(s, S) = g[Len(s)] /\ FilterStep(s, S, g, Len(s))
    BY FilterDef
  <1>2. Len(s) \in Nat /\ s \in [1..Len(s) -> A] BY LenProperties
  <1> DEFINE First(k, x) == \E i \in 1..k : /\ x = s[i] /\ s[i] \in S
                                            /\ \A j \in 1..(i - 1) : s[j] \notin S
             Good(k) == /\ g[k] \in Seq(A)
                        /\ g[k] = <<>> => \A i \in 1..k : s[i] \notin S
                        /\ g[k] # <<>> => First(k, Head(g[k]))
             T == {k \in 0..Len(s) : ~Good(k)}
  <1>3. Good(0)
    <2>1. g[0] = <<>> BY <1>1 DEF FilterStep
    <2> QED BY <2>1
  <1>4. ASSUME NEW m \in 1..Len(s), Good(m - 1) PROVE Good(m)
    <2>0. m \in Nat /\ m - 1 \in Nat BY <1>2
    <2>1. g[m] = IF s[m] \in S THEN Append(g[m - 1], s[m]) ELSE g[m - 1]
      BY <1>1 DEF FilterStep
    <2>2. s[m] \in A BY <1>2
    <2>3. \A x : First(m - 1, x) => First(m, x) BY <2>0
    <2>4. CASE s[m] \notin S
      <3>1. g[m] = g[m - 1] BY <2>1, <2>4
      <3>2. g[m] = <<>> => \A i \in 1..m : s[i] \notin S
        <4>1. \A i \in 1..m : i \in 1..(m - 1) \/ i = m BY <2>0
        <4> QED BY <1>4, <2>4, <3>1, <4>1
      <3> HIDE DEF First
      <3> QED BY <1>4, <2>3, <3>1, <3>2
    <2>5. CASE s[m] \in S
      <3> DEFINE p == g[m - 1]
      <3>1. g[m] = Append(p, s[m]) /\ p \in Seq(A) BY <1>4, <2>1, <2>5
      <3>2. p = <<>> => \A i \in 1..(m - 1) : s[i] \notin S BY <1>4
      <3>3. p # <<>> => First(m - 1, Head(p)) BY <1>4
      <3> HIDE DEF p
      <3>4. /\ g[m] \in Seq(A) /\ g[m] # <<>>
            /\ Len(g[m]) = Len(p) + 1 /\ Len(p) \in Nat
            /\ \A i \in 1..Len(p) : g[m][i] = p[i]
            /\ g[m][Len(p) + 1] = s[m]
        BY <2>2, <3>1, AppendProperties, LenProperties
      <3>5. Head(g[m]) = g[m][1] BY <3>4, HeadTailProperties
      <3>6. CASE p = <<>>
        <4>1. Len(p) = 0 BY <3>6
        <4>2. Head(g[m]) = s[m] BY <3>4, <3>5, <4>1
        <4>3. First(m, s[m]) BY <2>0, <2>5, <3>2, <3>6
        <4> HIDE DEF First
        <4> QED BY <3>4, <4>2, <4>3
      <3>7. CASE p # <<>>
        <4>1. Len(p) >= 1 /\ Head(p) = p[1] BY <3>1, <3>4, <3>7, ToSetBasics, ToSetTail
        <4>2. Head(g[m]) = Head(p) BY <3>4, <3>5, <4>1
        <4> HIDE DEF First
        <4> QED BY <2>3, <3>3, <3>4, <3>7, <4>2
      <3> QED BY <3>6, <3>7
    <2> QED BY <2>4, <2>5
  <1> HIDE DEF Good
  <1>5. T = {}
    <2> SUFFICES ASSUME T # {} PROVE FALSE OBVIOUS
    <2>1. PICK m \in T : \A k \in T : m <= k
      <3>1. T \in SUBSET Nat BY <1>2
      <3> HIDE DEF T
      <3> QED BY <3>1, LeastNat
    <2>2. m \in 1..Len(s) BY <1>2, <1>3, <2>1
    <2>3. m - 1 \in 0..Len(s) /\ ~(m <= m - 1) BY <1>2, <2>2
    <2>4. m - 1 \notin T
      <3> HIDE DEF T
      <3> QED BY <2>1, <2>3
    <2> QED BY <1>4, <2>1, <2>2, <2>3, <2>4
  <1>6. Good(Len(s)) BY <1>2, <1>5
  <1> QED BY <1>1, <1>6 DEF Good

\* Position finds the first place of an element of the list.
LEMMA PositionIs ==
  ASSUME NEW A, NEW s \in Seq(A), NEW x \in ToSet(s)
  PROVE  /\ Position(s, x) \in 1..Len(s) /\ s[Position(s, x)] = x
         /\ \A j \in 1..Len(s) : s[j] = x => Position(s, x) <= j
  <1> DEFINE T == {k \in 1..Len(s) : s[k] = x}
  <1>1. Len(s) \in Nat /\ DOMAIN s = 1..Len(s) BY LenProperties
  <1>2. T \in SUBSET Nat /\ T # {} BY <1>1, ToSetBasics
  <1>3. PICK k \in T : \A j \in T : k <= j
    <2> HIDE DEF T
    <2> QED BY <1>2, LeastNat
  <1>4. \E n \in DOMAIN s : s[n] = x /\ \A j \in DOMAIN s : s[j] = x => n <= j
    BY <1>1, <1>3
  <1>5. /\ Position(s, x) \in DOMAIN s /\ s[Position(s, x)] = x
        /\ \A j \in DOMAIN s : s[j] = x => Position(s, x) <= j
    BY <1>4 DEF Position
  <1> QED BY <1>1, <1>5

\* RemoveFirst takes out one position, if the element is there.
LEMMA RemoveFirstAt ==
  ASSUME NEW A, NEW s \in Seq(A), NEW x \in ToSet(s)
  PROVE  \E k \in 1..Len(s) : s[k] = x /\ RemoveFirst(s, x) = RemoveAt(s, k)
  <1> DEFINE T == {i \in 1..Len(s) : s[i] = x}
  <1>1. Len(s) \in Nat /\ \E i \in 1..Len(s) : s[i] = x BY ToSetBasics
  <1>2. T \in SUBSET Nat /\ T # {} BY <1>1
  <1>3. Min(T) \in T
    <2> HIDE DEF T
    <2>1. \E k \in T : \A j \in T : k <= j BY <1>2, LeastNat
    <2> QED BY <2>1 DEF Min
  <1>4. SelectInSeq(s, LAMBDA v : v = x) = Min(T)
    BY <1>2 DEF SelectInSeq
  <1>5. RemoveFirst(s, x) = RemoveAt(s, SelectInSeq(s, LAMBDA v : v = x))
    BY <1>1 DEF RemoveFirst
  <1> QED BY <1>3, <1>4, <1>5

\* What RemoveFirst keeps.
LEMMA RemoveFirstProperties ==
  ASSUME NEW A, NEW s \in Seq(A), NEW x
  PROVE  /\ RemoveFirst(s, x) \in Seq(A)
         /\ Len(RemoveFirst(s, x)) <= Len(s)
         /\ ToSet(RemoveFirst(s, x)) \subseteq ToSet(s)
         /\ ToSet(s) \ {x} \subseteq ToSet(RemoveFirst(s, x))
         /\ \A y : Once(s, y) => Once(RemoveFirst(s, x), y)
         /\ Once(s, x) => x \notin ToSet(RemoveFirst(s, x))
         /\ IsInjective(s) => IsInjective(RemoveFirst(s, x))
         /\ x \notin ToSet(s) => RemoveFirst(s, x) = s
  <1>1. CASE x \notin ToSet(s)
    <2>1. RemoveFirst(s, x) = s BY <1>1, ToSetBasics DEF RemoveFirst
    <2> QED BY <1>1, <2>1, ToSetBasics
  <1>2. CASE x \in ToSet(s)
    <2>1. PICK k \in 1..Len(s) : s[k] = x /\ RemoveFirst(s, x) = RemoveAt(s, k)
      BY <1>2, RemoveFirstAt
    <2> DEFINE r == RemoveAt(s, k)
    <2>2. /\ r \in Seq(A) /\ Len(r) = Len(s) - 1
          /\ \A i \in 1..(Len(s) - 1) : r[i] = IF i < k THEN s[i] ELSE s[i + 1]
          /\ ToSet(s) = ToSet(r) \cup {x}
          /\ IsInjective(s) => IsInjective(r)
      <3>1. /\ RemoveAt(s, k) \in Seq(A) /\ Len(RemoveAt(s, k)) = Len(s) - 1
            /\ \A i \in 1..(Len(s) - 1) :
                 RemoveAt(s, k)[i] = IF i < k THEN s[i] ELSE s[i + 1]
            /\ ToSet(s) = ToSet(RemoveAt(s, k)) \cup {s[k]}
            /\ IsInjective(s) => IsInjective(RemoveAt(s, k))
        BY ToSetRemoveAt
      <3> QED BY <2>1, <3>1, Zenon
    <2>3. Len(s) \in Nat /\ DOMAIN s = 1..Len(s) BY LenProperties
    <2> HIDE DEF r
    <2>4. /\ DOMAIN r = 1..Len(r)
          /\ \A y : y \in ToSet(r) <=> \E i \in 1..Len(r) : r[i] = y
      BY <2>2, LenProperties, ToSetBasics
    <2>5. \A i \in 1..Len(r) :
            \E j \in 1..Len(s) : /\ j # k /\ r[i] = s[j]
                                 /\ j = IF i < k THEN i ELSE i + 1
      BY <2>2, <2>3
    <2>6. ASSUME NEW y, Once(s, y) PROVE Once(r, y)
      <3> SUFFICES ASSUME NEW i \in 1..Len(r), NEW j \in 1..Len(r),
                          r[i] = y, r[j] = y
                   PROVE  i = j
        BY <2>4 DEF Once
      <3>1. PICK ii \in 1..Len(s) : r[i] = s[ii] /\ ii = IF i < k THEN i ELSE i + 1
        BY <2>5
      <3>2. PICK jj \in 1..Len(s) : r[j] = s[jj] /\ jj = IF j < k THEN j ELSE j + 1
        BY <2>5
      <3>3. ii = jj BY <2>3, <2>6, <3>1, <3>2 DEF Once
      <3>4. i \in Nat /\ j \in Nat BY <2>2, <2>3
      <3> QED BY <3>1, <3>2, <3>3, <3>4, <2>3
    <2>7. Once(s, x) => x \notin ToSet(r)
      BY <2>1, <2>3, <2>4, <2>5 DEF Once
    <2>8. Len(r) <= Len(s) BY <2>2, <2>3
    <2> QED BY <1>2, <2>1, <2>2, <2>6, <2>7, <2>8 DEF r
  <1> QED BY <1>1, <1>2
==============================================================================
