------------------------------- MODULE Lemmas -------------------------------
(***************************************************************************)
(* Induction without an operator parameter, and what it gives: the values  *)
(* of the recursive functions that FlattenSeq and FoldLeft are made of.    *)
(* The induction theorems of the library quantify over a predicate, which  *)
(* none of the provers instantiates; here the predicate is the set of the  *)
(* numbers that satisfy it.                                                *)
(*                                                                         *)
(* With it, what normalizeManifests makes of any files: which bundles it   *)
(* forms, and that it loses, repeats and reorders no manifest.             *)
(***************************************************************************)
EXTENDS Manifests, SequenceTheorems, FiniteSetTheorems, TLAPS

(* Induction over the naturals: what 0 has, and n + 1 whenever n has it,   *)
(* every natural has.  If D missed n, adding one would map the elements of *)
(* D below n one to one into those that are not 0, which are fewer.        *)
LEMMA NatSetInduction ==
    ASSUME NEW D, D \subseteq Nat, 0 \in D, \A n \in D : n + 1 \in D
    PROVE  D = Nat
<1> SUFFICES ASSUME NEW n \in Nat, n \notin D PROVE FALSE
    OBVIOUS
<1> DEFINE E == {m \in 0..n : m \in D}
           succ == [m \in E |-> m + 1]
<1>1. IsFiniteSet(E)
    <2>1. IsFiniteSet(0..n)
        BY FS_Interval
    <2> QED
        BY <2>1, FS_Subset
<1>2. 0 \in E
    OBVIOUS
<1>3. \A m \in E : m \in Nat /\ m + 1 \in E \ {0}
    OBVIOUS
<1>4. succ \in [E -> E \ {0}]
    BY <1>3
<1>5. \A a, b \in E : succ[a] = succ[b] => a = b
    BY <1>3
<1> HIDE DEF E, succ
<1>6. succ \in Injection(E, E \ {0})
    BY <1>4, <1>5 DEF Injection, IsInjective
<1>7. /\ IsFiniteSet(E \ {0})
      /\ Cardinality(E \ {0}) = Cardinality(E) - 1
    BY <1>1, <1>2, FS_RemoveElement
<1>8. Cardinality(E) <= Cardinality(E \ {0})
    BY <1>6, <1>7, FS_Injection
<1> QED
    BY <1>1, <1>7, <1>8, FS_CardinalityType

(* A bounded form, for what is known of 0..n only.                         *)
LEMMA IntervalInduction ==
    ASSUME NEW n \in Nat, NEW D, 0 \in D, \A i \in 0..n-1 : i \in D => i + 1 \in D
    PROVE  0..n \subseteq D
<1> DEFINE E == {k \in Nat : k <= n => k \in D}
<1>1. 0 \in E
    OBVIOUS
<1>2. \A k \in E : k + 1 \in E
    OBVIOUS
<1>3. E = Nat
    <2> HIDE DEF E
    <2>1. E \subseteq Nat
        BY DEF E
    <2> QED
        BY <1>1, <1>2, <2>1, NatSetInduction
<1> QED
    BY <1>3

(* A nonempty set of numbers up to n has a greatest one, which is its Max. *)
LEMMA MaxOfInterval ==
    ASSUME NEW n \in Nat, NEW S \in SUBSET (1..n), S # {}
    PROVE  Max(S) \in S /\ \A y \in S : Max(S) >= y
<1> DEFINE HasMax(T) == \E x \in T : \A y \in T : x >= y
           D == {k \in Nat : \A T \in SUBSET (1..k) : T # {} => HasMax(T)}
<1>1. 0 \in D
    <2>1. 1..0 = {}
        OBVIOUS
    <2> QED
        BY <2>1
<1>2. ASSUME NEW k \in D PROVE k + 1 \in D
    <2> SUFFICES ASSUME NEW T \in SUBSET (1..k+1), T # {} PROVE HasMax(T)
        OBVIOUS
    <2>1. CASE k + 1 \in T
        BY <2>1
    <2>2. CASE k + 1 \notin T
        <3>1. T \in SUBSET (1..k)
            BY <2>2
        <3> QED
            BY <3>1
    <2> QED
        BY <2>1, <2>2
<1>3. D = Nat
    <2> HIDE DEF D
    <2>1. D \subseteq Nat
        BY DEF D
    <2> QED
        BY <1>1, <1>2, <2>1, NatSetInduction
<1>4. HasMax(S)
    BY <1>3
<1> QED
    BY <1>4 DEF Max

(* g starts at base and takes n steps: step[i] is the i-th one.            *)
IsRun(g, n, T, base, step) ==
    /\ g \in [0..n -> T]
    /\ g[0] = base
    /\ \A i \in 1..n : g[i] = step[i][g[i-1]]

(* Recursion over 0..n: a base and steps, given as functions, have a run.  *)
LEMMA IntervalRecursion ==
    ASSUME NEW n \in Nat, NEW T, NEW base \in T, NEW step \in [1..n -> [T -> T]]
    PROVE  \E g : IsRun(g, n, T, base, step)
<1> DEFINE Run(k, g) == /\ g \in [0..k -> T]
                        /\ g[0] = base
                        /\ \A i \in 1..k : g[i] = step[i][g[i-1]]
           D == {k \in 0..n : \E g : Run(k, g)}
<1>1. 0 \in D
    <2>1. Run(0, [i \in 0..0 |-> base])
        OBVIOUS
    <2> HIDE DEF Run
    <2> QED
        BY <2>1
<1>2. ASSUME NEW k \in 0..n-1, k \in D PROVE k + 1 \in D
    <2>1. PICK g : Run(k, g)
        BY <1>2
    <2> DEFINE h == [i \in 0..k+1 |-> IF i = k + 1 THEN step[k+1][g[k]] ELSE g[i]]
    <2>2. g[k] \in T /\ step[k+1] \in [T -> T]
        BY <2>1
    <2>3. h \in [0..k+1 -> T]
        BY <2>1, <2>2
    <2>4. h[0] = base
        BY <2>1
    <2>5. ASSUME NEW i \in 1..k+1 PROVE h[i] = step[i][h[i-1]]
        <3>1. CASE i = k + 1
            BY <3>1
        <3>2. CASE i # k + 1
            <4>1. i \in 1..k /\ i \in 0..k+1 /\ i - 1 \in 0..k+1 /\ i - 1 # k + 1
                BY <3>2
            <4> QED
                BY <4>1, <3>2, <2>1
        <3> QED
            BY <3>1, <3>2
    <2>6. Run(k + 1, h)
        BY <2>3, <2>4, <2>5
    <2> HIDE DEF Run
    <2> QED
        BY <2>6
<1>3. 0..n \subseteq D
    <2> HIDE DEF D
    <2> QED
        BY <1>1, <1>2, IntervalInduction
<1>4. PICK g : Run(n, g)
    BY <1>3
<1> QED
    BY <1>4 DEF IsRun

(* FlattenSeq by its equation: the concatenations of the first k sequences. *)
LEMMA FlattenSeqRun ==
    ASSUME NEW S, NEW seqs \in Seq(Seq(S)), seqs # <<>>
    PROVE  \E g \in [1..Len(seqs) -> Seq(S)] :
               /\ g[1] = seqs[1]
               /\ \A i \in 2..Len(seqs) : g[i] = g[i-1] \o seqs[i]
               /\ FlattenSeq(seqs) = g[Len(seqs)]
<1> DEFINE n == Len(seqs)
           IsFlatten(g) ==
               g = [i \in 1..n |-> IF i = 1 THEN seqs[i] ELSE g[i-1] \o seqs[i]]
           step == [i \in 1..n |-> [t \in Seq(S) |-> t \o seqs[i]]]
<1>1. n \in Nat /\ n >= 1 /\ seqs \in [1..n -> Seq(S)]
    BY EmptySeq, LenProperties
<1>2. FlattenSeq(seqs) = (CHOOSE f : IsFlatten(f))[n]
    BY <1>1 DEF FlattenSeq
<1> HIDE DEF n
<1>3. \A i \in 1..n : seqs[i] \in Seq(S)
    BY <1>1
<1>4. \A i \in 1..n : \A t \in Seq(S) : t \o seqs[i] \in Seq(S)
    BY <1>3, ConcatProperties
<1>5. step \in [1..n -> [Seq(S) -> Seq(S)]]
    BY <1>4, Zenon
<1>6. <<>> \in Seq(S)
    BY EmptySeq
<1>7. PICK r \in [0..n -> Seq(S)] :
          r[0] = <<>> /\ \A i \in 1..n : r[i] = step[i][r[i-1]]
    <2> HIDE DEF step
    <2>1. \E r : IsRun(r, n, Seq(S), <<>>, step)
        BY <1>1, <1>5, <1>6, IntervalRecursion
    <2> QED
        BY <2>1 DEF IsRun
<1>8. ASSUME NEW i \in 1..n PROVE r[i] = r[i-1] \o seqs[i]
    <2>1. i - 1 \in 0..n
        BY <1>1
    <2>2. r[i-1] \in Seq(S)
        BY <2>1
    <2> QED
        BY <1>7, <2>2, Zenon
<1> HIDE DEF step
<1>9. 1 \in 1..n /\ 1 - 1 = 0
    BY <1>1
<1>10. r[1] = seqs[1]
    <2>1. r[1] = r[0] \o seqs[1]
        BY <1>8, <1>9
    <2> QED
        BY <2>1, <1>3, <1>7, <1>9, ConcatEmptySeq, Zenon
<1> DEFINE g == [i \in 1..n |-> r[i]]
<1>11. g \in [1..n -> Seq(S)]
    BY <1>1
<1>12. ASSUME NEW i \in 2..n PROVE g[i] = g[i-1] \o seqs[i]
    <2>1. i \in 1..n /\ i - 1 \in 1..n
        BY <1>1
    <2> QED
        BY <2>1, <1>8, Zenon
<1>13. g[1] = seqs[1]
    BY <1>9, <1>10, Zenon
<1>14. \A i \in 1..n : i # 1 => i \in 2..n
    BY <1>1
<1> HIDE DEF g
<1>15. g = [i \in 1..n |-> g[i]]
    BY <1>11, Zenon
<1>16. \A i \in 1..n : g[i] = IF i = 1 THEN seqs[i] ELSE g[i-1] \o seqs[i]
    BY <1>12, <1>13, <1>14, Zenon
<1>17. IsFlatten(g)
    BY <1>15, <1>16, Zenon
<1>18. ASSUME NEW f, IsFlatten(f)
       PROVE  f = g
    <2>1. DOMAIN f = 1..n /\ f = [i \in 1..n |-> f[i]]
        BY <1>18, Zenon
    <2>2. \A i \in 1..n : f[i] = IF i = 1 THEN seqs[i] ELSE f[i-1] \o seqs[i]
        BY <1>18, Zenon
    <2> DEFINE D == {k \in 0..n : k # 0 => f[k] = g[k]}
    <2>3. 0 \in D
        BY <1>1
    <2>4. ASSUME NEW k \in 0..n-1, k \in D PROVE k + 1 \in D
        <3>1. k + 1 \in 1..n /\ k + 1 \in 0..n /\ (k + 1) - 1 = k
            BY <1>1
        <3>2. CASE k = 0
            <4>1. k + 1 = 1
                BY <3>2
            <4>2. f[1] = g[1]
                BY <1>9, <2>2, <1>13, Zenon
            <4> QED
                BY <4>1, <4>2, <3>1, Zenon
        <3>3. CASE k # 0
            <4>1. k + 1 # 1
                BY <3>3
            <4>2. f[k] = g[k]
                BY <2>4, <3>3, Zenon
            <4>3. f[k+1] = f[k] \o seqs[k+1] /\ g[k+1] = g[k] \o seqs[k+1]
                <5> HIDE DEF IsFlatten, D
                <5>1. f[k+1] = f[(k+1)-1] \o seqs[k+1]
                    BY <4>1, <3>1, <2>2, Zenon
                <5>2. g[k+1] = g[(k+1)-1] \o seqs[k+1]
                    BY <4>1, <3>1, <1>16, Zenon
                <5> QED
                    BY <5>1, <5>2, <3>1, Zenon
            <4>4. f[k+1] = g[k+1]
                BY <4>2, <4>3, Zenon
            <4> QED
                BY <4>4, <3>1, Zenon
        <3> QED
            BY <3>2, <3>3, Zenon
    <2>5. 0..n \subseteq D
        <3> HIDE DEF D, IsFlatten
        <3> QED
            BY <1>1, <2>3, <2>4, IntervalInduction
    <2>6. \A k \in 1..n : k \in 0..n /\ k # 0
        BY <1>1
    <2>7. \A k \in 1..n : f[k] = g[k]
        BY <2>5, <2>6, Zenon
    <2> QED
        BY <2>1, <2>7, <1>15, Zenon
<1>19. (CHOOSE f : IsFlatten(f)) = g
    <2> HIDE DEF IsFlatten
    <2> QED
        BY <1>17, <1>18, Zenon
<1>20. FlattenSeq(seqs) = g[n]
    BY <1>2, <1>19, Zenon
<1> QED
    <2>1. g[1] = seqs[1] /\ (\A i \in 2..n : g[i] = g[i-1] \o seqs[i]) /\ FlattenSeq(seqs) = g[n]
        BY <1>12, <1>13, <1>20, Zenon
    <2> USE DEF n
    <2> QED
        BY <1>11, <2>1, Zenon

(* The first n of seqs lie in s one after the other: at[k] elements of s   *)
(* come before those of seqs[k], and s has no elements but theirs.         *)
IsPlacement(at, n, seqs, s) ==
    /\ \A k \in 1..n : at[k] \in Nat /\ at[k] + Len(seqs[k]) <= Len(s)
    /\ \A k \in 1..n : \A i \in 1..Len(seqs[k]) : s[at[k] + i] = seqs[k][i]
    /\ \A k, l \in 1..n : k < l => at[k] + Len(seqs[k]) <= at[l]
    /\ \A m \in 1..Len(s) :
          \E k \in 1..n : \E i \in 1..Len(seqs[k]) : m = at[k] + i

(* Another sequence is placed by appending it.                             *)
LEMMA PlaceNext ==
    ASSUME NEW S, NEW seqs, NEW n \in Nat, NEW at, NEW s \in Seq(S),
           \A k \in 1..n+1 : seqs[k] \in Seq(S),
           IsPlacement(at, n, seqs, s), at[n+1] = Len(s)
    PROVE  IsPlacement(at, n + 1, seqs, s \o seqs[n+1])
<1> DEFINE l == n + 1
           t == s \o seqs[l]
           a == Len(s)
           b == Len(seqs[l])
<1>1. l \in Nat /\ l \in 1..l /\ \A k \in 1..l : k \in 1..n \/ k = l
    OBVIOUS
<1>2. \A k \in 1..n : k \in 1..l /\ k < l
    OBVIOUS
<1>3. seqs[l] \in Seq(S)
    BY <1>1
<1>4. a \in Nat /\ b \in Nat /\ at[l] = a
    BY <1>3, LenProperties
<1>5. t \in Seq(S) /\ Len(t) = a + b
    BY <1>3, ConcatProperties
<1>6. \A m \in 1..a + b : t[m] = IF m <= a THEN s[m] ELSE seqs[l][m - a]
    BY <1>3, ConcatProperties
<1>7. \A k \in 1..n : Len(seqs[k]) \in Nat
    BY <1>2, LenProperties
<1>8. \A k \in 1..n : at[k] \in Nat /\ at[k] + Len(seqs[k]) <= a
    BY DEF IsPlacement
<1>9. \A k \in 1..n : \A i \in 1..Len(seqs[k]) : s[at[k] + i] = seqs[k][i]
    BY DEF IsPlacement
<1>10. \A j, k \in 1..n : j < k => at[j] + Len(seqs[j]) <= at[k]
    BY DEF IsPlacement
<1>11. \A m \in 1..a : \E k \in 1..n : \E i \in 1..Len(seqs[k]) : m = at[k] + i
    BY DEF IsPlacement
<1> HIDE DEF l, t, a, b
<1>12. ASSUME NEW k \in 1..l
       PROVE  at[k] \in Nat /\ at[k] + Len(seqs[k]) <= a + b
    <2>1. CASE k \in 1..n
        BY <2>1, <1>4, <1>7, <1>8
    <2>2. CASE k = l
        BY <2>2, <1>4 DEF b
    <2> QED
        BY <2>1, <2>2, <1>1
<1>13. ASSUME NEW k \in 1..l, NEW i \in 1..Len(seqs[k])
       PROVE  t[at[k] + i] = seqs[k][i]
    <2>1. CASE k \in 1..n
        <3> DEFINE c == Len(seqs[k])
                   d == at[k]
        <3>1. d \in Nat /\ c \in Nat /\ i \in 1..c /\ d + c <= a
            BY <2>1, <1>7, <1>8
        <3> HIDE DEF c, d
        <3>2. d + i \in 1..a + b /\ d + i <= a
            BY <3>1, <1>4
        <3> USE DEF d
        <3>3. t[at[k] + i] = s[at[k] + i]
            BY <3>2, <1>6
        <3> QED
            BY <3>3, <2>1, <1>9, Zenon
    <2>2. CASE k = l
        <3>1. i \in 1..b
            BY <2>2 DEF b
        <3>2. a + i \in 1..a + b /\ ~(a + i <= a) /\ (a + i) - a = i
            BY <3>1, <1>4
        <3>3. t[a + i] = seqs[l][(a + i) - a]
            BY <3>2, <1>6, Zenon
        <3> QED
            BY <3>2, <3>3, <2>2, <1>4, Zenon
    <2> QED
        BY <2>1, <2>2, <1>1
<1>14. ASSUME NEW j \in 1..l, NEW k \in 1..l, j < k
       PROVE  at[j] + Len(seqs[j]) <= at[k]
    <2>1. j \in 1..n
        BY <1>14 DEF l
    <2>2. CASE k \in 1..n
        BY <2>1, <2>2, <1>14, <1>10
    <2>3. CASE k = l
        BY <2>1, <2>3, <1>4, <1>8
    <2> QED
        BY <2>2, <2>3, <1>1
<1>15. ASSUME NEW m \in 1..a + b
       PROVE  \E k \in 1..l : \E i \in 1..Len(seqs[k]) : m = at[k] + i
    <2>1. CASE m \in 1..a
        BY <2>1, <1>11, <1>2
    <2>2. CASE m \notin 1..a
        <3>1. m - a \in 1..b /\ m = a + (m - a)
            BY <2>2, <1>4
        <3>2. m - a \in 1..Len(seqs[l]) /\ m = at[l] + (m - a)
            BY <3>1, <1>4 DEF b
        <3> QED
            BY <3>2, <1>1, Zenon
    <2> QED
        BY <2>1, <2>2
<1>16. IsPlacement(at, l, seqs, t)
    <2>1. \A k \in 1..l : at[k] \in Nat /\ at[k] + Len(seqs[k]) <= Len(t)
        BY <1>5, <1>12
    <2>2. \A m \in 1..Len(t) : \E k \in 1..l : \E i \in 1..Len(seqs[k]) : m = at[k] + i
        BY <1>5, <1>15
    <2> QED
        BY <2>1, <1>13, <1>14, <2>2 DEF IsPlacement
<1> QED
    BY <1>16 DEF l, t

(* FlattenSeq yields a sequence of elements of the given sequences, each   *)
(* in its place.                                                           *)
LEMMA FlattenSeqFacts ==
    ASSUME NEW S, NEW seqs \in Seq(Seq(S))
    PROVE  /\ FlattenSeq(seqs) \in Seq(S)
           /\ \E at : IsPlacement(at, Len(seqs), seqs, FlattenSeq(seqs))
<1> DEFINE n == Len(seqs)
<1>1. CASE seqs = <<>>
    <2>1. FlattenSeq(seqs) = <<>> /\ <<>> \in Seq(S) /\ Len(<<>>) = 0
        BY <1>1, EmptySeq DEF FlattenSeq
    <2>2. IsPlacement(<<>>, 0, <<>>, <<>>)
        BY <2>1 DEF IsPlacement
    <2> QED
        BY <1>1, <2>1, <2>2
<1>2. CASE seqs # <<>>
    <2>1. n \in Nat /\ n >= 1 /\ \A k \in 1..n : seqs[k] \in Seq(S)
        BY <1>2, EmptySeq, LenProperties
    <2>2. PICK g \in [1..n -> Seq(S)] :
              /\ g[1] = seqs[1]
              /\ \A i \in 2..n : g[i] = g[i-1] \o seqs[i]
              /\ FlattenSeq(seqs) = g[n]
        BY <1>2, FlattenSeqRun
    <2> HIDE DEF n
    <2> DEFINE at == [k \in 1..n |-> IF k = 1 THEN 0 ELSE Len(g[k-1])]
               D == {k \in 0..n : k # 0 => IsPlacement(at, k, seqs, g[k])}
    <2>3. at[1] = 0 /\ \A k \in 1..n-1 : at[k+1] = Len(g[k])
        BY <2>1
    <2> HIDE DEF at
    <2>4. 0 \in D
        BY <2>1
    <2>5. ASSUME NEW k \in 0..n-1, k \in D PROVE k + 1 \in D
        <3>1. k + 1 \in 0..n /\ k \in Nat
            BY <2>1
        <3>2. CASE k = 0
            <4>1. <<>> \in Seq(S) /\ Len(<<>>) = 0 /\ 1..0 = {}
                BY EmptySeq
            <4>2. IsPlacement(at, 0, seqs, <<>>)
                BY <4>1 DEF IsPlacement
            <4>3. at[k+1] = Len(<<>>) /\ \A j \in 1..k+1 : seqs[j] \in Seq(S)
                BY <3>2, <4>1, <2>1, <2>3
            <4>4. IsPlacement(at, k + 1, seqs, <<>> \o seqs[k+1])
                <5>1. IsPlacement(at, k, seqs, <<>>)
                    BY <4>2, <3>2
                <5> QED
                    BY <5>1, <3>1, <4>1, <4>3, PlaceNext
            <4>5. <<>> \o seqs[k+1] = g[k+1] /\ k + 1 = 1
                <5>1. seqs[1] \in Seq(S)
                    BY <2>1
                <5>2. <<>> \o seqs[1] = seqs[1]
                    BY <5>1, ConcatEmptySeq
                <5> QED
                    BY <5>2, <3>2, <2>2
            <4> QED
                BY <4>4, <4>5, <3>1
        <3>3. CASE k # 0
            <4>1. k \in 1..n /\ k + 1 \in 2..n /\ (k + 1) - 1 = k /\ k \in 1..n-1
                BY <2>1, <3>3
            <4>2. IsPlacement(at, k, seqs, g[k])
                BY <2>5, <3>3
            <4>3. g[k] \in Seq(S) /\ at[k+1] = Len(g[k])
                BY <4>1, <2>2, <2>3
            <4>4. \A j \in 1..k+1 : seqs[j] \in Seq(S)
                BY <2>1, <3>1
            <4>5. IsPlacement(at, k + 1, seqs, g[k] \o seqs[k+1])
                BY <3>1, <4>2, <4>3, <4>4, PlaceNext
            <4>6. g[k] \o seqs[k+1] = g[k+1]
                BY <4>1, <2>2, Zenon
            <4> QED
                BY <4>5, <4>6, <3>1
        <3> QED
            BY <3>2, <3>3
    <2>6. 0..n \subseteq D
        <3> HIDE DEF D
        <3> QED
            BY <2>1, <2>4, <2>5, IntervalInduction
    <2>7. IsPlacement(at, n, seqs, g[n]) /\ g[n] \in Seq(S)
        BY <2>1, <2>2, <2>6
    <2> QED
        BY <2>2, <2>7 DEF n
<1> QED
    BY <1>1, <1>2

----------------------------------------------------------------------------
(* s lists numbers of S, as many as S has, in ascending order.             *)
IsAscending(s, S) ==
    /\ s \in [1..Cardinality(S) -> S]
    /\ \A a, b \in DOMAIN s : a < b => s[a] < s[b]

(* The elements of an interval's subset can be listed in ascending order.  *)
LEMMA AscendingExists ==
    ASSUME NEW n \in Nat, NEW S \in SUBSET (1..n)
    PROVE  \E s : IsAscending(s, S)
<1> DEFINE D == {k \in Nat : \A T \in SUBSET (1..k) : \E s : IsAscending(s, T)}
<1>1. 0 \in D
    <2>1. 1..0 = {} /\ Cardinality({}) = 0
        BY FS_EmptySet
    <2>2. IsAscending([a \in {} |-> 0], {})
        BY <2>1 DEF IsAscending
    <2>3. \A T \in SUBSET (1..0) : T = {}
        BY <2>1
    <2> HIDE DEF IsAscending
    <2> QED
        BY <2>2, <2>3
<1>2. ASSUME NEW k \in D PROVE k + 1 \in D
    <2> SUFFICES ASSUME NEW T \in SUBSET (1..k+1) PROVE \E s : IsAscending(s, T)
        OBVIOUS
    <2>0. k \in Nat
        OBVIOUS
    <2>1. CASE k + 1 \notin T
        <3>1. T \in SUBSET (1..k)
            BY <2>0, <2>1
        <3> QED
            BY <3>1
    <2>2. CASE k + 1 \in T
        <3> DEFINE U == T \ {k + 1}
                   c == Cardinality(U)
        <3>1. U \in SUBSET (1..k)
            BY <2>0
        <3>2. PICK s : IsAscending(s, U)
            BY <3>1
        <3>3. IsFiniteSet(T)
            <4>1. IsFiniteSet(1..k+1)
                BY <2>0, FS_Interval
            <4> QED
                BY <4>1, FS_Subset
        <3>4. IsFiniteSet(U) /\ Cardinality(T) = c + 1 /\ c \in Nat
            <4>1. IsFiniteSet(U) /\ c = Cardinality(T) - 1
                BY <2>2, <3>3, FS_RemoveElement
            <4> QED
                BY <4>1, <3>3, FS_CardinalityType
        <3> DEFINE t == [a \in 1..c+1 |-> IF a = c + 1 THEN k + 1 ELSE s[a]]
        <3> HIDE DEF c
        <3>5. s \in [1..c -> U] /\ \A a, b \in 1..c : a < b => s[a] < s[b]
            BY <3>2 DEF IsAscending, c
        <3>6. \A a \in 1..c+1 : a \in 1..c \/ a = c + 1
            BY <3>4
        <3>7. \A a \in 1..c : s[a] \in T /\ s[a] \in 1..k /\ a # c + 1
            <4>1. c \in Nat
                BY <3>4
            <4>2. \A a \in 1..c : s[a] \in U
                BY <3>5
            <4>3. \A a \in 1..c : a # c + 1
                BY <4>1
            <4> QED
                BY <3>1, <4>2, <4>3
        <3>8. t \in [1..c+1 -> T]
            BY <2>2, <3>6, <3>7
        <3>9. ASSUME NEW a \in 1..c+1, NEW b \in 1..c+1, a < b
              PROVE  t[a] < t[b]
            <4>1. a \in 1..c /\ t[a] = s[a]
                BY <3>4, <3>6, <3>7, <3>9
            <4>2. CASE b = c + 1
                <5>1. t[b] = k + 1
                    BY <4>2
                <5> QED
                    BY <4>1, <5>1, <3>7
            <4>3. CASE b \in 1..c
                <5>1. t[b] = s[b]
                    BY <4>3, <3>7
                <5> QED
                    BY <4>1, <4>3, <5>1, <3>5, <3>9
            <4> QED
                BY <4>2, <4>3, <3>6
        <3>10. IsAscending(t, T)
            <4> HIDE DEF t
            <4> QED
                BY <3>4, <3>8, <3>9 DEF IsAscending
        <3> HIDE DEF t
        <3> QED
            BY <3>10
    <2> QED
        BY <2>1, <2>2
<1>3. D = Nat
    <2> HIDE DEF D
    <2>1. D \subseteq Nat
        BY DEF D
    <2> QED
        BY <1>1, <1>2, <2>1, NatSetInduction
<1> QED
    BY <1>3

(* An ascending list of as many numbers as S has, has them all.            *)
LEMMA AscendingIsOnto ==
    ASSUME NEW S \in SUBSET Nat, IsFiniteSet(S), NEW s, IsAscending(s, S)
    PROVE  /\ s \in Seq(S) /\ Len(s) = Cardinality(S) /\ Cardinality(S) \in Nat
           /\ {s[a] : a \in 1..Len(s)} = S
<1> DEFINE c == Cardinality(S)
<1>1. c \in Nat
    BY FS_CardinalityType
<1> HIDE DEF c
<1>2. s \in [1..c -> S] /\ \A a, b \in 1..c : a < b => s[a] < s[b]
    BY DEF IsAscending, c
<1>3. s \in Injection(1..c, S)
    <2>1. \A a, b \in 1..c : s[a] = s[b] => a = b
        <3> SUFFICES ASSUME NEW a \in 1..c, NEW b \in 1..c, s[a] = s[b], a # b PROVE FALSE
            OBVIOUS
        <3>1. s[a] \in Nat /\ s[b] \in Nat
            BY <1>2
        <3>2. a < b \/ b < a
            OBVIOUS
        <3> QED
            BY <3>1, <3>2, <1>2
    <2> QED
        BY <2>1, <1>2 DEF Injection, IsInjective
<1>4. IsFiniteSet(1..c) /\ Cardinality(1..c) = c
    BY <1>1, FS_Interval
<1>5. s \in Surjection(1..c, S)
    BY <1>3, <1>4, FS_Injection DEF c
<1>6. {s[a] : a \in 1..c} = S
    BY <1>2, <1>5 DEF Surjection
<1>7. s \in Seq(S) /\ Len(s) = c
    BY <1>1, <1>2
<1> QED
    BY <1>1, <1>6, <1>7 DEF c

----------------------------------------------------------------------------
(* Dropping the greatest number of a set up to n, as FoldLeft does.        *)
DropMax(s) == s \ {Max(s)}

LEMMA DropMaxFacts ==
    ASSUME NEW n \in Nat, NEW s \in SUBSET (1..n+1)
    PROVE  /\ n + 1 \notin s => s \in SUBSET (1..n)
           /\ n + 1 \in s => Max(s) = n + 1 /\ DropMax(s) \in SUBSET (1..n)
<1>1. ASSUME n + 1 \in s PROVE Max(s) = n + 1
    <2>1. n + 1 \in Nat /\ s # {}
        BY <1>1
    <2>2. Max(s) \in s /\ \A y \in s : Max(s) >= y
        BY <2>1, MaxOfInterval
    <2>3. Max(s) \in 1..n+1 /\ Max(s) >= n + 1
        BY <1>1, <2>2
    <2> QED
        BY <2>3
<1>2. \A x \in s : x # n + 1 => x \in 1..n
    OBVIOUS
<1> QED
    BY <1>1, <1>2 DEF DropMax

(* Two functions on the sets of numbers up to n are one if they agree on   *)
(* the empty set, and on every other whenever they do without its greatest *)
(* number.                                                                 *)
LEMMA SetFoldUnique ==
    ASSUME NEW n \in Nat, NEW f, NEW g, f[{}] = g[{}],
           \A s \in SUBSET (1..n) : s # {} /\ f[DropMax(s)] = g[DropMax(s)] => f[s] = g[s]
    PROVE  \A s \in SUBSET (1..n) : f[s] = g[s]
<1> DEFINE D == {k \in 0..n : \A s \in SUBSET (1..k) : f[s] = g[s]}
<1>1. 0 \in D
    <2>1. 1..0 = {} /\ 0 \in 0..n
        OBVIOUS
    <2>2. \A s \in SUBSET (1..0) : s = {}
        BY <2>1
    <2> QED
        BY <2>1, <2>2
<1>2. ASSUME NEW k \in 0..n-1, k \in D PROVE k + 1 \in D
    <2> SUFFICES ASSUME NEW s \in SUBSET (1..k+1), k + 1 \in s PROVE f[s] = g[s]
        BY <1>2, DropMaxFacts
    <2>1. DropMax(s) \in SUBSET (1..k) /\ s \in SUBSET (1..n)
        BY DropMaxFacts
    <2>2. f[DropMax(s)] = g[DropMax(s)]
        BY <1>2, <2>1
    <2> QED
        BY <2>1, <2>2
<1>3. 0..n \subseteq D
    <2> HIDE DEF D
    <2> QED
        BY <1>1, <1>2, IntervalInduction
<1> QED
    BY <1>3

(* f folds the sets of numbers up to n from their least number on.         *)
IsSetFold(f, n, T, base, step) ==
    /\ f \in [SUBSET (1..n) -> T]
    /\ f[{}] = base
    /\ \A s \in SUBSET (1..n) : s # {} => f[s] = step[Max(s)][f[DropMax(s)]]

LEMMA SetFoldExists ==
    ASSUME NEW n \in Nat, NEW T, NEW base \in T, NEW step \in [1..n -> [T -> T]]
    PROVE  \E f : IsSetFold(f, n, T, base, step)
<1> DEFINE D == {k \in 0..n : \E f : IsSetFold(f, k, T, base, step)}
<1>1. 0 \in D
    <2>1. SUBSET (1..0) = {{}}
        OBVIOUS
    <2>2. IsSetFold([s \in {{}} |-> base], 0, T, base, step)
        BY <2>1 DEF IsSetFold
    <2> QED
        BY <2>2
<1>2. ASSUME NEW k \in 0..n-1, k \in D PROVE k + 1 \in D
    <2>1. PICK f : IsSetFold(f, k, T, base, step)
        BY <1>2
    <2> DEFINE g == [s \in SUBSET (1..k+1) |->
                        IF k + 1 \in s THEN step[k+1][f[DropMax(s)]] ELSE f[s]]
    <2>2. k \in Nat /\ k + 1 \in 0..n /\ step[k+1] \in [T -> T]
        OBVIOUS
    <2>3. ASSUME NEW s \in SUBSET (1..k+1)
          PROVE  /\ k + 1 \notin s => s \in SUBSET (1..k) /\ g[s] = f[s]
                 /\ k + 1 \in s => /\ Max(s) = k + 1 /\ DropMax(s) \in SUBSET (1..k)
                                   /\ g[s] = step[k+1][f[DropMax(s)]]
                 /\ g[s] \in T
        BY <2>1, <2>2, DropMaxFacts DEF IsSetFold
    <2>4. g \in [SUBSET (1..k+1) -> T]
        BY <2>3
    <2> HIDE DEF g
    <2>5. g[{}] = base
        BY <2>1, <2>3 DEF IsSetFold
    <2>6. ASSUME NEW s \in SUBSET (1..k+1), s # {}
          PROVE  g[s] = step[Max(s)][g[DropMax(s)]]
        <3>1. CASE k + 1 \in s
            <4>1. DropMax(s) \in SUBSET (1..k) /\ k + 1 \notin DropMax(s) /\ DropMax(s) \in SUBSET (1..k+1)
                BY <2>3, <3>1
            <4>2. g[DropMax(s)] = f[DropMax(s)]
                BY <2>3, <4>1
            <4> QED
                BY <2>3, <3>1, <4>2
        <3>2. CASE k + 1 \notin s
            <4>1. s \in SUBSET (1..k) /\ g[s] = f[s] /\ f[s] = step[Max(s)][f[DropMax(s)]]
                BY <2>1, <2>3, <2>6, <3>2 DEF IsSetFold
            <4>2. DropMax(s) \in SUBSET (1..k)
                BY <4>1 DEF DropMax
            <4>3. DropMax(s) \in SUBSET (1..k+1) /\ k + 1 \notin DropMax(s)
                BY <3>2 DEF DropMax
            <4>4. g[DropMax(s)] = f[DropMax(s)]
                BY <2>3, <4>2, <4>3
            <4> QED
                BY <4>1, <4>4
        <3> QED
            BY <3>1, <3>2
    <2>7. IsSetFold(g, k + 1, T, base, step)
        BY <2>4, <2>5, <2>6 DEF IsSetFold
    <2> QED
        BY <2>2, <2>7
<1>3. 0..n \subseteq D
    <2> HIDE DEF D
    <2> QED
        BY <1>1, <1>2, IntervalInduction
<1> QED
    BY <1>3

(* The fold of the first k numbers is a run.                               *)
LEMMA SetFoldIsRun ==
    ASSUME NEW n \in Nat, NEW T, NEW base, NEW step,
           NEW f, IsSetFold(f, n, T, base, step)
    PROVE  IsRun([k \in 0..n |-> f[1..k]], n, T, base, step)
<1> DEFINE r == [k \in 0..n |-> f[1..k]]
<1>1. r \in [0..n -> T]
    BY DEF IsSetFold
<1>2. r[0] = base
    <2>1. 1..0 = {}
        OBVIOUS
    <2> QED
        BY <2>1 DEF IsSetFold
<1>3. ASSUME NEW i \in 1..n PROVE r[i] = step[i][r[i-1]]
    <2>1. /\ 1..i \in SUBSET (1..n) /\ i \in 1..i /\ i \in 0..n
          /\ i - 1 \in 0..n /\ i \in Nat
        OBVIOUS
    <2>2. Max(1..i) = i
        <3>1. Max(1..i) \in 1..i /\ \A y \in 1..i : Max(1..i) >= y
            BY <2>1, MaxOfInterval
        <3> QED
            BY <2>1, <3>1
    <2>3. DropMax(1..i) = 1..i-1
        BY <2>1, <2>2 DEF DropMax
    <2>4. f[1..i] = step[i][f[1..i-1]]
        BY <2>1, <2>2, <2>3 DEF IsSetFold
    <2> QED
        BY <2>1, <2>4
<1> QED
    BY <1>1, <1>2, <1>3 DEF IsRun

----------------------------------------------------------------------------
(* Induction over the subsets of a finite set: what {} has, and every set  *)
(* whenever all sets with one element less have it, every subset has.      *)
LEMMA SubsetInduction ==
    ASSUME NEW S, IsFiniteSet(S), NEW D, {} \in D,
           \A s \in SUBSET S : s # {} /\ (\A x \in s : s \ {x} \in D) => s \in D
    PROVE  SUBSET S \subseteq D
<1> DEFINE n == Cardinality(S)
           E == {k \in 0..n : \A s \in SUBSET S : Cardinality(s) = k => s \in D}
<1>1. n \in Nat
    BY FS_CardinalityType
<1>2. \A s \in SUBSET S : IsFiniteSet(s) /\ Cardinality(s) \in 0..n
    BY <1>1, FS_Subset, FS_CardinalityType
<1>3. 0 \in E
    <2>1. \A s \in SUBSET S : Cardinality(s) = 0 => s = {}
        BY <1>2, FS_EmptySet
    <2>2. 0 \in 0..n
        BY <1>1
    <2> QED
        BY <2>1, <2>2
<1>4. ASSUME NEW k \in 0..n-1, k \in E PROVE k + 1 \in E
    <2>1. ASSUME NEW s \in SUBSET S, Cardinality(s) = k + 1 PROVE s \in D
        <3>1. s # {}
            <4>1. k + 1 # 0
                OBVIOUS
            <4> QED
                BY <2>1, <4>1, FS_EmptySet
        <3>2. \A x \in s : Cardinality(s \ {x}) = k /\ s \ {x} \in SUBSET S
            <4>1. IsFiniteSet(s) /\ (k + 1) - 1 = k
                BY <1>2
            <4> QED
                BY <2>1, <4>1, FS_RemoveElement
        <3> QED
            BY <1>4, <3>1, <3>2
    <2> QED
        BY <1>1, <2>1
<1>5. 0..n \subseteq E
    <2> HIDE DEF E, n
    <2> QED
        BY <1>1, <1>3, <1>4, IntervalInduction
<1> QED
    BY <1>2, <1>5

(* FoldSet takes an element of a set that AnyOf picks.                       *)
AnyOf(s) == CHOOSE x \in s : TRUE

(* f folds the subsets of S.                                               *)
FoldsSubsets(f, S, T, base, step) ==
    /\ f \in [SUBSET S -> T]
    /\ f[{}] = base
    /\ \A s \in SUBSET S : s # {} => f[s] = step[AnyOf(s)][f[s \ {AnyOf(s)}]]

LEMMA FoldSubsetsExists ==
    ASSUME NEW S, IsFiniteSet(S), NEW T, NEW base \in T, NEW step \in [S -> [T -> T]]
    PROVE  \E f : FoldsSubsets(f, S, T, base, step)
<1> DEFINE n == Cardinality(S)
           Upto(k) == {s \in SUBSET S : Cardinality(s) <= k}
           Folds(f, k) == /\ f \in [Upto(k) -> T]
                          /\ f[{}] = base
                          /\ \A s \in Upto(k) : s # {} => f[s] = step[AnyOf(s)][f[s \ {AnyOf(s)}]]
           D == {k \in 0..n : \E f : Folds(f, k)}
<1>1. n \in Nat
    BY FS_CardinalityType
<1>2. \A s \in SUBSET S : IsFiniteSet(s) /\ Cardinality(s) \in Nat /\ Cardinality(s) <= n
    BY <1>1, FS_Subset, FS_CardinalityType
<1>3. \A k \in Nat : {} \in Upto(k)
    BY FS_EmptySet
<1>4. ASSUME NEW k \in Nat, NEW s \in Upto(k + 1), s # {}
      PROVE  AnyOf(s) \in S /\ s \ {AnyOf(s)} \in Upto(k)
    <2>1. AnyOf(s) \in s
        BY <1>4 DEF AnyOf
    <2>2. Cardinality(s \ {AnyOf(s)}) = Cardinality(s) - 1 /\ Cardinality(s) \in Nat
        BY <1>2, <2>1, FS_RemoveElement
    <2> QED
        BY <1>4, <2>1, <2>2
<1>5. 0 \in D
    <2>1. \A s \in Upto(0) : s = {}
        BY <1>2, FS_EmptySet
    <2>2. Folds([s \in Upto(0) |-> base], 0)
        BY <1>3, <2>1
    <2>3. 0 \in 0..n
        BY <1>1
    <2> HIDE DEF Folds
    <2> QED
        BY <2>2, <2>3
<1>6. ASSUME NEW k \in 0..n-1, k \in D PROVE k + 1 \in D
    <2>1. PICK f : Folds(f, k)
        BY <1>6
    <2>2. k \in Nat /\ k + 1 \in 0..n
        BY <1>1
    <2> DEFINE g == [s \in Upto(k + 1) |->
                        IF s = {} THEN base ELSE step[AnyOf(s)][f[s \ {AnyOf(s)}]]]
    <2>3. Upto(k) \subseteq Upto(k + 1)
        BY <1>2, <2>2
    <2>4. {} \in Upto(k) /\ {} \in Upto(k + 1)
        BY <1>3, <2>2
    <2>5. \A s \in Upto(k + 1) : s # {} => AnyOf(s) \in S /\ s \ {AnyOf(s)} \in Upto(k)
        BY <1>4, <2>2
    <2> HIDE DEF Upto
    <2>6. g \in [Upto(k + 1) -> T]
        <3>1. \A s \in Upto(k + 1) : s # {} => step[AnyOf(s)] \in [T -> T] /\ f[s \ {AnyOf(s)}] \in T
            BY <2>1, <2>5
        <3> QED
            BY <3>1
    <2>7. g[{}] = base
        BY <2>4
    <2>8. \A s \in Upto(k) : g[s] = f[s]
        BY <2>1, <2>3
    <2>9. \A s \in Upto(k + 1) : s # {} => g[s] = step[AnyOf(s)][g[s \ {AnyOf(s)}]]
        BY <2>5, <2>8
    <2> HIDE DEF g
    <2>10. Folds(g, k + 1)
        BY <2>6, <2>7, <2>9
    <2> QED
        BY <2>2, <2>10
<1>7. 0..n \subseteq D
    <2> HIDE DEF D, n
    <2> QED
        BY <1>1, <1>5, <1>6, IntervalInduction
<1>8. Upto(n) = SUBSET S
    BY <1>2
<1>9. PICK f : Folds(f, n)
    <2>1. n \in D
        <3>1. n \in 0..n
            BY <1>1
        <3> HIDE DEF D
        <3> QED
            BY <1>7, <3>1
    <2> HIDE DEF Folds
    <2> QED
        BY <2>1
<1> QED
    BY <1>8, <1>9 DEF FoldsSubsets

(* A fold stays in a set that its steps stay in.                           *)
LEMMA FoldStays ==
    ASSUME NEW S, IsFiniteSet(S), NEW f, NEW T, f[{}] \in T,
           \A s \in SUBSET S : s # {} /\ f[s \ {AnyOf(s)}] \in T => f[s] \in T
    PROVE  f[S] \in T
<1> DEFINE D == {s \in SUBSET S : f[s] \in T}
<1>1. {} \in D
    OBVIOUS
<1>2. ASSUME NEW s \in SUBSET S, s # {}, \A x \in s : s \ {x} \in D PROVE s \in D
    BY <1>2 DEF AnyOf
<1>3. SUBSET S \subseteq D
    <2> HIDE DEF D
    <2> QED
        BY <1>1, <1>2, SubsetInduction
<1> QED
    BY <1>3

----------------------------------------------------------------------------
(* FlattenSeq takes another sequence at its end.                           *)
LEMMA FlattenSeqAppend ==
    ASSUME NEW S, NEW seqs \in Seq(Seq(S)), NEW t \in Seq(S)
    PROVE  FlattenSeq(Append(seqs, t)) = FlattenSeq(seqs) \o t
<1> DEFINE n == Len(seqs)
           more == Append(seqs, t)
<1>1. /\ n \in Nat /\ more \in Seq(Seq(S)) /\ Len(more) = n + 1
      /\ (\A k \in 1..n : more[k] = seqs[k]) /\ more[n + 1] = t
    BY LenProperties, AppendProperties
<1>2. more # <<>>
    BY <1>1, EmptySeq
<1>3. PICK h \in [1..n+1 -> Seq(S)] :
          /\ h[1] = more[1]
          /\ \A i \in 2..n+1 : h[i] = h[i-1] \o more[i]
          /\ FlattenSeq(more) = h[n+1]
    <2> HIDE DEF n, more
    <2>1. PICK h \in [1..Len(more) -> Seq(S)] :
              /\ h[1] = more[1]
              /\ \A i \in 2..Len(more) : h[i] = h[i-1] \o more[i]
              /\ FlattenSeq(more) = h[Len(more)]
        BY <1>1, <1>2, FlattenSeqRun
    <2>2. Len(more) = n + 1
        BY <1>1
    <2> QED
        BY <2>1, <2>2, Zenon
<1>4. CASE seqs = <<>>
    <2>1. n = 0 /\ FlattenSeq(seqs) = <<>>
        BY <1>4, EmptySeq DEF FlattenSeq
    <2>2. FlattenSeq(more) = t
        BY <1>1, <1>3, <2>1
    <2>3. <<>> \o t = t
        BY ConcatEmptySeq
    <2> QED
        BY <2>1, <2>2, <2>3
<1>5. CASE seqs # <<>>
    <2>1. PICK g \in [1..n -> Seq(S)] :
              /\ g[1] = seqs[1]
              /\ \A i \in 2..n : g[i] = g[i-1] \o seqs[i]
              /\ FlattenSeq(seqs) = g[n]
        BY <1>5, FlattenSeqRun
    <2>2. n >= 1
        BY <1>1, <1>5, EmptySeq
    <2> HIDE DEF n, more
    <2> DEFINE D == {k \in 0..n : k # 0 => h[k] = g[k]}
    <2>3. 0 \in D
        BY <1>1
    <2>4. ASSUME NEW k \in 0..n-1, k \in D PROVE k + 1 \in D
        <3>1. k + 1 \in 0..n /\ k + 1 \in 1..n
            BY <1>1
        <3>2. CASE k = 0
            BY <3>1, <3>2, <1>1, <1>3, <2>1
        <3>3. CASE k # 0
            <4>1. k + 1 \in 2..n /\ k + 1 \in 2..n+1 /\ (k + 1) - 1 = k
                BY <1>1, <3>3
            <4>2. h[k] = g[k] /\ more[k+1] = seqs[k+1]
                BY <2>4, <3>1, <3>3, <1>1
            <4>3. h[k+1] = h[k] \o more[k+1]
                BY <4>1, <1>3, Zenon
            <4>4. g[k+1] = g[k] \o seqs[k+1]
                BY <4>1, <2>1, Zenon
            <4>5. h[k+1] = g[k+1]
                BY <4>2, <4>3, <4>4, Zenon
            <4> QED
                BY <3>1, <4>5
        <3> QED
            BY <3>2, <3>3
    <2>5. 0..n \subseteq D
        <3> HIDE DEF D
        <3> QED
            BY <1>1, <2>3, <2>4, IntervalInduction
    <2>6. h[n] = g[n]
        BY <1>1, <2>2, <2>5
    <2>7. n + 1 \in 2..n+1 /\ (n + 1) - 1 = n
        BY <1>1, <2>2
    <2>8. h[n+1] = h[n] \o more[n+1]
        BY <2>7, <1>3, Zenon
    <2>9. FlattenSeq(more) = FlattenSeq(seqs) \o t
        BY <1>1, <1>3, <2>1, <2>6, <2>8, Zenon
    <2> QED
        BY <2>9 DEF more
<1> QED
    BY <1>4, <1>5

(* Induction over sequences: what the empty sequence has, and a sequence   *)
(* with one more element whenever the sequence has it.                     *)
LEMMA SeqSetInduction ==
    ASSUME NEW S, NEW D, D \subseteq Seq(S), <<>> \in D,
           \A s \in D : \A e \in S : Append(s, e) \in D
    PROVE  D = Seq(S)
<1> SUFFICES ASSUME NEW b \in Seq(S) PROVE b \in D
    OBVIOUS
<1> DEFINE n == Len(b)
           E == {k \in 0..n : SubSeq(b, 1, k) \in D}
<1>1. n \in Nat
    BY LenProperties
<1>2. 0 \in E
    <2>1. SubSeq(b, 1, 0) = <<>> /\ 0 \in 0..n
        BY <1>1, SubSeqEmpty
    <2> QED
        BY <2>1
<1>3. ASSUME NEW k \in 0..n-1, k \in E PROVE k + 1 \in E
    <2>1. /\ k + 1 \in 1..n /\ k \in Int /\ k + 1 \in 0..n /\ (k + 1) - 1 = k
          /\ 1 \in 1..n /\ k + 1 \in 1..k+1
        BY <1>1
    <2>2. b[k+1] \in S
        BY <2>1, ElementOfSeq
    <2>3. SubSeq(b, 1, k + 1) = SubSeq(b, 1, (k + 1) - 1) \o <<b[k+1]>>
        BY <2>1, SubSeqRecursiveSecond
    <2>4. SubSeq(b, 1, k) \in D /\ SubSeq(b, 1, k) \in Seq(S)
        BY <1>3
    <2>5. SubSeq(b, 1, k + 1) = Append(SubSeq(b, 1, k), b[k+1])
        BY <2>1, <2>2, <2>3, <2>4, AppendIsConcat
    <2> QED
        BY <2>1, <2>2, <2>4, <2>5
<1>4. 0..n \subseteq E
    <2> HIDE DEF E
    <2> QED
        BY <1>1, <1>2, <1>3, IntervalInduction
<1>5. SubSeq(b, 1, n) = b /\ n \in 0..n
    BY <1>1, SubSeqFull
<1>6. SubSeq(b, 1, n) \in D
    BY <1>4, <1>5
<1> QED
    BY <1>5, <1>6

LEMMA ConcatAppend ==
    ASSUME NEW S, NEW a \in Seq(S), NEW b \in Seq(S), NEW e \in S
    PROVE  a \o Append(b, e) = Append(a \o b, e)
<1>1. <<e>> \in Seq(S) /\ a \o b \in Seq(S)
    BY ConcatProperties
<1>2. Append(b, e) = b \o <<e>> /\ Append(a \o b, e) = (a \o b) \o <<e>>
    BY <1>1, AppendIsConcat
<1>3. (a \o b) \o <<e>> = a \o (b \o <<e>>)
    BY <1>1, ConcatAssociative
<1> QED
    BY <1>2, <1>3

(* FlattenSeq is a homomorphism.                                           *)
LEMMA FlattenSeqConcat ==
    ASSUME NEW S, NEW a \in Seq(Seq(S)), NEW b \in Seq(Seq(S))
    PROVE  FlattenSeq(a \o b) = FlattenSeq(a) \o FlattenSeq(b)
<1> DEFINE D == {s \in Seq(Seq(S)) : FlattenSeq(a \o s) = FlattenSeq(a) \o FlattenSeq(s)}
<1>1. FlattenSeq(a) \in Seq(S)
    BY FlattenSeqFacts
<1>2. <<>> \in D
    <2>1. FlattenSeq(<<>>) = <<>> /\ <<>> \in Seq(Seq(S))
        BY EmptySeq DEF FlattenSeq
    <2>2. a \o <<>> = a /\ FlattenSeq(a) \o <<>> = FlattenSeq(a)
        BY <1>1, ConcatEmptySeq
    <2> QED
        BY <2>1, <2>2
<1>3. ASSUME NEW p \in D, NEW q \in Seq(S) PROVE Append(p, q) \in D
    <2>1. p \in Seq(Seq(S)) /\ FlattenSeq(p) \in Seq(S)
        BY FlattenSeqFacts
    <2>6. FlattenSeq(a \o p) = FlattenSeq(a) \o FlattenSeq(p)
        OBVIOUS
    <2> HIDE DEF D
    <2>2. /\ a \o Append(p, q) = Append(a \o p, q) /\ a \o p \in Seq(Seq(S))
          /\ Append(p, q) \in Seq(Seq(S))
        <3> DEFINE T == Seq(S)
        <3>0. a \in Seq(T) /\ p \in Seq(T) /\ q \in T
            BY <2>1
        <3> HIDE DEF T
        <3>1. a \o Append(p, q) = Append(a \o p, q)
            BY <3>0, ConcatAppend
        <3>2. a \o p \in Seq(Seq(S))
            BY <2>1, ConcatProperties
        <3>3. Append(p, q) \in Seq(Seq(S))
            BY <2>1, AppendProperties
        <3> QED
            BY <3>1, <3>2, <3>3
    <2>3. FlattenSeq(Append(a \o p, q)) = FlattenSeq(a \o p) \o q
        BY <2>2, FlattenSeqAppend
    <2>4. FlattenSeq(Append(p, q)) = FlattenSeq(p) \o q
        BY <2>1, FlattenSeqAppend
    <2>5. (FlattenSeq(a) \o FlattenSeq(p)) \o q = FlattenSeq(a) \o (FlattenSeq(p) \o q)
        BY <1>1, <2>1, ConcatAssociative, SMTT(30)
    <2>7. FlattenSeq(a \o Append(p, q)) = FlattenSeq(a) \o FlattenSeq(Append(p, q))
        BY <2>2, <2>3, <2>4, <2>5, <2>6, Zenon
    <2> QED
        BY <2>2, <2>7 DEF D
<1>4. D = Seq(Seq(S))
    <2>1. D \subseteq Seq(Seq(S))
        OBVIOUS
    <2> HIDE DEF D
    <2> QED
        BY <1>2, <1>3, <2>1, SeqSetInduction
<1> QED
    BY <1>4
----------------------------------------------------------------------------
(* A strict total order on S, given by the elements below each.            *)
IsStrictOrder(below, S) ==
    /\ below \in [S -> SUBSET S]
    /\ \A x \in S : x \notin below[x]
    /\ \A x, y \in S : x # y => x \in below[y] \/ y \in below[x]
    /\ \A x, y \in S : y \in below[x] => below[y] \subseteq below[x]

(* The element of a set with i - 1 elements below it comes ith.            *)
ByRank(S, below) ==
    [i \in 1..Cardinality(S) |-> CHOOSE x \in S : Cardinality(below[x]) = i - 1]

(* s has every element of S, in order and therefore once.                  *)
Lists(s, S, below) ==
    /\ s \in Seq(S)
    /\ \A x \in S : \E i \in 1..Len(s) : s[i] = x
    /\ \A i, j \in 1..Len(s) : i < j => s[i] \in below[s[j]]

(* The number of elements below tells the elements of a set apart and is   *)
(* any number up to the size of the set.                                   *)
LEMMA RankFacts ==
    ASSUME NEW S, IsFiniteSet(S), NEW below, IsStrictOrder(below, S)
    PROVE  /\ \A x \in S : Cardinality(below[x]) \in 0..Cardinality(S)-1
           /\ \A x, y \in S : y \in below[x] <=> Cardinality(below[y]) < Cardinality(below[x])
           /\ \A x, y \in S : Cardinality(below[x]) = Cardinality(below[y]) => x = y
           /\ \A k \in 0..Cardinality(S)-1 : \E x \in S : Cardinality(below[x]) = k
<1> DEFINE c == Cardinality(S)
           rank == [x \in S |-> Cardinality(below[x])]
<1>1. c \in Nat
    BY FS_CardinalityType
<1>2. \A x \in S : below[x] \subseteq S /\ x \notin below[x]
    BY DEF IsStrictOrder
<1>3. ASSUME NEW x \in S PROVE rank[x] \in 0..c-1
    <2>1. IsFiniteSet(S \ {x}) /\ Cardinality(S \ {x}) = c - 1
        BY FS_RemoveElement
    <2>2. below[x] \in SUBSET (S \ {x})
        BY <1>2
    <2>3. IsFiniteSet(below[x]) /\ Cardinality(below[x]) <= Cardinality(S \ {x})
        BY <2>1, <2>2, FS_Subset
    <2>4. Cardinality(below[x]) \in Nat
        BY <2>3, FS_CardinalityType
    <2> HIDE DEF c
    <2> QED
        BY <1>1, <2>1, <2>3, <2>4
<1>4. ASSUME NEW x \in S, NEW y \in S, y \in below[x] PROVE rank[y] < rank[x]
    <2>1. below[y] \in SUBSET below[x] /\ y \notin below[y]
        BY <1>4 DEF IsStrictOrder
    <2>2. IsFiniteSet(below[x])
        BY <1>2, FS_Subset
    <2>3. /\ Cardinality(below[y]) <= Cardinality(below[x])
          /\ Cardinality(below[x]) = Cardinality(below[y]) => below[x] = below[y]
        BY <2>1, <2>2, FS_Subset
    <2>4. rank[y] <= rank[x] /\ rank[y] # rank[x]
        BY <1>4, <2>1, <2>3
    <2>5. rank[x] \in 0..c-1 /\ rank[y] \in 0..c-1
        BY <1>3
    <2> HIDE DEF rank, c
    <2> QED
        BY <1>1, <2>4, <2>5
<1> HIDE DEF c
<1>5. ASSUME NEW x \in S, NEW y \in S, x # y PROVE rank[x] < rank[y] \/ rank[y] < rank[x]
    <2>1. x \in below[y] \/ y \in below[x]
        BY <1>5 DEF IsStrictOrder
    <2> QED
        BY <1>4, <2>1
<1>6. rank \in [S -> 0..c-1]
    BY <1>3
<1> DEFINE r == rank
<1> HIDE DEF rank
<1>7. \A x, y \in S : r[x] \in Int /\ (r[x] = r[y] => x = y)
    BY <1>1, <1>5, <1>6
<1>8. \A x, y \in S : y \in below[x] <=> r[y] < r[x]
    <2> SUFFICES ASSUME NEW x \in S, NEW y \in S, r[y] < r[x] PROVE y \in below[x]
        BY <1>4
    <2>1. x # y /\ ~(r[x] < r[y])
        BY <1>7
    <2>2. x \in below[y] \/ y \in below[x]
        BY <2>1 DEF IsStrictOrder
    <2> QED
        BY <1>4, <2>1, <2>2
<1>9. \A k \in 0..c-1 : \E x \in S : r[x] = k
    <2>1. r \in Injection(S, 0..c-1)
        BY <1>6, <1>7 DEF Injection, IsInjective
    <2>2. IsFiniteSet(0..c-1) /\ Cardinality(0..c-1) = c
        BY <1>1, FS_Interval
    <2>3. r \in Surjection(S, 0..c-1)
        BY <2>1, <2>2, FS_Injection DEF c
    <2> QED
        BY <2>3 DEF Surjection
<1>10. \A x \in S : r[x] = Cardinality(below[x])
    BY DEF rank
<1> HIDE DEF r
<1>11. \A x \in S : Cardinality(below[x]) \in 0..c-1
    BY <1>6, <1>10 DEF r
<1>12. \A x, y \in S : y \in below[x] <=> Cardinality(below[y]) < Cardinality(below[x])
    BY <1>8, <1>10
<1>13. \A x, y \in S : Cardinality(below[x]) = Cardinality(below[y]) => x = y
    BY <1>7, <1>10
<1>14. \A k \in 0..c-1 : \E x \in S : Cardinality(below[x]) = k
    BY <1>9, <1>10
<1> QED
    BY <1>11, <1>12, <1>13, <1>14 DEF c

LEMMA ByRankLists ==
    ASSUME NEW S, IsFiniteSet(S), NEW below, IsStrictOrder(below, S)
    PROVE  /\ Lists(ByRank(S, below), S, below)
           /\ Len(ByRank(S, below)) = Cardinality(S) /\ Cardinality(S) \in Nat
<1> DEFINE c == Cardinality(S)
           s == ByRank(S, below)
           r(x) == Cardinality(below[x])
<1>1. c \in Nat
    BY FS_CardinalityType
<1>2. /\ \A x \in S : r(x) \in 0..c-1
      /\ \A x, y \in S : y \in below[x] <=> r(y) < r(x)
      /\ \A x, y \in S : r(x) = r(y) => x = y
      /\ \A k \in 0..c-1 : \E x \in S : r(x) = k
    BY RankFacts
<1>3. s = [i \in 1..c |-> CHOOSE x \in S : r(x) = i - 1]
    BY DEF ByRank
<1> HIDE DEF c, s, r
<1>4. ASSUME NEW i \in 1..c PROVE s[i] \in S /\ r(s[i]) = i - 1
    <2>1. i - 1 \in 0..c-1
        BY <1>1
    <2>2. \E x \in S : r(x) = i - 1
        BY <1>2, <2>1
    <2>3. s[i] = CHOOSE x \in S : r(x) = i - 1
        BY <1>3, Zenon
    <2> QED
        BY <2>2, <2>3, Zenon
<1>5. s \in Seq(S) /\ Len(s) = c
    <2>1. s \in [1..c -> S]
        BY <1>3, <1>4
    <2> QED
        BY <1>1, <2>1
<1>6. ASSUME NEW x \in S PROVE \E i \in 1..c : s[i] = x
    <2>1. r(x) \in 0..c-1
        BY <1>2
    <2>2. r(x) + 1 \in 1..c /\ (r(x) + 1) - 1 = r(x)
        BY <1>1, <2>1
    <2>3. s[r(x) + 1] \in S /\ r(s[r(x) + 1]) = r(x)
        BY <1>4, <2>2
    <2> QED
        BY <1>2, <2>2, <2>3
<1>7. \A i, j \in 1..c : i < j => s[i] \in below[s[j]]
    <2> SUFFICES ASSUME NEW i \in 1..c, NEW j \in 1..c, i < j PROVE s[i] \in below[s[j]]
        OBVIOUS
    <2>1. r(s[i]) < r(s[j])
        BY <1>1, <1>4
    <2> QED
        BY <1>2, <1>4, <2>1
<1>8. Lists(s, S, below)
    BY <1>5, <1>6, <1>7 DEF Lists
<1> QED
    BY <1>1, <1>5, <1>8 DEF s, c

(* There is only one such list.                                            *)
LEMMA ListIsByRank ==
    ASSUME NEW S, IsFiniteSet(S), NEW below, IsStrictOrder(below, S),
           NEW s, Lists(s, S, below)
    PROVE  s = ByRank(S, below)
<1> DEFINE n == Len(s)
           t == ByRank(S, below)
           c == Cardinality(S)
           r(x) == Cardinality(below[x])
<1>1. /\ s \in Seq(S) /\ n \in Nat /\ s \in [1..n -> S]
      /\ \A x \in S : \E i \in 1..n : s[i] = x
      /\ \A i, j \in 1..n : i < j => s[i] \in below[s[j]]
    BY LenProperties DEF Lists
<1>2. \A x \in S : x \notin below[x] /\ below[x] \subseteq S
    BY DEF IsStrictOrder
<1> HIDE DEF n
<1>3. \A i, j \in 1..n : s[i] = s[j] => i = j
    <2> SUFFICES ASSUME NEW i \in 1..n, NEW j \in 1..n, s[i] = s[j], i < j PROVE FALSE
        BY <1>1
    <2> QED
        BY <1>1, <1>2
<1>4. \A j \in 1..n : below[s[j]] = {s[i] : i \in 1..j-1}
    <2> SUFFICES ASSUME NEW j \in 1..n PROVE below[s[j]] = {s[i] : i \in 1..j-1}
        OBVIOUS
    <2>1. ASSUME NEW x \in below[s[j]] PROVE x \in {s[i] : i \in 1..j-1}
        <3>1. s[j] \in S /\ x \in S
            BY <1>1, <1>2
        <3>2. PICK i \in 1..n : s[i] = x
            BY <1>1, <3>1
        <3>3. i # j
            BY <1>2, <3>1, <3>2, <2>1
        <3>4. ~(j < i)
            <4> SUFFICES ASSUME j < i PROVE FALSE
                OBVIOUS
            <4>1. s[j] \in below[x]
                BY <1>1, <3>2
            <4>2. below[s[j]] \subseteq below[x]
                BY <3>1, <2>1, <4>1 DEF IsStrictOrder
            <4>3. x \in below[x]
                BY <2>1, <4>2
            <4> QED
                BY <1>2, <3>1, <4>3
        <3>5. i \in 1..j-1
            BY <1>1, <3>3, <3>4
        <3> QED
            BY <3>2, <3>5
    <2>2. ASSUME NEW i \in 1..j-1 PROVE s[i] \in below[s[j]]
        <3>1. i \in 1..n /\ i < j
            BY <1>1
        <3> QED
            BY <1>1, <3>1
    <2> QED
        BY <2>1, <2>2
<1>5. \A j \in 1..n : r(s[j]) = j - 1
    <2> SUFFICES ASSUME NEW j \in 1..n PROVE r(s[j]) = j - 1
        OBVIOUS
    <2> DEFINE U == {s[i] : i \in 1..j-1}
               f == [i \in 1..j-1 |-> s[i]]
    <2>1. j - 1 \in Nat /\ \A i \in 1..j-1 : i \in 1..n
        BY <1>1
    <2>2. f \in Bijection(1..j-1, U)
        <3>1. f \in [1..j-1 -> U]
            OBVIOUS
        <3>2. \A a, b \in 1..j-1 : f[a] = f[b] => a = b
            BY <1>3, <2>1
        <3>3. \A u \in U : \E a \in 1..j-1 : f[a] = u
            OBVIOUS
        <3> HIDE DEF f, U
        <3> QED
            BY <3>1, <3>2, <3>3 DEF Bijection, Injection, Surjection, IsInjective
    <2>3. IsFiniteSet(1..j-1) /\ Cardinality(1..j-1) = j - 1
        BY <2>1, FS_Interval
    <2>4. Cardinality(U) = j - 1
        BY <2>2, <2>3, FS_Bijection DEF ExistsBijection
    <2>5. below[s[j]] = U
        BY <1>4
    <2> QED
        BY <2>4, <2>5
<1>6. n = c
    <2>1. s \in Bijection(1..n, S)
        BY <1>1, <1>3 DEF Bijection, Injection, Surjection, IsInjective
    <2>2. IsFiniteSet(1..n) /\ Cardinality(1..n) = n
        BY <1>1, FS_Interval
    <2> QED
        BY <2>1, <2>2, FS_Bijection DEF ExistsBijection
<1>7. Lists(t, S, below) /\ Len(t) = c
    BY ByRankLists
<1>8. t \in Seq(S) /\ \A i \in 1..c : t[i] = CHOOSE x \in S : r(x) = i - 1
    BY <1>7 DEF Lists, ByRank
<1>9. \A x, y \in S : r(x) = r(y) => x = y
    BY RankFacts
<1> HIDE DEF t, c, r
<1>10. \A i \in 1..n : t[i] = s[i]
    <2> SUFFICES ASSUME NEW i \in 1..n PROVE t[i] = s[i]
        OBVIOUS
    <2>1. s[i] \in S /\ r(s[i]) = i - 1
        BY <1>1, <1>5
    <2>2. t[i] = CHOOSE x \in S : r(x) = i - 1
        BY <1>6, <1>8
    <2>3. t[i] \in S /\ r(t[i]) = i - 1
        BY <2>1, <2>2, Zenon
    <2> QED
        BY <1>9, <2>1, <2>3
<1>11. Len(s) = n
    BY DEF n
<1>12. s = t
    BY <1>1, <1>6, <1>7, <1>8, <1>10, <1>11, SeqEqual
<1> QED
    BY <1>12 DEF t
----------------------------------------------------------------------------

(* The files the scan reads, and what findManifests makes of them.         *)
FilesTyped(F) == \A f \in F : f.yaml \in BOOLEAN /\ f.reads \in BOOLEAN /\ f.csa \in BOOLEAN

ManifestsOf(F) == {m \in [file: F, isLocal: BOOLEAN] : m.isLocal = isLocalManifest(m.file)}

BundlesWith(M) == [manifests: Seq(M), isLocal: BOOLEAN]

(* The variables of normalizeManifests' inner loop.                        *)
LoopStates(M) ==
    [bundles: Seq(BundlesWith(M)), current: BundlesWith(M), isLocal: BOOLEAN]

LoopStart == [bundles |-> <<>>, current |-> EmptyBundle(FALSE), isLocal |-> FALSE]

LEMMA LoopStartType ==
    ASSUME NEW M
    PROVE  LoopStart \in LoopStates(M)
<1>1. <<>> \in Seq(BundlesWith(M)) /\ <<>> \in Seq(M)
    BY EmptySeq
<1> QED
    BY <1>1 DEF LoopStart, LoopStates, BundlesWith, EmptyBundle

LEMMA CloseType ==
    ASSUME NEW M, NEW acc \in LoopStates(M)
    PROVE  /\ Close(acc) \in Seq(BundlesWith(M))
           /\ Close(acc) = IF acc.current.manifests = <<>> THEN acc.bundles
                           ELSE Append(acc.bundles, acc.current)
<1>1. acc.bundles \in Seq(BundlesWith(M)) /\ acc.current \in BundlesWith(M)
    BY DEF LoopStates
<1> QED
    BY <1>1, AppendProperties DEF Close

(* One round of the loop, by the cases of the code.                        *)
LEMMA AddManifestFacts ==
    ASSUME NEW M, NEW acc \in LoopStates(M), NEW m \in M, m.isLocal \in BOOLEAN,
           NEW next, next = AddManifest(acc, m)
    PROVE  /\ next \in LoopStates(M)
           /\ next.isLocal = m.isLocal
           /\ next.current.isLocal =
                 IF acc.isLocal # m.isLocal THEN m.isLocal ELSE acc.current.isLocal
           /\ next.bundles =
                 IF acc.isLocal # m.isLocal \/ m.isLocal THEN Close(acc) ELSE acc.bundles
           /\ next.current.manifests =
                 IF acc.isLocal # m.isLocal \/ m.isLocal THEN <<m>>
                 ELSE Append(acc.current.manifests, m)
<1> DEFINE other == [bundles |-> Close(acc), current |-> EmptyBundle(m.isLocal),
                     isLocal |-> m.isLocal]
           state(bs, ms, b, l) ==
               [bundles |-> bs, current |-> [manifests |-> ms, isLocal |-> b], isLocal |-> l]
<1>1. /\ acc.bundles \in Seq(BundlesWith(M))
      /\ acc.isLocal \in BOOLEAN /\ acc.current.manifests \in Seq(M)
      /\ acc.current.isLocal \in BOOLEAN
      /\ acc = [bundles |-> acc.bundles, current |-> acc.current, isLocal |-> acc.isLocal]
      /\ acc.current = [manifests |-> acc.current.manifests, isLocal |-> acc.current.isLocal]
    BY DEF LoopStates, BundlesWith
<1>2. Close(acc) \in Seq(BundlesWith(M))
    BY CloseType
<1>3. /\ <<m>> \in Seq(M) /\ Append(acc.current.manifests, m) \in Seq(M)
      /\ Append(<<>>, m) = <<m>>
    BY <1>1, AppendProperties
<1>4. Close(other) = Close(acc)
    BY DEF Close, EmptyBundle
<1>5. ASSUME NEW bs \in Seq(BundlesWith(M)), NEW ms \in Seq(M), NEW b \in BOOLEAN, NEW l \in BOOLEAN
      PROVE  state(bs, ms, b, l) \in LoopStates(M)
    BY <1>5 DEF LoopStates, BundlesWith
<1>6. CASE acc.isLocal # m.isLocal
    <2>1. next = state(Close(acc), <<m>>, m.isLocal, m.isLocal)
        BY <1>3, <1>4, <1>6 DEF AddManifest, EmptyBundle
    <2>2. next \in LoopStates(M)
        BY <1>2, <1>3, <1>5, <2>1
    <2> QED
        BY <1>6, <2>1, <2>2
<1>7. CASE acc.isLocal = m.isLocal /\ m.isLocal
    <2>1. next = state(Close(acc), <<m>>, acc.current.isLocal, acc.isLocal)
        BY <1>1, <1>7 DEF AddManifest
    <2>2. next \in LoopStates(M)
        BY <1>1, <1>2, <1>3, <1>5, <2>1
    <2> QED
        BY <1>7, <2>1, <2>2
<1>8. CASE acc.isLocal = m.isLocal /\ ~m.isLocal
    <2>1. next = state(acc.bundles, Append(acc.current.manifests, m), acc.current.isLocal, acc.isLocal)
        BY <1>1, <1>8 DEF AddManifest
    <2>2. next \in LoopStates(M)
        BY <1>1, <1>3, <1>5, <2>1
    <2> QED
        BY <1>8, <2>1, <2>2
<1> QED
    BY <1>6, <1>7, <1>8

(* FoldLeft as a run over the manifests of a directory.                    *)
LEMMA NormalizeRun ==
    ASSUME NEW M, \A m \in M : m.isLocal \in BOOLEAN, NEW ms \in Seq(M)
    PROVE  \E r \in [0..Len(ms) -> LoopStates(M)] :
               /\ r[0] = LoopStart
               /\ \A i \in 1..Len(ms) : r[i] = AddManifest(r[i-1], ms[i])
               /\ normalizeDir(ms) = Close(r[Len(ms)])
<1> DEFINE n == Len(ms)
           T == LoopStates(M)
           step == [i \in 1..n |-> [acc \in T |-> AddManifest(acc, ms[i])]]
           IsFold(f) == f = [s \in SUBSET (1..n) |->
                                IF s = {} THEN LoopStart
                                ELSE AddManifest(f[s \ {Max(s)}], ms[Max(s)])]
<1>1. n \in Nat /\ DOMAIN ms = 1..n /\ \A i \in 1..n : ms[i] \in M
    BY LenProperties
<1>2. normalizeDir(ms) = Close((CHOOSE f : IsFold(f))[1..n])
    BY <1>1, Zenon DEF normalizeDir, FoldLeft, MapThenFoldSet, LoopStart
<1> HIDE DEF n, T
<1>3. \A i \in 1..n : \A acc \in T : AddManifest(acc, ms[i]) \in T
    BY <1>1, AddManifestFacts DEF T
<1>4. step \in [1..n -> [T -> T]]
    BY <1>3, Zenon
<1>5. \A i \in 1..n : \A acc \in T : step[i][acc] = AddManifest(acc, ms[i])
    BY Zenon
<1> HIDE DEF step
<1>6. LoopStart \in T
    BY LoopStartType DEF T
<1>7. PICK f : IsSetFold(f, n, T, LoopStart, step)
    BY <1>1, <1>4, <1>6, SetFoldExists
<1>8. ASSUME NEW s \in SUBSET (1..n), s # {}
      PROVE  f[s] = AddManifest(f[s \ {Max(s)}], ms[Max(s)])
    <2>1. Max(s) \in 1..n
        BY <1>1, <1>8, MaxOfInterval
    <2>2. f[s] = step[Max(s)][f[s \ {Max(s)}]] /\ f[s \ {Max(s)}] \in T
        BY <1>7, <1>8 DEF IsSetFold, DropMax
    <2> QED
        BY <2>1, <2>2, <1>5, Zenon
<1>9. f = [s \in SUBSET (1..n) |-> f[s]] /\ f[{}] = LoopStart
    BY <1>7 DEF IsSetFold
<1>10. IsFold(f)
    <2>1. \A s \in SUBSET (1..n) :
              f[s] = IF s = {} THEN LoopStart ELSE AddManifest(f[s \ {Max(s)}], ms[Max(s)])
        BY <1>8, <1>9, Zenon
    <2> QED
        BY <1>9, <2>1, Zenon
<1>11. ASSUME NEW g, IsFold(g)
       PROVE  g = f
    <2>1. /\ g = [s \in SUBSET (1..n) |-> g[s]]
          /\ \A s \in SUBSET (1..n) :
                g[s] = IF s = {} THEN LoopStart ELSE AddManifest(g[s \ {Max(s)}], ms[Max(s)])
        BY <1>11, Zenon
    <2>2. {} \in SUBSET (1..n)
        OBVIOUS
    <2>3. g[{}] = f[{}]
        BY <1>9, <2>1, <2>2, Zenon
    <2>4. ASSUME NEW s \in SUBSET (1..n), s # {}, g[DropMax(s)] = f[DropMax(s)]
          PROVE  g[s] = f[s]
        <3>1. g[s] = AddManifest(g[s \ {Max(s)}], ms[Max(s)])
            BY <2>1, <2>4, Zenon
        <3>2. g[s \ {Max(s)}] = f[s \ {Max(s)}]
            BY <2>4 DEF DropMax
        <3> QED
            BY <1>8, <2>4, <3>1, <3>2, Zenon
    <2>5. \A s \in SUBSET (1..n) : g[s] = f[s]
        <3> HIDE DEF IsFold
        <3> QED
            BY <1>1, <2>3, <2>4, SetFoldUnique
    <2> QED
        BY <1>9, <2>1, <2>5, Zenon
<1>12. (CHOOSE g : IsFold(g)) = f
    <2> HIDE DEF IsFold
    <2> QED
        BY <1>10, <1>11, Zenon
<1>13. normalizeDir(ms) = Close(f[1..n])
    BY <1>2, <1>12, Zenon
<1> DEFINE r == [k \in 0..n |-> f[1..k]]
<1>14. IsRun(r, n, T, LoopStart, step)
    BY <1>1, <1>7, SetFoldIsRun
<1>15. r[n] = f[1..n]
    BY <1>1
<1> HIDE DEF r, IsFold
<1>16. ASSUME NEW i \in 1..n PROVE r[i] = AddManifest(r[i-1], ms[i])
    <2>1. i - 1 \in 0..n
        BY <1>1
    <2>2. r[i-1] \in T /\ r[i] = step[i][r[i-1]]
        BY <1>14, <2>1 DEF IsRun
    <2> QED
        BY <1>5, <2>2, Zenon
<1>17. r \in [0..n -> T] /\ r[0] = LoopStart
    BY <1>14 DEF IsRun
<1>18. normalizeDir(ms) = Close(r[n])
    BY <1>13, <1>15
<1> QED
    BY <1>16, <1>17, <1>18 DEF n, T

----------------------------------------------------------------------------
LEMMA ManifestsInFacts ==
    ASSUME NEW M, NEW bs \in Seq(BundlesWith(M))
    PROVE  /\ ManifestsIn(bs) \in Seq(M)
           /\ ManifestsIn(<<>>) = <<>>
           /\ \A b \in BundlesWith(M) :
                 ManifestsIn(Append(bs, b)) = ManifestsIn(bs) \o b.manifests
           /\ \A cs \in Seq(BundlesWith(M)) :
                 ManifestsIn(bs \o cs) = ManifestsIn(bs) \o ManifestsIn(cs)
<1> DEFINE parts(s) == [i \in DOMAIN s |-> s[i].manifests]
<1>1. ASSUME NEW s \in Seq(BundlesWith(M))
      PROVE  /\ parts(s) \in Seq(Seq(M)) /\ Len(parts(s)) = Len(s) /\ Len(s) \in Nat
             /\ \A i \in 1..Len(s) : parts(s)[i] = s[i].manifests
    <2>1. Len(s) \in Nat /\ DOMAIN s = 1..Len(s)
        BY LenProperties
    <2>2. \A i \in 1..Len(s) : s[i] \in BundlesWith(M)
        BY ElementOfSeq
    <2>3. \A i \in 1..Len(s) : s[i].manifests \in Seq(M)
        BY <2>2 DEF BundlesWith
    <2> QED
        BY <2>1, <2>3
<1>2. \A s : ManifestsIn(s) = FlattenSeq(parts(s))
    BY DEF ManifestsIn
<1> HIDE DEF parts
<1>3. ManifestsIn(bs) \in Seq(M)
    BY <1>1, <1>2, FlattenSeqFacts
<1>4. ManifestsIn(<<>>) = <<>>
    <2>1. [i \in DOMAIN <<>> |-> <<>>[i].manifests] = <<>>
        OBVIOUS
    <2> QED
        BY <2>1, Zenon DEF ManifestsIn, FlattenSeq
<1>5. ASSUME NEW b \in BundlesWith(M)
      PROVE  ManifestsIn(Append(bs, b)) = ManifestsIn(bs) \o b.manifests
    <2>1. b.manifests \in Seq(M)
        BY DEF BundlesWith
    <2>2. /\ Append(bs, b) \in Seq(BundlesWith(M)) /\ Len(Append(bs, b)) = Len(bs) + 1
          /\ (\A i \in 1..Len(bs) : Append(bs, b)[i] = bs[i]) /\ Append(bs, b)[Len(bs) + 1] = b
        BY AppendProperties
    <2>3. /\ parts(bs) \in Seq(Seq(M)) /\ Len(parts(bs)) = Len(bs) /\ Len(bs) \in Nat
          /\ \A i \in 1..Len(bs) : parts(bs)[i] = bs[i].manifests
        BY <1>1
    <2>4. /\ parts(Append(bs, b)) \in Seq(Seq(M))
          /\ Len(parts(Append(bs, b))) = Len(bs) + 1
          /\ \A i \in 1..Len(bs)+1 : parts(Append(bs, b))[i] = Append(bs, b)[i].manifests
        BY <1>1, <2>2
    <2>5. /\ Append(parts(bs), b.manifests) \in Seq(Seq(M))
          /\ Len(Append(parts(bs), b.manifests)) = Len(bs) + 1
          /\ \A i \in 1..Len(bs) : Append(parts(bs), b.manifests)[i] = parts(bs)[i]
          /\ Append(parts(bs), b.manifests)[Len(bs) + 1] = b.manifests
        BY <2>1, <2>3, AppendProperties
    <2>6. \A i \in 1..Len(bs)+1 : parts(Append(bs, b))[i] = Append(parts(bs), b.manifests)[i]
        <3> SUFFICES ASSUME NEW i \in 1..Len(bs)+1
                     PROVE  parts(Append(bs, b))[i] = Append(parts(bs), b.manifests)[i]
            OBVIOUS
        <3>1. CASE i = Len(bs) + 1
            BY <3>1, <2>2, <2>4, <2>5
        <3>2. CASE i # Len(bs) + 1
            <4>1. i \in 1..Len(bs)
                BY <3>2, <2>3
            <4> QED
                BY <4>1, <2>2, <2>3, <2>4, <2>5
        <3> QED
            BY <3>1, <3>2
    <2>7. parts(Append(bs, b)) = Append(parts(bs), b.manifests)
        BY <2>4, <2>5, <2>6, SeqEqual
    <2> QED
        BY <1>2, <2>1, <2>3, <2>7, FlattenSeqAppend
<1>6. ASSUME NEW cs \in Seq(BundlesWith(M))
      PROVE  ManifestsIn(bs \o cs) = ManifestsIn(bs) \o ManifestsIn(cs)
    <2> DEFINE p == parts(bs)
               q == parts(cs)
               w == parts(bs \o cs)
               m == Len(bs)
               n == Len(cs)
    <2>1. /\ bs \o cs \in Seq(BundlesWith(M)) /\ Len(bs \o cs) = m + n
          /\ \A i \in 1..m+n : (bs \o cs)[i] = IF i <= m THEN bs[i] ELSE cs[i - m]
        BY ConcatProperties
    <2>2. /\ p \in Seq(Seq(M)) /\ Len(p) = m /\ m \in Nat
          /\ \A i \in 1..m : p[i] = bs[i].manifests
        BY <1>1
    <2>3. /\ q \in Seq(Seq(M)) /\ Len(q) = n /\ n \in Nat
          /\ \A i \in 1..n : q[i] = cs[i].manifests
        BY <1>1
    <2>4. /\ w \in Seq(Seq(M)) /\ Len(w) = m + n
          /\ \A i \in 1..m+n : w[i] = (bs \o cs)[i].manifests
        BY <1>1, <2>1
    <2> HIDE DEF m, n, p, q, w
    <2>5. /\ p \o q \in Seq(Seq(M)) /\ Len(p \o q) = m + n
          /\ \A i \in 1..m+n : (p \o q)[i] = IF i <= m THEN p[i] ELSE q[i - m]
        <3>1. p \o q \in Seq(Seq(M)) /\ Len(p \o q) = Len(p) + Len(q)
            BY <2>2, <2>3, ConcatProperties
        <3>2. \A i \in 1..Len(p)+Len(q) :
                 (p \o q)[i] = IF i <= Len(p) THEN p[i] ELSE q[i - Len(p)]
            BY <2>2, <2>3, ConcatProperties
        <3> QED
            BY <2>2, <2>3, <3>1, <3>2, Zenon
    <2>6. \A i \in 1..m+n : w[i] = (p \o q)[i]
        <3> SUFFICES ASSUME NEW i \in 1..m+n PROVE w[i] = (p \o q)[i]
            OBVIOUS
        <3>1. CASE i <= m
            <4>1. i \in 1..m
                BY <3>1, <2>2
            <4> QED
                BY <3>1, <4>1, <2>1, <2>2, <2>4, <2>5
        <3>2. CASE ~(i <= m)
            <4>1. i - m \in 1..n
                BY <3>2, <2>2, <2>3
            <4> QED
                BY <3>2, <4>1, <2>1, <2>3, <2>4, <2>5
        <3> QED
            BY <3>1, <3>2
    <2>7. w = p \o q
        BY <2>4, <2>5, <2>6, SeqEqual
    <2> USE DEF p, q, w
    <2> QED
        BY <1>2, <2>2, <2>3, <2>7, FlattenSeqConcat
<1> QED
    BY <1>3, <1>4, <1>5, <1>6

----------------------------------------------------------------------------
(* A bundle the client takes: one local manifest, or remote ones.          *)
Fits(b) ==
    /\ ClientOK(b)
    /\ \A k \in DOMAIN b.manifests : b.manifests[k].isLocal = b.isLocal

(* No two remote bundles follow one another.                               *)
RemoteApart(bs) == \A i \in 2..Len(bs) : bs[i].isLocal \/ bs[i-1].isLocal

AllFit(bs) == \A i \in 1..Len(bs) : Fits(bs[i])

(* The inner loop: the closed bundles fit and are apart, and so would the  *)
(* current one be, which is empty only before the first manifest.          *)
LoopInv(acc) ==
    /\ acc.current.isLocal = acc.isLocal
    /\ AllFit(acc.bundles)
    /\ RemoteApart(acc.bundles)
    /\ acc.current.manifests # <<>> => Fits(acc.current)
    /\ acc.isLocal => acc.current.manifests # <<>>
    /\ acc.current.manifests = <<>> => acc.bundles = <<>>
    /\ ~acc.isLocal /\ acc.bundles # <<>> => acc.bundles[Len(acc.bundles)].isLocal

LEMMA LoopStartInv == LoopInv(LoopStart)
<1>1. Len(<<>>) = 0 /\ 1..0 = {} /\ 2..0 = {}
    OBVIOUS
<1>2. AllFit(<<>>) /\ RemoteApart(<<>>)
    BY <1>1, Zenon DEF AllFit, RemoteApart
<1>3. /\ LoopStart.bundles = <<>> /\ LoopStart.isLocal = FALSE
      /\ LoopStart.current.isLocal = FALSE /\ LoopStart.current.manifests = <<>>
    BY DEF LoopStart, EmptyBundle
<1> QED
    BY <1>2, <1>3 DEF LoopInv

(* One more bundle.                                                        *)
LEMMA AppendFits ==
    ASSUME NEW M, NEW bs \in Seq(BundlesWith(M)), NEW b \in BundlesWith(M),
           AllFit(bs), RemoteApart(bs), Fits(b),
           ~b.isLocal /\ bs # <<>> => bs[Len(bs)].isLocal
    PROVE  AllFit(Append(bs, b)) /\ RemoteApart(Append(bs, b))
<1> DEFINE n == Len(bs)
           more == Append(bs, b)
<1>1. /\ n \in Nat /\ Len(more) = n + 1
      /\ (\A i \in 1..n : more[i] = bs[i]) /\ more[n + 1] = b
    BY LenProperties, AppendProperties
<1>2. bs # <<>> => n >= 1
    BY <1>1, EmptySeq
<1>3. bs = <<>> => n = 0
    BY EmptySeq
<1> HIDE DEF more, n
<1>4. AllFit(more)
    <2>1. \A i \in 1..n+1 : i \in 1..n \/ i = n + 1
        BY <1>1
    <2>2. \A i \in 1..n : Fits(bs[i])
        BY DEF AllFit, n
    <2> QED
        BY <1>1, <2>1, <2>2 DEF AllFit
<1>5. RemoteApart(more)
    <2> SUFFICES ASSUME NEW i \in 2..n+1 PROVE more[i].isLocal \/ more[i-1].isLocal
        BY <1>1 DEF RemoteApart
    <2>1. CASE i = n + 1
        <3>1. n >= 1 /\ i - 1 = n /\ n \in 1..n /\ bs # <<>>
            BY <1>1, <1>3, <2>1
        <3>2. b.isLocal \/ bs[n].isLocal
            BY <3>1 DEF n
        <3> QED
            BY <1>1, <2>1, <3>1, <3>2
    <2>2. CASE i # n + 1
        <3>1. i \in 2..n /\ i \in 1..n /\ i - 1 \in 1..n
            BY <1>1, <2>2
        <3>2. bs[i].isLocal \/ bs[i-1].isLocal
            BY <3>1 DEF RemoteApart, n
        <3> QED
            BY <1>1, <3>1, <3>2
    <2> QED
        BY <2>1, <2>2
<1> QED
    BY <1>4, <1>5 DEF more

LEMMA CloseFits ==
    ASSUME NEW M, NEW acc \in LoopStates(M), LoopInv(acc)
    PROVE  /\ AllFit(Close(acc)) /\ RemoteApart(Close(acc))
           /\ ManifestsIn(Close(acc)) = ManifestsIn(acc.bundles) \o acc.current.manifests
           /\ acc.current.manifests # <<>> =>
                 Close(acc) # <<>> /\ Close(acc)[Len(Close(acc))] = acc.current
<1>1. /\ acc.bundles \in Seq(BundlesWith(M)) /\ acc.current \in BundlesWith(M)
      /\ acc.current.manifests \in Seq(M)
    BY DEF LoopStates, BundlesWith
<1>2. CASE acc.current.manifests = <<>>
    <2>1. Close(acc) = acc.bundles
        BY <1>2 DEF Close
    <2>2. ManifestsIn(acc.bundles) \o <<>> = ManifestsIn(acc.bundles)
        BY <1>1, ManifestsInFacts, ConcatEmptySeq
    <2> QED
        BY <1>2, <2>1, <2>2 DEF LoopInv
<1>3. CASE acc.current.manifests # <<>>
    <2>1. Close(acc) = Append(acc.bundles, acc.current)
        BY <1>3 DEF Close
    <2>2. ~acc.current.isLocal /\ acc.bundles # <<>> => acc.bundles[Len(acc.bundles)].isLocal
        BY DEF LoopInv
    <2>3. AllFit(acc.bundles) /\ RemoteApart(acc.bundles) /\ Fits(acc.current)
        BY <1>3 DEF LoopInv
    <2>4. AllFit(Close(acc)) /\ RemoteApart(Close(acc))
        BY <1>1, <2>1, <2>2, <2>3, AppendFits
    <2>5. ManifestsIn(Close(acc)) = ManifestsIn(acc.bundles) \o acc.current.manifests
        BY <1>1, <2>1, ManifestsInFacts
    <2>6. Close(acc) # <<>> /\ Close(acc)[Len(Close(acc))] = acc.current
        BY <1>1, <2>1, AppendProperties
    <2> QED
        BY <2>4, <2>5, <2>6
<1> QED
    BY <1>2, <1>3

LEMMA AddManifestKeepsLoopInv ==
    ASSUME NEW M, NEW acc \in LoopStates(M), NEW m \in M, m.isLocal \in BOOLEAN,
           NEW next, next = AddManifest(acc, m), LoopInv(acc)
    PROVE  /\ LoopInv(next) /\ next.current.manifests # <<>>
           /\ ManifestsIn(next.bundles) \o next.current.manifests
                 = Append(ManifestsIn(acc.bundles) \o acc.current.manifests, m)
<1>1. /\ next \in LoopStates(M)
      /\ next.isLocal = m.isLocal
      /\ next.current.isLocal =
            IF acc.isLocal # m.isLocal THEN m.isLocal ELSE acc.current.isLocal
      /\ next.bundles =
            IF acc.isLocal # m.isLocal \/ m.isLocal THEN Close(acc) ELSE acc.bundles
      /\ next.current.manifests =
            IF acc.isLocal # m.isLocal \/ m.isLocal THEN <<m>>
            ELSE Append(acc.current.manifests, m)
    BY AddManifestFacts
<1>2. /\ acc.bundles \in Seq(BundlesWith(M)) /\ acc.current \in BundlesWith(M)
      /\ acc.current.manifests \in Seq(M) /\ acc.isLocal \in BOOLEAN
      /\ next.current.isLocal \in BOOLEAN
    BY <1>1 DEF LoopStates, BundlesWith
<1>3. next.current.isLocal = m.isLocal
    BY <1>1 DEF LoopInv
<1>4. /\ AllFit(Close(acc)) /\ RemoteApart(Close(acc))
      /\ ManifestsIn(Close(acc)) = ManifestsIn(acc.bundles) \o acc.current.manifests
      /\ acc.current.manifests # <<>> =>
            Close(acc) # <<>> /\ Close(acc)[Len(Close(acc))] = acc.current
    BY CloseFits
<1>5. ManifestsIn(acc.bundles) \in Seq(M)
    BY <1>2, ManifestsInFacts
<1>6. CASE acc.isLocal # m.isLocal \/ m.isLocal
    <2>1. next.bundles = Close(acc) /\ next.current.manifests = <<m>>
        BY <1>1, <1>6
    <2>2. <<m>> # <<>> /\ Len(<<m>>) = 1 /\ DOMAIN <<m>> = {1} /\ <<m>>[1] = m
        OBVIOUS
    <2>3. Fits(next.current)
        BY <1>3, <2>1, <2>2 DEF Fits, ClientOK
    <2>4. ~next.isLocal => next.bundles[Len(next.bundles)].isLocal
        <3> SUFFICES ASSUME ~m.isLocal PROVE next.bundles[Len(next.bundles)].isLocal
            BY <1>1
        <3>1. acc.isLocal /\ acc.current.manifests # <<>> /\ acc.current.isLocal
            BY <1>2, <1>6 DEF LoopInv
        <3> QED
            BY <1>4, <2>1, <3>1
    <2>5. LoopInv(next)
        BY <1>1, <1>3, <1>4, <2>1, <2>2, <2>3, <2>4 DEF LoopInv
    <2>6. ManifestsIn(acc.bundles) \o acc.current.manifests \in Seq(M)
        BY <1>2, <1>5, ConcatProperties
    <2>7. ManifestsIn(Close(acc)) \o <<m>> = Append(ManifestsIn(Close(acc)), m)
        BY <1>4, <2>6, AppendIsConcat
    <2> QED
        BY <1>4, <2>1, <2>2, <2>5, <2>7
<1>7. CASE acc.isLocal = m.isLocal /\ ~m.isLocal
    <2>1. next.bundles = acc.bundles /\ next.current.manifests = Append(acc.current.manifests, m)
        BY <1>1, <1>7
    <2> DEFINE n == Len(acc.current.manifests)
               more == Append(acc.current.manifests, m)
    <2>2. /\ more \in Seq(M) /\ more # <<>> /\ n \in Nat /\ Len(more) = n + 1
          /\ (\A k \in 1..n : more[k] = acc.current.manifests[k]) /\ more[n + 1] = m
          /\ DOMAIN acc.current.manifests = 1..n
        BY <1>2, LenProperties, AppendProperties
    <2>3. DOMAIN more = 1..n+1
        BY <2>2, LenProperties
    <2>4. \A k \in 1..n : acc.current.manifests[k].isLocal = m.isLocal
        <3> SUFFICES ASSUME NEW k \in 1..n PROVE acc.current.manifests[k].isLocal = m.isLocal
            OBVIOUS
        <3>1. acc.current.manifests # <<>>
            BY <2>2, EmptySeq
        <3>2. Fits(acc.current) /\ acc.current.isLocal = m.isLocal
            BY <1>7, <3>1 DEF LoopInv
        <3> QED
            BY <2>2, <3>2 DEF Fits
    <2>5. Fits(next.current)
        <3>1. \A k \in 1..n+1 : k \in 1..n \/ k = n + 1
            BY <2>2
        <3>2. \A k \in DOMAIN more : more[k].isLocal = m.isLocal
            BY <2>2, <2>3, <2>4, <3>1
        <3>3. Len(more) > 0
            BY <2>2
        <3> HIDE DEF more
        <3> USE DEF more
        <3> QED
            BY <1>3, <1>7, <2>1, <3>2, <3>3 DEF Fits, ClientOK
    <2>6. LoopInv(next)
        BY <1>1, <1>3, <1>7, <2>1, <2>2, <2>5 DEF LoopInv
    <2>7. ManifestsIn(acc.bundles) \o Append(acc.current.manifests, m)
              = Append(ManifestsIn(acc.bundles) \o acc.current.manifests, m)
        <3> DEFINE p == ManifestsIn(acc.bundles)
                   q == acc.current.manifests
        <3>1. p \in Seq(M) /\ q \in Seq(M)
            BY <1>2, <1>5
        <3> HIDE DEF p, q
        <3>2. p \o Append(q, m) = Append(p \o q, m)
            BY <3>1, ConcatAppend
        <3> QED
            BY <3>2 DEF p, q
    <2> HIDE DEF more
    <2>8. ManifestsIn(next.bundles) \o next.current.manifests
              = Append(ManifestsIn(acc.bundles) \o acc.current.manifests, m)
        BY <2>1, <2>7, Zenon
    <2> QED
        BY <2>1, <2>2, <2>6, <2>8 DEF more
<1> QED
    BY <1>6, <1>7

(* What one round of the outer loop makes of the manifests of a directory: *)
(* the same manifests, in bundles that fit and are apart.                  *)
LEMMA NormalizeDirFacts ==
    ASSUME NEW M, \A m \in M : m.isLocal \in BOOLEAN, NEW ms \in Seq(M)
    PROVE  /\ normalizeDir(ms) \in Seq(BundlesWith(M))
           /\ AllFit(normalizeDir(ms))
           /\ RemoteApart(normalizeDir(ms))
           /\ ManifestsIn(normalizeDir(ms)) = ms
<1> DEFINE n == Len(ms)
           upTo(k) == SubSeq(ms, 1, k)
<1>1. PICK r \in [0..n -> LoopStates(M)] :
          /\ r[0] = LoopStart
          /\ \A i \in 1..n : r[i] = AddManifest(r[i-1], ms[i])
          /\ normalizeDir(ms) = Close(r[n])
    BY NormalizeRun
<1>2. n \in Nat /\ \A i \in 1..n : ms[i] \in M
    BY LenProperties
<1> HIDE DEF n
<1> DEFINE D == {k \in 0..n :
                    /\ LoopInv(r[k])
                    /\ ManifestsIn(r[k].bundles) \o r[k].current.manifests = upTo(k)}
<1>3. 0 \in D
    <2>1. LoopInv(r[0])
        BY <1>1, LoopStartInv
    <2>2. r[0].bundles = <<>> /\ r[0].current.manifests = <<>>
        BY <1>1 DEF LoopStart, EmptyBundle
    <2>3. ManifestsIn(<<>>) = <<>> /\ <<>> \in Seq(M)
        <3>1. <<>> \in Seq(BundlesWith(M)) /\ <<>> \in Seq(M)
            BY EmptySeq
        <3> QED
            BY <3>1, ManifestsInFacts
    <2>4. <<>> \o <<>> = <<>> /\ upTo(0) = <<>>
        BY <2>3, ConcatEmptySeq, SubSeqEmpty
    <2>5. ManifestsIn(r[0].bundles) \o r[0].current.manifests = upTo(0)
        BY <2>2, <2>3, <2>4, Zenon
    <2>6. 0 \in 0..n
        BY <1>2
    <2> HIDE DEF upTo
    <2> QED
        BY <2>1, <2>5, <2>6, Zenon
<1>4. ASSUME NEW k \in 0..n-1, k \in D PROVE k + 1 \in D
    <2>1. /\ k + 1 \in 1..n /\ k + 1 \in 0..n /\ (k + 1) - 1 = k /\ k \in 0..n
          /\ 1 \in 1..n /\ k + 1 \in 1..k+1
        BY <1>2
    <2>2. r[k] \in LoopStates(M) /\ ms[k+1] \in M /\ r[k+1] = AddManifest(r[k], ms[k+1])
        BY <1>1, <1>2, <2>1
    <2>3. ms[k+1].isLocal \in BOOLEAN
        BY <2>2
    <2>4. LoopInv(r[k]) /\ ManifestsIn(r[k].bundles) \o r[k].current.manifests = upTo(k)
        BY <1>4
    <2>5. /\ LoopInv(r[k+1])
          /\ ManifestsIn(r[k+1].bundles) \o r[k+1].current.manifests = Append(upTo(k), ms[k+1])
        <3> DEFINE acc == r[k]
                   next == r[k+1]
                   m == ms[k+1]
                   before == ManifestsIn(acc.bundles) \o acc.current.manifests
        <3>1. acc \in LoopStates(M) /\ m \in M /\ m.isLocal \in BOOLEAN /\ LoopInv(acc)
            BY <2>2, <2>3, <2>4
        <3>2. next = AddManifest(acc, m)
            BY <2>2
        <3> HIDE DEF acc, next, m
        <3>3. LoopInv(next) /\ ManifestsIn(next.bundles) \o next.current.manifests
                                    = Append(before, m)
            BY <3>1, <3>2, AddManifestKeepsLoopInv
        <3>4. before = upTo(k)
            BY <2>4 DEF acc
        <3> HIDE DEF before, upTo
        <3> QED
            BY <3>3, <3>4 DEF next, m
    <2>6. upTo(k+1) = Append(upTo(k), ms[k+1])
        <3>1. upTo(k+1) = SubSeq(ms, 1, (k+1)-1) \o <<ms[k+1]>>
            BY <2>1, SubSeqRecursiveSecond DEF n
        <3>2. \A i \in 1..k : ms[i] \in M
            BY <1>2
        <3>3. upTo(k) \in Seq(M)
            BY <1>2, <3>2, SubSeqProperties
        <3> QED
            BY <2>1, <2>2, <3>1, <3>3, AppendIsConcat
    <2> HIDE DEF upTo
    <2> QED
        BY <2>1, <2>5, <2>6
<1>5. 0..n \subseteq D
    <2> HIDE DEF D
    <2> QED
        BY <1>2, <1>3, <1>4, IntervalInduction
<1>6. n \in 0..n /\ upTo(n) = ms
    BY <1>2, SubSeqFull DEF n
<1>7. /\ r[n] \in LoopStates(M) /\ LoopInv(r[n])
      /\ ManifestsIn(r[n].bundles) \o r[n].current.manifests = ms
    <2>1. n \in D
        BY <1>5, <1>6
    <2> QED
        BY <1>1, <1>6, <2>1
<1> HIDE DEF upTo, D
<1> QED
    BY <1>1, <1>7, CloseFits, CloseType

----------------------------------------------------------------------------
(* The manifests of several sequences of bundles, one after the other.     *)
LEMMA ManifestsInFlatten ==
    ASSUME NEW M, NEW bss \in Seq(Seq(BundlesWith(M)))
    PROVE  ManifestsIn(FlattenSeq(bss)) = FlattenSeq([i \in DOMAIN bss |-> ManifestsIn(bss[i])])
<1> DEFINE B == Seq(BundlesWith(M))
           parts(s) == [i \in DOMAIN s |-> ManifestsIn(s[i])]
           D == {s \in Seq(B) : ManifestsIn(FlattenSeq(s)) = FlattenSeq(parts(s))}
<1>1. <<>> \in D
    <2>1. parts(<<>>) = <<>> /\ <<>> \in Seq(B) /\ <<>> \in B
        BY EmptySeq
    <2>2. FlattenSeq(<<>>) = <<>> /\ ManifestsIn(<<>>) = <<>>
        BY <2>1, ManifestsInFacts DEF FlattenSeq
    <2> HIDE DEF parts, B
    <2> QED
        BY <2>1, <2>2
<1>2. ASSUME NEW s \in D, NEW e \in B PROVE Append(s, e) \in D
    <2> DEFINE n == Len(s)
               p == parts(s)
               q == ManifestsIn(e)
               w == parts(Append(s, e))
    <2>1. /\ s \in Seq(B) /\ n \in Nat /\ DOMAIN s = 1..n /\ \A i \in 1..n : s[i] \in B
          /\ ManifestsIn(FlattenSeq(s)) = FlattenSeq(p)
        BY LenProperties
    <2>2. /\ Append(s, e) \in Seq(B) /\ Len(Append(s, e)) = n + 1
          /\ (\A i \in 1..n : Append(s, e)[i] = s[i]) /\ Append(s, e)[n + 1] = e
          /\ DOMAIN Append(s, e) = 1..n+1
        BY <2>1, AppendProperties
    <2>3. q \in Seq(M) /\ \A i \in 1..n : ManifestsIn(s[i]) \in Seq(M)
        BY <2>1, ManifestsInFacts
    <2>4. p \in Seq(Seq(M)) /\ Len(p) = n /\ \A i \in 1..n : p[i] = ManifestsIn(s[i])
        BY <2>1, <2>3
    <2>5. w \in Seq(Seq(M)) /\ Len(w) = n + 1 /\ \A i \in 1..n+1 : w[i] = ManifestsIn(Append(s, e)[i])
        <3>1. \A i \in 1..n+1 : ManifestsIn(Append(s, e)[i]) \in Seq(M)
            <4> SUFFICES ASSUME NEW i \in 1..n+1 PROVE ManifestsIn(Append(s, e)[i]) \in Seq(M)
                OBVIOUS
            <4>1. i \in 1..n \/ i = n + 1
                BY <2>1
            <4>2. CASE i \in 1..n
                BY <2>2, <2>3, <4>2
            <4>3. CASE i = n + 1
                <5>1. ManifestsIn(Append(s, e)[i]) = q
                    BY <2>2, <4>3
                <5> QED
                    BY <2>3, <5>1
            <4> QED
                BY <4>1, <4>2, <4>3
        <3>2. w = [i \in 1..n+1 |-> ManifestsIn(Append(s, e)[i])]
            BY <2>2
        <3> HIDE DEF w, n
        <3> QED
            BY <2>1, <3>1, <3>2
    <2> HIDE DEF n, p, q, w
    <2>6. /\ Append(p, q) \in Seq(Seq(M)) /\ Len(Append(p, q)) = n + 1
          /\ (\A i \in 1..n : Append(p, q)[i] = p[i]) /\ Append(p, q)[n + 1] = q
        BY <2>3, <2>4, AppendProperties
    <2>7. \A i \in 1..n+1 : w[i] = Append(p, q)[i]
        <3> SUFFICES ASSUME NEW i \in 1..n+1 PROVE w[i] = Append(p, q)[i]
            OBVIOUS
        <3>1. CASE i = n + 1
            BY <3>1, <2>2, <2>5, <2>6 DEF q
        <3>2. CASE i # n + 1
            <4>1. i \in 1..n
                BY <3>2, <2>1
            <4>2. w[i] = ManifestsIn(s[i])
                BY <4>1, <2>2, <2>5
            <4> QED
                BY <4>1, <4>2, <2>4, <2>6
        <3> QED
            BY <3>1, <3>2
    <2>8. w = Append(p, q)
        BY <2>5, <2>6, <2>7, SeqEqual
    <2>9. FlattenSeq(w) = FlattenSeq(p) \o q
        BY <2>3, <2>4, <2>8, FlattenSeqAppend
    <2>10. FlattenSeq(Append(s, e)) = FlattenSeq(s) \o e /\ FlattenSeq(s) \in B
        BY <2>1, FlattenSeqAppend, FlattenSeqFacts
    <2>11. ManifestsIn(FlattenSeq(s) \o e) = ManifestsIn(FlattenSeq(s)) \o q
        BY <2>10, ManifestsInFacts DEF q
    <2>12. ManifestsIn(FlattenSeq(Append(s, e))) = FlattenSeq(w)
        BY <2>1, <2>9, <2>10, <2>11, Zenon
    <2> USE DEF w
    <2> HIDE DEF parts, B
    <2> QED
        BY <2>2, <2>12
<1>3. D = Seq(B)
    <2>1. D \subseteq Seq(B)
        OBVIOUS
    <2> HIDE DEF D, B
    <2> QED
        BY <1>1, <1>2, <2>1, SeqSetInduction
<1> QED
    BY <1>3

(* A manifest of a bundle is one of the manifests of the bundles.          *)
LEMMA BundleManifestsIn ==
    ASSUME NEW M, NEW bs \in Seq(BundlesWith(M)),
           NEW i \in 1..Len(bs), NEW k \in 1..Len(bs[i].manifests)
    PROVE  \E j \in 1..Len(ManifestsIn(bs)) : ManifestsIn(bs)[j] = bs[i].manifests[k]
<1> DEFINE seqs == [x \in DOMAIN bs |-> bs[x].manifests]
           s == ManifestsIn(bs)
           n == Len(bs)
<1>1. n \in Nat /\ DOMAIN bs = 1..n /\ \A x \in 1..n : bs[x].manifests \in Seq(M)
    <2>1. \A x \in 1..Len(bs) : bs[x] \in BundlesWith(M)
        BY ElementOfSeq
    <2> QED
        BY <2>1, LenProperties DEF BundlesWith
<1>2. seqs \in Seq(Seq(M)) /\ Len(seqs) = n /\ seqs[i] = bs[i].manifests
    BY <1>1
<1>3. s = FlattenSeq(seqs)
    BY DEF ManifestsIn
<1> HIDE DEF seqs, s, n
<1>4. PICK at : IsPlacement(at, n, seqs, s)
    BY <1>2, <1>3, FlattenSeqFacts
<1>5. i \in 1..n /\ k \in 1..Len(seqs[i])
    BY <1>2 DEF n
<1>6. at[i] \in Nat /\ at[i] + Len(seqs[i]) <= Len(s) /\ s[at[i] + k] = seqs[i][k]
    BY <1>4, <1>5 DEF IsPlacement
<1>7. Len(s) \in Nat /\ Len(seqs[i]) \in Nat
    <2>1. s \in Seq(M) /\ seqs[i] \in Seq(M)
        BY <1>1, <1>2, <1>3, <1>5, FlattenSeqFacts
    <2> QED
        BY <2>1, LenProperties
<1>8. at[i] + k \in 1..Len(s)
    <2> DEFINE a == at[i]
               l == Len(seqs[i])
               len == Len(s)
    <2>1. a \in Nat /\ l \in Nat /\ len \in Nat /\ a + l <= len /\ k \in 1..l
        BY <1>5, <1>6, <1>7
    <2> HIDE DEF a, l, len
    <2>2. a + k \in 1..len
        BY <2>1
    <2> QED
        BY <2>2 DEF a, len
<1> QED
    BY <1>2, <1>6, <1>8 DEF s

----------------------------------------------------------------------------
(* The YAML files of a directory, in the order of the scan.                *)
YamlOf(fs) ==
    FlattenSeq([i \in DOMAIN fs |-> IF fs[i].yaml THEN <<fs[i]>> ELSE <<>>])

(* from says where in fs every element of ys stands.                       *)
IsFilter(from, ys, fs) ==
    /\ \A k \in 1..Len(ys) : from[k] \in 1..Len(fs) /\ fs[from[k]] = ys[k] /\ ys[k].yaml
    /\ \A k, l \in 1..Len(ys) : k < l => from[k] < from[l]
    /\ \A i \in 1..Len(fs) : fs[i].yaml => \E k \in 1..Len(ys) : from[k] = i

LEMMA YamlFacts ==
    ASSUME NEW F, FilesTyped(F), NEW fs \in Seq(F)
    PROVE  /\ YamlOf(fs) \in Seq(F)
           /\ \E from : IsFilter(from, YamlOf(fs), fs)
<1> DEFINE n == Len(fs)
           part == [i \in DOMAIN fs |-> IF fs[i].yaml THEN <<fs[i]>> ELSE <<>>]
           ys == YamlOf(fs)
<1>1. n \in Nat /\ DOMAIN fs = 1..n /\ \A i \in 1..n : fs[i] \in F /\ fs[i].yaml \in BOOLEAN
    BY LenProperties DEF FilesTyped
<1>2. /\ part \in Seq(Seq(F)) /\ Len(part) = n
      /\ \A i \in 1..n : /\ fs[i].yaml => Len(part[i]) = 1 /\ part[i][1] = fs[i]
                         /\ ~fs[i].yaml => Len(part[i]) = 0
    <2>1. part = [i \in 1..n |-> IF fs[i].yaml THEN <<fs[i]>> ELSE <<>>]
        BY <1>1
    <2>2. \A i \in 1..n : (IF fs[i].yaml THEN <<fs[i]>> ELSE <<>>) \in Seq(F)
        BY <1>1
    <2>3. part \in [1..n -> Seq(F)]
        BY <2>1, <2>2
    <2>4. \A i \in 1..n : part[i] = IF fs[i].yaml THEN <<fs[i]>> ELSE <<>>
        BY <2>1
    <2>5. Len(<<>>) = 0 /\ \A f : Len(<<f>>) = 1 /\ <<f>>[1] = f
        OBVIOUS
    <2> HIDE DEF part, n
    <2> QED
        BY <1>1, <2>3, <2>4, <2>5
<1>3. ys = FlattenSeq(part)
    BY DEF YamlOf
<1> HIDE DEF part, ys
<1>4. ys \in Seq(F)
    BY <1>2, <1>3, FlattenSeqFacts
<1>5. PICK at : IsPlacement(at, n, part, ys)
    BY <1>2, <1>3, FlattenSeqFacts
<1>6. Len(ys) \in Nat
    BY <1>4, LenProperties
<1> HIDE DEF n
<1>7. /\ \A i \in 1..n : at[i] \in Nat /\ at[i] + Len(part[i]) <= Len(ys)
      /\ \A i \in 1..n : \A x \in 1..Len(part[i]) : ys[at[i] + x] = part[i][x]
      /\ \A i, j \in 1..n : i < j => at[i] + Len(part[i]) <= at[j]
      /\ \A k \in 1..Len(ys) : \E i \in 1..n : \E x \in 1..Len(part[i]) : k = at[i] + x
    BY <1>5 DEF IsPlacement
<1>8. \A k \in 1..Len(ys) : \E i \in 1..n : fs[i].yaml /\ k = at[i] + 1
    <2> SUFFICES ASSUME NEW k \in 1..Len(ys) PROVE \E i \in 1..n : fs[i].yaml /\ k = at[i] + 1
        OBVIOUS
    <2>1. PICK i \in 1..n : \E x \in 1..Len(part[i]) : k = at[i] + x
        BY <1>7
    <2>2. fs[i].yaml
        <3> SUFFICES ASSUME ~fs[i].yaml PROVE FALSE
            OBVIOUS
        <3>1. Len(part[i]) = 0
            BY <1>2
        <3> QED
            BY <2>1, <3>1
    <2>3. Len(part[i]) = 1
        BY <1>2, <2>2
    <2>4. k = at[i] + 1
        BY <2>1, <2>3
    <2> QED
        BY <2>2, <2>4
<1> DEFINE from == [k \in 1..Len(ys) |-> CHOOSE i \in 1..n : fs[i].yaml /\ k = at[i] + 1]
<1>9. \A k \in 1..Len(ys) : from[k] \in 1..n /\ fs[from[k]].yaml /\ k = at[from[k]] + 1
    <2> SUFFICES ASSUME NEW k \in 1..Len(ys)
                 PROVE  from[k] \in 1..n /\ fs[from[k]].yaml /\ k = at[from[k]] + 1
        OBVIOUS
    <2>1. from[k] = CHOOSE i \in 1..n : fs[i].yaml /\ k = at[i] + 1
        BY Zenon
    <2> HIDE DEF from
    <2> QED
        BY <1>8, <2>1, Zenon
<1> HIDE DEF from
<1>10. \A k \in 1..Len(ys) : fs[from[k]] = ys[k]
    <2> SUFFICES ASSUME NEW k \in 1..Len(ys) PROVE fs[from[k]] = ys[k]
        OBVIOUS
    <2>1. from[k] \in 1..n /\ fs[from[k]].yaml /\ k = at[from[k]] + 1
        BY <1>9
    <2>2. Len(part[from[k]]) = 1 /\ part[from[k]][1] = fs[from[k]]
        BY <1>2, <2>1
    <2>3. 1 \in 1..Len(part[from[k]])
        BY <2>2
    <2>4. ys[at[from[k]] + 1] = part[from[k]][1]
        BY <1>7, <2>1, <2>3
    <2> QED
        BY <2>1, <2>2, <2>4
<1>11. \A k, l \in 1..Len(ys) : k < l => from[k] < from[l]
    <2> SUFFICES ASSUME NEW k \in 1..Len(ys), NEW l \in 1..Len(ys), k < l
                 PROVE  from[k] < from[l]
        OBVIOUS
    <2> DEFINE i == from[k]
               j == from[l]
    <2>1. i \in 1..n /\ j \in 1..n /\ k = at[i] + 1 /\ l = at[j] + 1 /\ fs[i].yaml /\ fs[j].yaml
        BY <1>9
    <2>2. Len(part[i]) = 1 /\ Len(part[j]) = 1 /\ at[i] \in Nat /\ at[j] \in Nat
        BY <1>2, <1>7, <2>1
    <2>3. j < i => at[j] + 1 <= at[i]
        BY <1>7, <2>1, <2>2
    <2> HIDE DEF i, j
    <2>4. i < j
        BY <1>1, <2>1, <2>2, <2>3
    <2> QED
        BY <2>4 DEF i, j
<1>12. ASSUME NEW i \in 1..n, fs[i].yaml PROVE \E k \in 1..Len(ys) : from[k] = i
    <2> DEFINE k == at[i] + 1
    <2>1. at[i] \in Nat /\ at[i] + 1 <= Len(ys)
        BY <1>2, <1>7, <1>12
    <2>2. k \in 1..Len(ys)
        BY <1>6, <2>1
    <2> DEFINE j == from[k]
    <2>3. j \in 1..n /\ fs[j].yaml /\ k = at[j] + 1
        BY <1>9, <2>2
    <2>4. Len(part[i]) = 1 /\ Len(part[j]) = 1 /\ at[j] \in Nat
        BY <1>2, <1>7, <1>12, <2>3
    <2>5. at[j] = at[i]
        BY <2>1, <2>3, <2>4
    <2>6. (i < j => at[i] + 1 <= at[j]) /\ (j < i => at[j] + 1 <= at[i])
        BY <1>7, <2>3, <2>4
    <2> HIDE DEF j
    <2>7. j = i
        BY <1>1, <2>1, <2>3, <2>5, <2>6
    <2> QED
        BY <2>2, <2>7 DEF j
<1>13. IsFilter(from, ys, fs)
    BY <1>9, <1>10, <1>11, <1>12 DEF IsFilter, n
<1> QED
    BY <1>4, <1>13 DEF ys

(* A tree: finitely many directories, of typed files.                      *)
IsTree(tree, F) ==
    /\ DOMAIN tree \subseteq Nat
    /\ IsFiniteSet(DOMAIN tree)
    /\ tree \in [DOMAIN tree -> Seq(F)]

(* The manifests of a tree: those of its YAML files.                       *)
AreFound(found, tree, F) ==
    /\ DOMAIN found = {d \in DOMAIN tree : YamlOf(tree[d]) # <<>>}
    /\ found \in [DOMAIN found -> Seq(ManifestsOf(F))]
    /\ \A d \in DOMAIN found :
          /\ Len(found[d]) = Len(YamlOf(tree[d]))
          /\ \A k \in 1..Len(found[d]) : found[d][k].file = YamlOf(tree[d])[k]

LEMMA FindManifestsFacts ==
    ASSUME NEW F, FilesTyped(F), NEW tree, IsTree(tree, F),
           NEW found, found = findManifests(tree)
    PROVE  AreFound(found, tree, F)
<1> DEFINE of(d) == [k \in DOMAIN YamlOf(tree[d]) |->
                        [file |-> YamlOf(tree[d])[k],
                         isLocal |-> isLocalManifest(YamlOf(tree[d])[k])]]
           dirs == {d \in DOMAIN tree : YamlOf(tree[d]) # <<>>}
<1>1. found = [d \in dirs |-> of(d)]
    BY DEF findManifests, YamlOf
<1>2. ASSUME NEW d \in dirs
      PROVE  /\ of(d) \in Seq(ManifestsOf(F))
             /\ Len(of(d)) = Len(YamlOf(tree[d]))
             /\ \A k \in 1..Len(of(d)) : of(d)[k].file = YamlOf(tree[d])[k]
    <2> DEFINE ys == YamlOf(tree[d])
               m(f) == [file |-> f, isLocal |-> isLocalManifest(f)]
    <2>1. tree[d] \in Seq(F)
        BY DEF IsTree
    <2>2. ys \in Seq(F)
        BY <2>1, YamlFacts
    <2>3. Len(ys) \in Nat /\ DOMAIN ys = 1..Len(ys) /\ \A k \in 1..Len(ys) : ys[k] \in F
        BY <2>2, LenProperties
    <2>4. \A f \in F : m(f) \in ManifestsOf(F) /\ m(f).file = f
        BY DEF ManifestsOf, FilesTyped, isLocalManifest
    <2>5. of(d) = [k \in 1..Len(ys) |-> m(ys[k])]
        BY <2>3
    <2> HIDE DEF ys, m, of
    <2>6. of(d) \in [1..Len(ys) -> ManifestsOf(F)]
        BY <2>3, <2>4, <2>5
    <2>7. of(d) \in Seq(ManifestsOf(F)) /\ Len(of(d)) = Len(ys)
        BY <2>3, <2>6
    <2>8. \A k \in 1..Len(ys) : of(d)[k].file = ys[k]
        BY <2>3, <2>4, <2>5
    <2> QED
        BY <2>7, <2>8 DEF ys
<1> HIDE DEF of
<1>3. DOMAIN found = dirs /\ \A d \in dirs : found[d] = of(d)
    BY <1>1, Zenon
<1> HIDE DEF dirs
<1>4. found \in [dirs -> Seq(ManifestsOf(F))]
    BY <1>1, <1>2
<1>5. \A d \in dirs : /\ Len(found[d]) = Len(YamlOf(tree[d]))
                      /\ \A k \in 1..Len(found[d]) : found[d][k].file = YamlOf(tree[d])[k]
    BY <1>2, <1>3
<1> QED
    BY <1>3, <1>4, <1>5 DEF dirs, AreFound

----------------------------------------------------------------------------
(* The directories in the order of their numbers.                          *)
NumbersBelow(S) == [x \in S |-> {y \in S : y < x}]

LEMMA NumbersInOrder ==
    ASSUME NEW S, S \subseteq Nat
    PROVE  /\ IsStrictOrder(NumbersBelow(S), S)
           /\ \A x, y \in S : y \in NumbersBelow(S)[x] <=> y < x
           /\ [i \in 1..Cardinality(S) |->
                  CHOOSE x \in S : Cardinality({y \in S : y < x}) = i - 1]
                = ByRank(S, NumbersBelow(S))
<1> DEFINE below == NumbersBelow(S)
<1>1. \A x, y \in S : x \in Nat /\ (y \in below[x] <=> y < x)
    BY DEF NumbersBelow
<1>2. below \in [S -> SUBSET S]
    BY DEF NumbersBelow
<1>3. \A x \in S : below[x] = {y \in S : y < x}
    BY DEF NumbersBelow
<1> HIDE DEF below
<1>4. IsStrictOrder(below, S)
    <2>1. \A x, y \in S : y \in below[x] => below[y] \subseteq below[x]
        <3> SUFFICES ASSUME NEW x \in S, NEW y \in S, y \in below[x], NEW z \in below[y]
                     PROVE  z \in below[x]
            OBVIOUS
        <3> QED
            BY <1>1, <1>2
    <2>2. \A x, y \in S : x # y => x \in below[y] \/ y \in below[x]
        BY <1>1
    <2>3. \A x \in S : x \notin below[x]
        BY <1>1
    <2> QED
        BY <1>2, <2>1, <2>2, <2>3 DEF IsStrictOrder
<1>5. [i \in 1..Cardinality(S) |-> CHOOSE x \in S : Cardinality({y \in S : y < x}) = i - 1]
          = ByRank(S, below)
    <2> DEFINE v(i) == CHOOSE x \in S : Cardinality({y \in S : y < x}) = i - 1
               w(i) == CHOOSE x \in S : Cardinality(below[x]) = i - 1
    <2>1. ASSUME NEW i PROVE v(i) = w(i)
        BY <1>3, Zenon
    <2>2. ByRank(S, below) = [i \in 1..Cardinality(S) |-> w(i)]
        BY Zenon DEF ByRank
    <2> HIDE DEF v, w
    <2>3. [i \in 1..Cardinality(S) |-> v(i)] = ByRank(S, below)
        BY <2>1, <2>2
    <2> QED
        BY <2>3 DEF v
<1> QED
    BY <1>1, <1>4, <1>5 DEF below

(* What normalizeManifests walks: every directory, in their order.         *)
LEMMA SortedKeysFacts ==
    ASSUME NEW m, DOMAIN m \subseteq Nat, IsFiniteSet(DOMAIN m),
           NEW dirs, dirs = SortedKeys(m)
    PROVE  /\ dirs \in Seq(DOMAIN m)
           /\ \A d \in DOMAIN m : \E i \in 1..Len(dirs) : dirs[i] = d
           /\ \A i, j \in 1..Len(dirs) : i < j => dirs[i] < dirs[j]
<1> DEFINE S == DOMAIN m
<1>1. dirs = ByRank(S, NumbersBelow(S))
    <2>1. dirs = [i \in 1..Cardinality(S) |->
                     CHOOSE x \in S : Cardinality({y \in S : y < x}) = i - 1]
        BY DEF SortedKeys, Sorted
    <2> QED
        BY <2>1, NumbersInOrder
<1>2. Lists(dirs, S, NumbersBelow(S))
    BY <1>1, NumbersInOrder, ByRankLists
<1>3. \A i \in 1..Len(dirs) : dirs[i] \in S
    BY <1>2, ElementOfSeq DEF Lists
<1> QED
    BY <1>2, <1>3, NumbersInOrder DEF Lists

(* Bundles that come from the manifests of one directory after another.    *)
AreBundles(bs, ms, dirs, M) ==
    LET parts == [i \in DOMAIN dirs |-> normalizeDir(ms[dirs[i]])]
    IN  /\ bs \in Seq(BundlesWith(M))
        /\ AllFit(bs)
        /\ ManifestsIn(bs) = FlattenSeq([i \in DOMAIN dirs |-> ms[dirs[i]]])
        /\ parts \in Seq(Seq(BundlesWith(M)))
        /\ bs = FlattenSeq(parts)

LEMMA NormalizeFacts ==
    ASSUME NEW M, \A m \in M : m.isLocal \in BOOLEAN,
           NEW ms, DOMAIN ms \subseteq Nat, IsFiniteSet(DOMAIN ms), ms \in [DOMAIN ms -> Seq(M)],
           NEW bs, bs = normalizeManifests(ms),
           NEW dirs, dirs = SortedKeys(ms)
    PROVE  AreBundles(bs, ms, dirs, M)
<1> DEFINE n == Len(dirs)
           parts == [i \in DOMAIN dirs |-> normalizeDir(ms[dirs[i]])]
<1>1. dirs \in Seq(DOMAIN ms)
    BY SortedKeysFacts
<1>2. n \in Nat /\ DOMAIN dirs = 1..n /\ \A i \in 1..n : ms[dirs[i]] \in Seq(M)
    BY <1>1, LenProperties
<1>3. bs = FlattenSeq(parts)
    BY DEF normalizeManifests
<1>4. ASSUME NEW i \in 1..n
      PROVE  /\ normalizeDir(ms[dirs[i]]) \in Seq(BundlesWith(M))
             /\ AllFit(normalizeDir(ms[dirs[i]]))
             /\ ManifestsIn(normalizeDir(ms[dirs[i]])) = ms[dirs[i]]
    BY <1>2, NormalizeDirFacts
<1>5. /\ parts \in Seq(Seq(BundlesWith(M))) /\ Len(parts) = n /\ DOMAIN parts = 1..n
      /\ \A i \in 1..n : parts[i] = normalizeDir(ms[dirs[i]])
    BY <1>2, <1>4
<1> HIDE DEF parts
<1>6. bs \in Seq(BundlesWith(M))
    BY <1>3, <1>5, FlattenSeqFacts
<1>7. AllFit(bs)
    <2> SUFFICES ASSUME NEW k \in 1..Len(bs) PROVE Fits(bs[k])
        BY DEF AllFit
    <2>1. PICK at : IsPlacement(at, n, parts, bs)
        BY <1>3, <1>5, FlattenSeqFacts
    <2>2. PICK i \in 1..n : \E x \in 1..Len(parts[i]) : k = at[i] + x
        BY <2>1 DEF IsPlacement
    <2>3. PICK x \in 1..Len(parts[i]) : k = at[i] + x
        BY <2>2
    <2>4. bs[k] = parts[i][x]
        BY <2>1, <2>3 DEF IsPlacement
    <2>5. AllFit(parts[i])
        BY <1>4, <1>5
    <2> QED
        BY <2>3, <2>4, <2>5 DEF AllFit
<1>8. ManifestsIn(bs) = FlattenSeq([i \in DOMAIN dirs |-> ms[dirs[i]]])
    <2>1. ManifestsIn(bs) = FlattenSeq([i \in DOMAIN parts |-> ManifestsIn(parts[i])])
        BY <1>3, <1>5, ManifestsInFlatten
    <2>2. [i \in DOMAIN parts |-> ManifestsIn(parts[i])] = [i \in DOMAIN dirs |-> ms[dirs[i]]]
        BY <1>2, <1>4, <1>5
    <2> QED
        BY <2>1, <2>2
<1> QED
    BY <1>3, <1>5, <1>6, <1>7, <1>8 DEF parts, AreBundles

=============================================================================
