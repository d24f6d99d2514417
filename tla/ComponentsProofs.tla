-------------------------- MODULE ComponentsProofs --------------------------
(***************************************************************************)
(* What the component functions make and in which order, for any plan: a   *)
(* function is followed through the sequence of its steps, which is put    *)
(* together from the sequences of the functions it calls.                  *)
(***************************************************************************)
EXTENDS Components, Lemmas

(* Steps and ids have no common type: a sequence is one of its elements.   *)
IsSeq(s) == s \in Seq(ToSet(s))

LEMMA SeqFacts ==
    ASSUME NEW s, IsSeq(s)
    PROVE  /\ Len(s) \in Nat /\ DOMAIN s = 1..Len(s)
           /\ ToSet(s) = {s[i] : i \in 1..Len(s)}
<1>1. Len(s) \in Nat /\ DOMAIN s = 1..Len(s)
    BY LenProperties DEF IsSeq
<1> QED
    BY <1>1 DEF ToSet

LEMMA SeqOfSet ==
    ASSUME NEW S, NEW s \in Seq(S)
    PROVE  IsSeq(s) /\ ToSet(s) \subseteq S
<1>1. Len(s) \in Nat /\ DOMAIN s = 1..Len(s) /\ \A i \in 1..Len(s) : s[i] \in S
    BY LenProperties, ElementOfSeq
<1>2. ToSet(s) = {s[i] : i \in 1..Len(s)}
    BY <1>1 DEF ToSet
<1>3. s \in [1..Len(s) -> ToSet(s)]
    <2>1. s \in [1..Len(s) -> S]
        BY LenProperties
    <2> QED
        BY <2>1, <1>1, <1>2
<1> QED
    BY <1>1, <1>2, <1>3, SeqDef DEF IsSeq

LEMMA ConcatFacts ==
    ASSUME NEW s, NEW t, IsSeq(s), IsSeq(t)
    PROVE  /\ IsSeq(s \o t)
           /\ Len(s \o t) = Len(s) + Len(t)
           /\ \A i \in 1..Len(s) : (s \o t)[i] = s[i]
           /\ \A i \in 1..Len(t) : (s \o t)[Len(s) + i] = t[i]
           /\ ToSet(s \o t) = ToSet(s) \cup ToSet(t)
<1> DEFINE S == ToSet(s) \cup ToSet(t)
<1>1. s \in Seq(S) /\ t \in Seq(S)
    BY SeqMonotonic DEF IsSeq
<1>2. /\ Len(s) \in Nat /\ Len(t) \in Nat
      /\ ToSet(s) = {s[i] : i \in 1..Len(s)} /\ ToSet(t) = {t[i] : i \in 1..Len(t)}
    BY SeqFacts
<1> HIDE DEF S
<1>3. /\ s \o t \in Seq(S) /\ Len(s \o t) = Len(s) + Len(t)
      /\ \A i \in 1 .. Len(s) + Len(t) :
            (s \o t)[i] = IF i <= Len(s) THEN s[i] ELSE t[i - Len(s)]
    BY <1>1, ConcatProperties
<1>4. IsSeq(s \o t)
    BY <1>3, SeqOfSet
<1>5. /\ \A i \in 1..Len(s) : i \in 1..Len(s) + Len(t) /\ (s \o t)[i] = s[i]
      /\ \A i \in 1..Len(t) :
            Len(s) + i \in 1..Len(s) + Len(t) /\ (s \o t)[Len(s) + i] = t[i]
    BY <1>2, <1>3
<1>6. \A i \in 1..Len(s) + Len(t) :
          i \in 1..Len(s) \/ \E j \in 1..Len(t) : i = Len(s) + j
    <2> TAKE i \in 1..Len(s) + Len(t)
    <2>1. i <= Len(s) \/ (i - Len(s) \in 1..Len(t) /\ i = Len(s) + (i - Len(s)))
        BY <1>2
    <2> QED
        BY <1>2, <2>1
<1>7. ToSet(s \o t) = {(s \o t)[i] : i \in 1..Len(s) + Len(t)}
    BY <1>3, <1>4, SeqFacts
<1>8. ToSet(s \o t) = ToSet(s) \cup ToSet(t)
    <2>1. ASSUME NEW e \in ToSet(s \o t) PROVE e \in ToSet(s) \cup ToSet(t)
        <3>1. PICK i \in 1..Len(s) + Len(t) : e = (s \o t)[i]
            BY <1>7
        <3>2. CASE i \in 1..Len(s)
            BY <3>1, <3>2, <1>2, <1>5
        <3>3. CASE \E j \in 1..Len(t) : i = Len(s) + j
            BY <3>1, <3>3, <1>2, <1>5
        <3> QED
            BY <3>2, <3>3, <1>6
    <2>2. ASSUME NEW e \in ToSet(s) PROVE e \in ToSet(s \o t)
        BY <1>2, <1>5, <1>7
    <2>3. ASSUME NEW e \in ToSet(t) PROVE e \in ToSet(s \o t)
        BY <1>2, <1>5, <1>7
    <2> QED
        BY <2>1, <2>2, <2>3
<1> QED
    BY <1>3, <1>4, <1>5, <1>8

LEMMA SingleFacts ==
    ASSUME NEW e
    PROVE  IsSeq(<<e>>) /\ Len(<<e>>) = 1 /\ <<e>>[1] = e /\ ToSet(<<e>>) = {e}
<1>1. <<e>> \in Seq({e})
    OBVIOUS
<1>2. IsSeq(<<e>>)
    BY <1>1, SeqOfSet
<1> QED
    BY <1>2, SeqFacts

LEMMA NoneFacts == IsSeq(<<>>) /\ Len(<<>>) = 0 /\ ToSet(<<>>) = {}
<1>1. IsSeq(<<>>) /\ Len(<<>>) = 0
    BY EmptySeq, SeqOfSet
<1> QED
    BY <1>1, SeqFacts

LEMMA AppendFacts ==
    ASSUME NEW s, NEW e, IsSeq(s)
    PROVE  /\ IsSeq(Append(s, e))
           /\ Len(Append(s, e)) = Len(s) + 1
           /\ \A i \in 1..Len(s) : Append(s, e)[i] = s[i]
           /\ Append(s, e)[Len(s) + 1] = e
<1> DEFINE S == ToSet(s) \cup {e}
<1>1. s \in Seq(S) /\ e \in S
    BY SeqMonotonic DEF IsSeq
<1> HIDE DEF S
<1>2. Append(s, e) \in Seq(S)
    BY <1>1, AppendProperties
<1>3. IsSeq(Append(s, e))
    BY <1>2, SeqOfSet
<1>4. Len(s) \in Nat
    BY SeqFacts
<1> QED
    BY <1>1, <1>3, <1>4, AppendProperties

(* What is left after the first step.                                      *)
LEMMA TailFacts ==
    ASSUME NEW s, IsSeq(s), s # <<>>
    PROVE  /\ IsSeq(Tail(s)) /\ Len(Tail(s)) + 1 = Len(s)
           /\ s[1] = Head(s) /\ Len(s) >= 1
           /\ \A i \in 1..Len(Tail(s)) : Tail(s)[i] = s[i + 1]
           /\ ToSet(s) = {Head(s)} \cup ToSet(Tail(s))
<1>1. s \in Seq(ToSet(s))
    BY DEF IsSeq
<1>2. /\ Tail(s) \in Seq(ToSet(s)) /\ Len(Tail(s)) = Len(s) - 1
      /\ \A i \in 1 .. Len(Tail(s)) : Tail(s)[i] = s[i+1]
    BY <1>1, HeadTailProperties
<1>3. IsSeq(Tail(s))
    BY <1>2, SeqOfSet
<1>4. /\ Len(s) \in Nat /\ Len(s) >= 1 /\ Head(s) = s[1]
    BY <1>1, EmptySeq, LenProperties
<1>5. /\ ToSet(s) = {s[i] : i \in 1..Len(s)}
      /\ ToSet(Tail(s)) = {Tail(s)[i] : i \in 1..Len(Tail(s))}
    BY <1>3, SeqFacts
<1>6. /\ \A i \in 1..Len(Tail(s)) : i + 1 \in 1..Len(s)
      /\ \A i \in 1..Len(s) : i = 1 \/ (i - 1 \in 1..Len(Tail(s)) /\ i = (i - 1) + 1)
    BY <1>2, <1>4
<1>7. ToSet(s) = {Head(s)} \cup ToSet(Tail(s))
    <2>1. ASSUME NEW e \in ToSet(s) PROVE e = Head(s) \/ e \in ToSet(Tail(s))
        <3>1. PICK i \in 1..Len(s) : e = s[i]
            BY <1>5
        <3>2. CASE i = 1
            BY <3>1, <3>2, <1>4
        <3>3. CASE i - 1 \in 1..Len(Tail(s)) /\ i = (i - 1) + 1
            <4>1. Tail(s)[i - 1] = e
                BY <3>1, <3>3, <1>2
            <4> QED
                BY <4>1, <3>3, <1>5
        <3> QED
            BY <3>2, <3>3, <1>6
    <2>2. ASSUME NEW e \in ToSet(Tail(s)) PROVE e \in ToSet(s)
        <3>1. PICK i \in 1..Len(Tail(s)) : e = Tail(s)[i]
            BY <1>5
        <3> QED
            BY <3>1, <1>2, <1>5, <1>6
    <2>3. Head(s) \in ToSet(s)
        BY <1>4, <1>5
    <2> QED
        BY <2>1, <2>2, <2>3
<1> QED
    BY <1>2, <1>3, <1>4, <1>7

(* The steps of several calls, one after the other.                        *)
LEMMA FlattenFacts ==
    ASSUME NEW seqs, IsSeq(seqs), \A i \in 1..Len(seqs) : IsSeq(seqs[i])
    PROVE  /\ IsSeq(FlattenSeq(seqs))
           /\ \E at_ : IsPlacement(at_, Len(seqs), seqs, FlattenSeq(seqs))
           /\ ToSet(FlattenSeq(seqs)) = UNION {ToSet(seqs[i]) : i \in 1..Len(seqs)}
<1> DEFINE S == UNION {ToSet(seqs[i]) : i \in 1..Len(seqs)}
           n == Len(seqs)
           s == FlattenSeq(seqs)
<1>1. /\ n \in Nat /\ DOMAIN seqs = 1..n /\ ToSet(seqs) = {seqs[i] : i \in 1..n}
    BY SeqFacts
<1>2. \A i \in 1..n : seqs[i] \in Seq(S)
    <2> TAKE i \in 1..n
    <2>1. ToSet(seqs[i]) \subseteq S /\ seqs[i] \in Seq(ToSet(seqs[i]))
        BY DEF IsSeq
    <2> HIDE DEF S
    <2> QED
        BY <2>1, SeqMonotonic
<1>3. seqs \in Seq(Seq(S))
    <2> HIDE DEF S
    <2>1. ToSet(seqs) \subseteq Seq(S)
        BY <1>1, <1>2
    <2> QED
        BY <2>1, SeqMonotonic DEF IsSeq
<1>4. s \in Seq(S) /\ \E at_ : IsPlacement(at_, n, seqs, s)
    <2> HIDE DEF S
    <2> QED
        BY <1>3, FlattenSeqFacts
<1>5. IsSeq(s) /\ ToSet(s) \subseteq S
    <2> HIDE DEF S, s
    <2> QED
        BY <1>4, SeqOfSet
<1>6. S \subseteq ToSet(s)
    <2> SUFFICES ASSUME NEW i \in 1..n, NEW e \in ToSet(seqs[i]) PROVE e \in ToSet(s)
        OBVIOUS
    <2>1. PICK j \in 1..Len(seqs[i]) : e = seqs[i][j]
        BY SeqFacts
    <2>2. PICK at_ : IsPlacement(at_, n, seqs, s)
        BY <1>4
    <2>3. Len(seqs[i]) \in Nat /\ Len(s) \in Nat
        BY <1>5, SeqFacts
    <2> HIDE DEF S, s, n
    <2>4. s[at_[i] + j] = e /\ at_[i] \in Nat /\ at_[i] + Len(seqs[i]) <= Len(s)
        BY <2>1, <2>2 DEF IsPlacement
    <2>5. at_[i] + j \in 1..Len(s)
        BY <2>3, <2>4
    <2> QED
        BY <1>5, <2>4, <2>5, SeqFacts
<1> QED
    BY <1>4, <1>5, <1>6
----------------------------------------------------------------------------
(* What a sequence of steps makes, and which dependencies it declares.     *)
Makes(s) == {x \in ToSet(s) : x.op = "make"}
Depends(s) == {<<x.from, x.on>> : x \in {y \in ToSet(s) : y.op = "depend"}}

Refers(s) == UNION {x.refs : x \in Makes(s)}
Offers(s) == UNION {{x.chart} \X x.gives : x \in Makes(s)}
Awaits(s) == UNION {{<<x.chart, x.what>>} \X x.awaits : x \in Makes(s)}

(* The id by which a path leaves q: that of a construct in the chart q, or *)
(* a name for the chart itself.                                            *)
Self == <<"self">>
Entry(q, path) == IF Len(path) = Len(q) THEN Self ELSE path[Len(q) + 1]

Under(q, X, path) ==
    /\ IsSeq(path) /\ Len(q) <= Len(path)
    /\ \A k \in 1..Len(q) : path[k] = q[k]
    /\ Entry(q, path) \in X

(* No two steps make constructs of one path.                               *)
Apart(s) ==
    \A i, j \in 1..Len(s) :
        s[i].op = "make" /\ s[j].op = "make" /\ s[i].path = s[j].path => i = j

(* Steps that make constructs at and below q with ids in X; no two of one  *)
(* path, unless the props have twins.                                      *)
Block(q, X, s, apart) ==
    /\ IsSeq(s)
    /\ \A x \in Makes(s) : Under(q, X, x.path) /\ IsSeq(x.chart)
    /\ apart => Apart(s)

(* What the steps are about: at most what they name and await, at least    *)
(* what they provide, and exactly what they order.                         *)
Acts(s, refs, offers, awaits, depends) ==
    /\ Refers(s) \subseteq refs
    /\ offers \subseteq Offers(s)
    /\ Awaits(s) \subseteq awaits
    /\ Depends(s) = depends

LEMMA WidenBlock ==
    ASSUME NEW q, NEW X, NEW Y, NEW s, NEW apart \in BOOLEAN, Block(q, X, s, apart), X \subseteq Y
    PROVE  Block(q, Y, s, apart)
BY DEF Block, Under

(* What two sequences are about, the one after the other is about.         *)
LEMMA JoinActs ==
    \A s, t : IsSeq(s) /\ IsSeq(t) =>
        /\ IsSeq(s \o t)
        /\ Makes(s \o t) = Makes(s) \cup Makes(t)
        /\ Refers(s \o t) = Refers(s) \cup Refers(t)
        /\ Offers(s \o t) = Offers(s) \cup Offers(t)
        /\ Awaits(s \o t) = Awaits(s) \cup Awaits(t)
        /\ Depends(s \o t) = Depends(s) \cup Depends(t)
<1> SUFFICES ASSUME NEW s, NEW t, IsSeq(s), IsSeq(t)
             PROVE  /\ IsSeq(s \o t)
                    /\ Makes(s \o t) = Makes(s) \cup Makes(t)
                    /\ Refers(s \o t) = Refers(s) \cup Refers(t)
                    /\ Offers(s \o t) = Offers(s) \cup Offers(t)
                    /\ Awaits(s \o t) = Awaits(s) \cup Awaits(t)
                    /\ Depends(s \o t) = Depends(s) \cup Depends(t)
    OBVIOUS
<1>1. IsSeq(s \o t) /\ ToSet(s \o t) = ToSet(s) \cup ToSet(t)
    BY ConcatFacts
<1>2. /\ Makes(s \o t) = Makes(s) \cup Makes(t)
      /\ Depends(s \o t) = Depends(s) \cup Depends(t)
    BY <1>1 DEF Makes, Depends
<1>3. /\ Refers(s \o t) = Refers(s) \cup Refers(t)
      /\ Offers(s \o t) = Offers(s) \cup Offers(t)
      /\ Awaits(s \o t) = Awaits(s) \cup Awaits(t)
    BY <1>2 DEF Refers, Offers, Awaits
<1> QED
    BY <1>1, <1>2, <1>3

LEMMA JoinBlocks ==
    ASSUME NEW q, NEW X, NEW Y, NEW s, NEW t, NEW apart \in BOOLEAN,
           Block(q, X, s, apart), Block(q, Y, t, apart), apart => X \cap Y = {}
    PROVE  Block(q, X \cup Y, s \o t, apart)
<1>1. IsSeq(s) /\ IsSeq(t)
    BY DEF Block
<1>2. /\ IsSeq(s \o t) /\ Len(s \o t) = Len(s) + Len(t)
      /\ ToSet(s \o t) = ToSet(s) \cup ToSet(t)
      /\ \A i \in 1..Len(s) : (s \o t)[i] = s[i]
      /\ \A i \in 1..Len(t) : (s \o t)[Len(s) + i] = t[i]
    BY <1>1, ConcatFacts
<1>3. Makes(s \o t) = Makes(s) \cup Makes(t)
    BY <1>2 DEF Makes
<1>4. \A x \in Makes(s \o t) : Under(q, X \cup Y, x.path) /\ IsSeq(x.chart)
    BY <1>3 DEF Block, Under
<1>5. ASSUME apart PROVE Apart(s \o t)
    <2> DEFINE st == s \o t
    <2>1. SUFFICES ASSUME NEW i \in 1..Len(st), NEW j \in 1..Len(st),
                          st[i].op = "make", st[j].op = "make", st[i].path = st[j].path
                   PROVE  i = j
        BY DEF Apart
    <2>2. /\ Len(s) \in Nat /\ Len(t) \in Nat
          /\ \A k \in 1..Len(s) : s[k] \in ToSet(s)
          /\ \A k \in 1..Len(t) : t[k] \in ToSet(t)
        BY <1>1, SeqFacts
    <2>3. /\ i \in 1..Len(s) \/ (i - Len(s) \in 1..Len(t) /\ i = Len(s) + (i - Len(s)))
          /\ j \in 1..Len(s) \/ (j - Len(s) \in 1..Len(t) /\ j = Len(s) + (j - Len(s)))
        BY <1>2, <2>2
    <2>4. CASE i \in 1..Len(s) /\ j \in 1..Len(s)
        <3>1. st[i] = s[i] /\ st[j] = s[j]
            BY <2>4, <1>2
        <3> HIDE DEF st
        <3> QED
            BY <3>1, <2>1, <2>4, <1>5 DEF Block, Apart
    <2>5. CASE i - Len(s) \in 1..Len(t) /\ j - Len(s) \in 1..Len(t)
        <3>1. st[i] = t[i - Len(s)] /\ st[j] = t[j - Len(s)]
            BY <2>5, <1>2, <2>2, <2>3
        <3> HIDE DEF st
        <3>2. i - Len(s) = j - Len(s)
            BY <3>1, <2>1, <2>5, <1>5 DEF Block, Apart
        <3> QED
            BY <3>2, <2>2
    <2>6. ASSUME NEW k \in 1..Len(s), NEW l \in 1..Len(t),
                 s[k].op = "make", t[l].op = "make", s[k].path = t[l].path
          PROVE  FALSE
        <3>1. Under(q, X, s[k].path) /\ Under(q, Y, t[l].path)
            BY <2>2, <2>6 DEF Block, Makes
        <3> QED
            BY <3>1, <2>6, <1>5 DEF Under
    <2>7. CASE i \in 1..Len(s) /\ j - Len(s) \in 1..Len(t)
        <3>1. st[i] = s[i] /\ st[j] = t[j - Len(s)]
            BY <2>7, <1>2, <2>2, <2>3
        <3> HIDE DEF st
        <3> QED
            BY <3>1, <2>1, <2>6, <2>7
    <2>8. CASE i - Len(s) \in 1..Len(t) /\ j \in 1..Len(s)
        <3>1. st[j] = s[j] /\ st[i] = t[i - Len(s)]
            BY <2>8, <1>2, <2>2, <2>3
        <3> HIDE DEF st
        <3> QED
            BY <3>1, <2>1, <2>6, <2>8
    <2> QED
        BY <2>3, <2>4, <2>5, <2>7, <2>8
<1> QED
    BY <1>2, <1>3, <1>4, <1>5 DEF Block

LEMMA JoinParts ==
    ASSUME NEW q, NEW X, NEW Y, NEW s, NEW t, NEW apart \in BOOLEAN,
           NEW r1, NEW o1, NEW a1, NEW d1, NEW r2, NEW o2, NEW a2, NEW d2,
           Block(q, X, s, apart), Acts(s, r1, o1, a1, d1),
           Block(q, Y, t, apart), Acts(t, r2, o2, a2, d2),
           apart => X \cap Y = {}
    PROVE  /\ Block(q, X \cup Y, s \o t, apart)
           /\ Acts(s \o t, r1 \cup r2, o1 \cup o2, a1 \cup a2, d1 \cup d2)
<1>1. IsSeq(s) /\ IsSeq(t)
    BY DEF Block
<1>2. Acts(s \o t, r1 \cup r2, o1 \cup o2, a1 \cup a2, d1 \cup d2)
    BY <1>1, JoinActs DEF Acts
<1> QED
    BY <1>2, JoinBlocks

LEMMA MakeFacts ==
    ASSUME NEW path, NEW chart, NEW what, NEW gives, NEW refs, NEW awaits
    PROVE  LET s == Make(path, chart, what, gives, refs, awaits)
           IN  /\ \A q, X : \A apart \in BOOLEAN :
                      Under(q, X, path) /\ IsSeq(chart) => Block(q, X, s, apart)
               /\ Acts(s, refs, {chart} \X gives, {<<chart, what>>} \X awaits, {})
<1> DEFINE x == [op |-> "make", path |-> path, chart |-> chart, what |-> what,
                 gives |-> gives, refs |-> refs, awaits |-> awaits]
           s == Make(path, chart, what, gives, refs, awaits)
<1>1. IsSeq(s) /\ Len(s) = 1 /\ ToSet(s) = {x}
    BY SingleFacts DEF Make
<1>2. /\ x.op = "make" /\ x.path = path /\ x.chart = chart /\ x.what = what
      /\ x.gives = gives /\ x.refs = refs /\ x.awaits = awaits
    OBVIOUS
<1> HIDE DEF x, s
<1>3. Makes(s) = {x} /\ Depends(s) = {}
    BY <1>1, <1>2 DEF Makes, Depends
<1>4. Apart(s)
    BY <1>1 DEF Apart
<1>5. ASSUME NEW q, NEW X, NEW apart \in BOOLEAN, Under(q, X, path), IsSeq(chart)
      PROVE  Block(q, X, s, apart)
    BY <1>1, <1>2, <1>3, <1>4, <1>5 DEF Block
<1>6. Acts(s, refs, {chart} \X gives, {<<chart, what>>} \X awaits, {})
    BY <1>2, <1>3 DEF Acts, Refers, Offers, Awaits
<1> QED
    BY <1>5, <1>6 DEF s

(* One construct below q.                                                  *)
LEMMA MakeBlock ==
    ASSUME NEW q, NEW id, NEW chart, NEW what, NEW gives, NEW refs, NEW awaits,
           NEW apart \in BOOLEAN, IsSeq(q), IsSeq(chart)
    PROVE  LET s == Make(Append(q, id), chart, what, gives, refs, awaits)
           IN  /\ Block(q, {id}, s, apart)
               /\ Acts(s, refs, {chart} \X gives, {<<chart, what>>} \X awaits, {})
<1> DEFINE path == Append(q, id)
<1>1. Len(q) \in Nat
    BY SeqFacts
<1>2. Under(q, {id}, path)
    BY <1>1, AppendFacts DEF Under, Entry
<1> HIDE DEF path
<1>3. Block(q, {id}, Make(path, chart, what, gives, refs, awaits), apart)
    BY <1>2, MakeFacts
<1>4. Acts(Make(path, chart, what, gives, refs, awaits), refs, {chart} \X gives,
           {<<chart, what>>} \X awaits, {})
    BY MakeFacts
<1> QED
    BY <1>3, <1>4 DEF path

LEMMA DependBlock ==
    ASSUME NEW q, NEW from, NEW on, NEW apart \in BOOLEAN
    PROVE  LET s == AddDependency(from, on)
           IN  Block(q, {}, s, apart) /\ Acts(s, {}, {}, {}, {<<from, on>>})
<1> DEFINE x == [op |-> "depend", from |-> from, on |-> on]
           s == AddDependency(from, on)
<1>1. IsSeq(s) /\ Len(s) = 1 /\ ToSet(s) = {x} /\ s[1] = x
    BY SingleFacts DEF AddDependency
<1>2. x.op = "depend" /\ x.from = from /\ x.on = on
    OBVIOUS
<1> HIDE DEF x, s
<1>3. Makes(s) = {} /\ Depends(s) = {<<from, on>>}
    BY <1>1, <1>2 DEF Makes, Depends
<1>4. Apart(s)
    BY <1>1 DEF Apart
<1>5. Acts(s, {}, {}, {}, {<<from, on>>})
    BY <1>3 DEF Acts, Refers, Offers, Awaits
<1> QED
    BY <1>1, <1>3, <1>4, <1>5 DEF Block, s

LEMMA NoneBlock ==
    ASSUME NEW q, NEW X, NEW apart \in BOOLEAN
    PROVE  Block(q, X, <<>>, apart) /\ Acts(<<>>, {}, {}, {}, {})
<1>1. Makes(<<>>) = {} /\ Depends(<<>>) = {}
    BY NoneFacts DEF Makes, Depends
<1> QED
    BY <1>1, NoneFacts DEF Block, Apart, Acts, Refers, Offers, Awaits

LEMMA NewChartBlock ==
    ASSUME NEW q, NEW apart \in BOOLEAN, IsSeq(q)
    PROVE  Block(q, {Self}, NewChart(q), apart) /\ Acts(NewChart(q), {}, {}, {}, {})
<1> DEFINE what == <<"Chart", "", "">>
           s == Make(q, q, what, {}, {}, {})
<1>1. NewChart(q) = s
    BY DEF NewChart
<1>2. Under(q, {Self}, q)
    BY SeqFacts DEF Under, Entry
<1> HIDE DEF what
<1>3. Block(q, {Self}, s, apart)
    BY <1>2, MakeFacts
<1>4. Acts(s, {}, {q} \X {}, {<<q, what>>} \X {}, {})
    BY MakeFacts
<1>5. Acts(s, {}, {}, {}, {})
    BY <1>4 DEF Acts
<1> QED
    BY <1>1, <1>3, <1>5

(* What is made in a chart is made below the scope of the chart.           *)
LEMMA LiftBlock ==
    ASSUME NEW p, NEW id, NEW X, NEW s, NEW apart \in BOOLEAN, IsSeq(p),
           Block(Append(p, id), X, s, apart)
    PROVE  Block(p, {id}, s, apart)
<1> DEFINE q == Append(p, id)
<1>1. /\ IsSeq(q) /\ Len(q) = Len(p) + 1 /\ q[Len(p) + 1] = id
      /\ \A k \in 1..Len(p) : q[k] = p[k]
    BY AppendFacts
<1>2. Len(p) \in Nat
    BY SeqFacts
<1> HIDE DEF q
<1>3. ASSUME NEW x \in Makes(s) PROVE Under(p, {id}, x.path) /\ IsSeq(x.chart)
    <2>1. Under(q, X, x.path)
        BY DEF Block, q
    <2>2. /\ IsSeq(x.path) /\ Len(p) + 1 <= Len(x.path)
          /\ \A k \in 1..Len(p) + 1 : x.path[k] = q[k]
        BY <1>1, <2>1 DEF Under
    <2>3. Len(x.path) \in Nat
        BY <2>2, SeqFacts
    <2>4. Entry(p, x.path) = id
        BY <1>1, <1>2, <2>2, <2>3 DEF Entry
    <2> QED
        BY <1>1, <1>2, <2>2, <2>3, <2>4 DEF Under, Block
<1> QED
    BY <1>3 DEF Block

(* The steps of a loop.                                                    *)
LEMMA LoopSeq ==
    ASSUME NEW n \in Nat, NEW f, f = [i \in 1..n |-> f[i]]
    PROVE  IsSeq(f) /\ Len(f) = n
<1> DEFINE S == {f[i] : i \in 1..n}
<1>1. f \in [1..n -> S]
    OBVIOUS
<1>2. f \in Seq(S)
    BY <1>1, SeqDef
<1>3. Len(f) = n
    BY <1>1, <1>2
<1> QED
    BY <1>2, <1>3, SeqOfSet

LEMMA FlattenActs ==
    ASSUME NEW seqs, IsSeq(seqs), \A i \in 1..Len(seqs) : IsSeq(seqs[i])
    PROVE  LET s == FlattenSeq(seqs)
               n == Len(seqs)
           IN  /\ IsSeq(s)
               /\ Makes(s) = UNION {Makes(seqs[i]) : i \in 1..n}
               /\ Refers(s) = UNION {Refers(seqs[i]) : i \in 1..n}
               /\ Offers(s) = UNION {Offers(seqs[i]) : i \in 1..n}
               /\ Awaits(s) = UNION {Awaits(seqs[i]) : i \in 1..n}
               /\ Depends(s) = UNION {Depends(seqs[i]) : i \in 1..n}
<1> DEFINE n == Len(seqs)
           s == FlattenSeq(seqs)
<1>1. IsSeq(s) /\ ToSet(s) = UNION {ToSet(seqs[i]) : i \in 1..n}
    BY FlattenFacts
<1> HIDE DEF n, s
<1>2. Makes(s) = UNION {Makes(seqs[i]) : i \in 1..n}
    BY <1>1 DEF Makes
<1>3. Depends(s) = UNION {Depends(seqs[i]) : i \in 1..n}
    BY <1>1 DEF Depends
<1>4. Refers(s) = UNION {Refers(seqs[i]) : i \in 1..n}
    BY <1>2 DEF Refers
<1>5. Offers(s) = UNION {Offers(seqs[i]) : i \in 1..n}
    BY <1>2 DEF Offers
<1>6. Awaits(s) = UNION {Awaits(seqs[i]) : i \in 1..n}
    BY <1>2 DEF Awaits
<1> QED
    BY <1>1, <1>2, <1>3, <1>4, <1>5, <1>6 DEF n, s

LEMMA FlattenBlock ==
    ASSUME NEW q, NEW seqs, NEW ids, NEW apart \in BOOLEAN, IsSeq(seqs),
           \A i \in 1..Len(seqs) : Block(q, ids[i], seqs[i], apart),
           apart => \A i, j \in 1..Len(seqs) : i # j => ids[i] \cap ids[j] = {}
    PROVE  Block(q, UNION {ids[i] : i \in 1..Len(seqs)}, FlattenSeq(seqs), apart)
<1> DEFINE n == Len(seqs)
           s == FlattenSeq(seqs)
           X == UNION {ids[i] : i \in 1..n}
<1>1. /\ \A i \in 1..n : IsSeq(seqs[i])
      /\ n \in Nat
    BY SeqFacts DEF Block
<1>2. /\ IsSeq(s) /\ ToSet(s) = UNION {ToSet(seqs[i]) : i \in 1..n}
      /\ \E place : IsPlacement(place, n, seqs, s)
    BY <1>1, FlattenFacts
<1> HIDE DEF n, s
<1>3. Makes(s) = UNION {Makes(seqs[i]) : i \in 1..n}
    BY <1>2 DEF Makes
<1>4. ASSUME NEW i \in 1..n, NEW x \in Makes(seqs[i])
      PROVE  Under(q, ids[i], x.path) /\ IsSeq(x.chart)
    BY DEF Block, n
<1>5. \A x \in Makes(s) : Under(q, X, x.path) /\ IsSeq(x.chart)
    BY <1>3, <1>4 DEF Under
<1>6. ASSUME apart PROVE Apart(s)
    <2>1. SUFFICES ASSUME NEW a \in 1..Len(s), NEW b \in 1..Len(s),
                          s[a].op = "make", s[b].op = "make", s[a].path = s[b].path
                   PROVE  a = b
        BY DEF Apart
    <2>2. PICK place : IsPlacement(place, n, seqs, s)
        BY <1>2
    <2>3. PICK i \in 1..n : \E k \in 1..Len(seqs[i]) : a = place[i] + k
        BY <2>2 DEF IsPlacement
    <2>3a. PICK k \in 1..Len(seqs[i]) : a = place[i] + k
        BY <2>3
    <2>4. PICK j \in 1..n : \E l \in 1..Len(seqs[j]) : b = place[j] + l
        BY <2>2 DEF IsPlacement
    <2>4a. PICK l \in 1..Len(seqs[j]) : b = place[j] + l
        BY <2>4
    <2>5. s[a] = seqs[i][k] /\ s[b] = seqs[j][l]
        BY <2>2, <2>3a, <2>4a DEF IsPlacement
    <2>6. seqs[i][k] \in Makes(seqs[i]) /\ seqs[j][l] \in Makes(seqs[j])
        <3>1. seqs[i][k] \in ToSet(seqs[i]) /\ seqs[j][l] \in ToSet(seqs[j])
            BY <1>1, SeqFacts
        <3> QED
            BY <3>1, <2>1, <2>5 DEF Makes
    <2>7. i = j
        <3>1. Under(q, ids[i], s[a].path) /\ Under(q, ids[j], s[b].path)
            BY <1>4, <2>5, <2>6
        <3>2. ids[i] \cap ids[j] # {}
            BY <3>1, <2>1 DEF Under
        <3> QED
            BY <3>2, <1>6 DEF n
    <2>8. Apart(seqs[i])
        BY <1>6 DEF Block, n
    <2>9. k = l
        BY <2>1, <2>5, <2>7, <2>8 DEF Apart
    <2> QED
        BY <2>3a, <2>4a, <2>7, <2>9
<1> QED
    BY <1>2, <1>3, <1>5, <1>6 DEF Block, n, s

----------------------------------------------------------------------------
(* The scalars.                                                            *)
LEMMA ScalarActs ==
    ASSUME NEW p, NEW prefix, NEW kind, NEW ns, NEW name, NEW key, NEW gives, NEW refs,
           NEW apart \in BOOLEAN, IsSeq(p)
    PROVE  LET s == Scalar(p, prefix, kind, ns, name, key, gives, refs) IN
           /\ Block(p, {ResourceID(prefix, <<ns, name, key>>)}, s, apart)
           /\ Acts(s, refs, {ScalarPath(p, prefix, ns, name, key)} \X gives, {}, {})
<1> DEFINE id == ResourceID(prefix, <<ns, name, key>>)
           what == <<kind, ns, name>>
           s == Make(Append(p, id), Append(p, id), what, gives, refs, {})
<1>1. /\ Scalar(p, prefix, kind, ns, name, key, gives, refs) = s
      /\ ScalarPath(p, prefix, ns, name, key) = Append(p, id)
    BY DEF Scalar, ScalarPath
<1>0. IsSeq(Append(p, id))
    BY AppendFacts
<1> HIDE DEF id, what
<1>2. Block(p, {id}, s, apart)
    BY <1>0, MakeBlock
<1>3. Acts(s, refs, {Append(p, id)} \X gives, {<<Append(p, id), what>>} \X {}, {})
    BY <1>0, MakeBlock
<1>4. Acts(s, refs, {Append(p, id)} \X gives, {}, {})
    BY <1>3 DEF Acts
<1> QED
    BY <1>1, <1>2, <1>4 DEF id

LEMMA NamespaceActs ==
    ASSUME NEW p, NEW ns, NEW apart \in BOOLEAN, IsSeq(p)
    PROVE  /\ Block(p, {ResourceID("sdk.Namespace", <<"", ns, "">>)}, Namespace(p, ns), apart)
           /\ Acts(Namespace(p, ns), {}, {}, {}, {})
<1>1. Block(p, {ResourceID("sdk.Namespace", <<"", ns, "">>)}, Namespace(p, ns), apart)
    BY ScalarActs DEF Namespace
<1>2. Acts(Namespace(p, ns), {},
           {ScalarPath(p, "sdk.Namespace", "", ns, "")} \X {<<"namespace", "", ns, {}>>}, {}, {})
    BY ScalarActs DEF Namespace
<1> QED
    BY <1>1, <1>2 DEF Acts

LEMMA SecretActs ==
    ASSUME NEW p, NEW ns, NEW name, NEW files, NEW apart \in BOOLEAN, IsSeq(p)
    PROVE  LET s == Secret(p, ns, name, files)
               id == ResourceID("sdk.SecretV1", <<ns, name, files>>)
           IN  /\ Block(p, {id}, s, apart)
               /\ Acts(s, {}, {Append(p, id)} \X {<<"secret", ns, name, files>>}, {}, {})
BY ScalarActs DEF Secret, ScalarPath

LEMMA ConfigMapActs ==
    ASSUME NEW p, NEW ns, NEW name, NEW files, NEW loader, NEW refs,
           NEW apart \in BOOLEAN, IsSeq(p)
    PROVE  LET s == ConfigMap(p, ns, name, files, loader, refs)
               id == ResourceID("sdk.ConfigMapV1", <<ns, name, <<files, loader>>>>)
           IN  /\ Block(p, {id}, s, apart)
               /\ Acts(s, refs, {Append(p, id)} \X {<<"configmap", ns, name, files>>}, {}, {})
BY ScalarActs DEF ConfigMap, ScalarPath

LEMMA ServiceActs ==
    ASSUME NEW p, NEW ns, NEW name, NEW selector, NEW ports, NEW named,
           NEW apart \in BOOLEAN, IsSeq(p)
    PROVE  LET s == Service(p, ns, name, selector, ports, named)
               id == ResourceID("sdk.ServiceV1", <<ns, name, named>>)
           IN  /\ Block(p, {id}, s, apart)
               /\ Acts(s, {Pod(ns, selector \cup Ports(ports))},
                       {Append(p, id)} \X {Endpoint(ns, name, ports)}, {}, {})
<1> DEFINE gives == {Endpoint(ns, name, ports)}
           refs == {Pod(ns, selector \cup Ports(ports))}
           s == Scalar(p, "sdk.ServiceV1", "Service", ns, name, named, gives, refs)
           id == ResourceID("sdk.ServiceV1", <<ns, name, named>>)
<1>1. Service(p, ns, name, selector, ports, named) = s
    BY DEF Service
<1>2. ScalarPath(p, "sdk.ServiceV1", ns, name, named) = Append(p, id)
    BY DEF ScalarPath
<1> HIDE DEF gives, refs
<1>3. Block(p, {id}, s, apart)
    BY ScalarActs
<1>4. Acts(s, refs, {ScalarPath(p, "sdk.ServiceV1", ns, name, named)} \X gives, {}, {})
    BY ScalarActs
<1> QED
    BY <1>1, <1>2, <1>3, <1>4 DEF gives, refs

LEMMA IngressActs ==
    ASSUME NEW p, NEW ns, NEW name, NEW service, NEW ports, NEW apart \in BOOLEAN, IsSeq(p)
    PROVE  LET s == Ingress(p, ns, name, service, ports)
           IN  /\ Block(p, {ResourceID("sdk.IngressV1", <<ns, name, ports>>)}, s, apart)
               /\ Acts(s, {Endpoint(ns, service, ports)}, {}, {}, {})
<1> DEFINE refs == {Endpoint(ns, service, ports)}
           s == Scalar(p, "sdk.IngressV1", "Ingress", ns, name, ports, {}, refs)
<1>1. Ingress(p, ns, name, service, ports) = s
    BY DEF Ingress
<1> HIDE DEF refs
<1>2. Block(p, {ResourceID("sdk.IngressV1", <<ns, name, ports>>)}, s, apart)
    BY ScalarActs
<1>3. Acts(s, refs, {ScalarPath(p, "sdk.IngressV1", ns, name, ports)} \X {}, {}, {})
    BY ScalarActs
<1>4. Acts(s, refs, {}, {}, {})
    BY <1>3 DEF Acts
<1> QED
    BY <1>1, <1>2, <1>4 DEF refs

LEMMA RoleActs ==
    ASSUME NEW p, NEW ns, NEW name, NEW apart \in BOOLEAN, IsSeq(p)
    PROVE  LET s == Role(p, ns, name)
               id == ResourceID("sdk.scalar.RoleV1", <<ns, name, "">>)
           IN  /\ Block(p, {id}, s, apart)
               /\ Acts(s, {}, {Append(p, id)} \X {<<"role", ns, name, {}>>}, {}, {})
BY ScalarActs DEF Role, ScalarPath

LEMMA RoleBindingActs ==
    ASSUME NEW p, NEW ns, NEW name, NEW role, NEW account, NEW apart \in BOOLEAN, IsSeq(p)
    PROVE  LET s == RoleBinding(p, ns, name, role, account)
           IN  /\ Block(p, {ResourceID("sdk.scalar.RoleBindingV1", <<ns, name, "">>)}, s, apart)
               /\ Acts(s, {<<"role", ns, role, {}>>, <<"account", ns, account, {}>>},
                       {}, {}, {})
<1> DEFINE refs == {<<"role", ns, role, {}>>, <<"account", ns, account, {}>>}
           s == Scalar(p, "sdk.scalar.RoleBindingV1", "RoleBinding", ns, name, "", {}, refs)
<1>1. RoleBinding(p, ns, name, role, account) = s
    BY DEF RoleBinding
<1> HIDE DEF refs
<1>2. Block(p, {ResourceID("sdk.scalar.RoleBindingV1", <<ns, name, "">>)}, s, apart)
    BY ScalarActs
<1>3. Acts(s, refs, {ScalarPath(p, "sdk.scalar.RoleBindingV1", ns, name, "")} \X {}, {}, {})
    BY ScalarActs
<1>4. Acts(s, refs, {}, {}, {})
    BY <1>3 DEF Acts
<1> QED
    BY <1>1, <1>2, <1>4 DEF refs

LEMMA ServiceAccountActs ==
    ASSUME NEW p, NEW ns, NEW name, NEW apart \in BOOLEAN, IsSeq(p)
    PROVE  LET s == ServiceAccount(p, ns, name)
               id == ResourceID("sdk.scalar.ServiceAccountV1", <<ns, name, "">>)
           IN  /\ Block(p, {id}, s, apart)
               /\ Acts(s, {}, {Append(p, id)} \X {<<"account", ns, name, {}>>}, {}, {})
BY ScalarActs DEF ServiceAccount, ScalarPath

LEMMA CommandActs ==
    ASSUME NEW p, NEW ns, NEW command, NEW gives, NEW awaits, NEW apart \in BOOLEAN, IsSeq(p)
    PROVE  LET s == ClientSideApply(p, ns, command, gives, awaits)
               path == CommandPath(p, ns, command)
           IN  /\ Block(p, {ResourceID("sdk.ClientSideApply", <<ns, command>>)}, s, apart)
               /\ Acts(s, {}, {path} \X gives,
                       {<<path, <<"ClientSideApply", ns, command>>>>} \X awaits, {})
<1> DEFINE what == <<"ClientSideApply", ns, command>>
           id == ResourceID("sdk.ClientSideApply", <<ns, command>>)
           s == Make(Append(p, id), Append(p, id), what, gives, {}, awaits)
<1>1. /\ ClientSideApply(p, ns, command, gives, awaits) = s
      /\ CommandPath(p, ns, command) = Append(p, id)
    BY DEF ClientSideApply, CommandPath
<1>0. IsSeq(Append(p, id))
    BY AppendFacts
<1> HIDE DEF id, what
<1>2. Block(p, {id}, s, apart)
    BY <1>0, MakeBlock
<1>3. Acts(s, {}, {Append(p, id)} \X gives, {<<Append(p, id), what>>} \X awaits, {})
    BY <1>0, MakeBlock
<1> QED
    BY <1>1, <1>2, <1>3 DEF id, what

LEMMA WaitActs ==
    ASSUME NEW p, NEW ns, NEW labels, NEW on, NEW apart \in BOOLEAN, IsSeq(p)
    PROVE  LET s == Wait(p, ns, labels, on)
               path == CommandPath(p, ns, WaitCommand(labels))
           IN  /\ Block(p, {ResourceID("sdk.ClientSideApply", <<ns, WaitCommand(labels)>>)},
                        s, apart)
               /\ Acts(s, {}, {path} \X {<<"ready", ns, "", labels>>},
                       {<<path, <<"ClientSideApply", ns, WaitCommand(labels)>>>>}
                           \X {Pod(ns, labels)},
                       {<<path, on>>})
<1> DEFINE command == WaitCommand(labels)
           path == CommandPath(p, ns, command)
           id == ResourceID("sdk.ClientSideApply", <<ns, command>>)
           gives == {<<"ready", ns, "", labels>>}
           awaits == {Pod(ns, labels)}
           a == ClientSideApply(p, ns, command, gives, awaits)
           b == AddDependency(path, on)
<1>1. Wait(p, ns, labels, on) = a \o b
    BY DEF Wait
<1> HIDE DEF command, path, gives, awaits
<1>2. /\ Block(p, {id}, a, apart)
      /\ Acts(a, {}, {path} \X gives, {<<path, <<"ClientSideApply", ns, command>>>>} \X awaits, {})
    BY CommandActs DEF path
<1>3. Block(p, {}, b, apart) /\ Acts(b, {}, {}, {}, {<<path, on>>})
    BY DependBlock
<1> HIDE DEF a, b, id
<1>4. Block(p, {id} \cup {}, a \o b, apart)
    BY <1>2, <1>3, JoinBlocks
<1>5. Acts(a \o b, {}, {path} \X gives,
           {<<path, <<"ClientSideApply", ns, command>>>>} \X awaits, {<<path, on>>})
    BY <1>2, <1>3, JoinActs DEF Acts, Block
<1>6. Block(p, {id}, a \o b, apart)
    BY <1>4
<1> QED
    BY <1>1, <1>5, <1>6 DEF id, path, command, gives, awaits

LEMMA RemoteActs ==
    ASSUME NEW p, NEW url, NEW gives, NEW apart \in BOOLEAN, IsSeq(p)
    PROVE  LET s == RemoteApply(p, url, gives)
           IN  /\ Block(p, {ResourceID("sdk.RemoteApply", url)}, s, apart)
               /\ Acts(s, {}, {RemotePath(p, url)} \X gives, {}, {})
<1> DEFINE what == <<"Remote", "", url>>
           id == ResourceID("sdk.RemoteApply", url)
           s == Make(Append(p, id), Append(p, id), what, gives, {}, {})
<1>1. RemoteApply(p, url, gives) = s /\ RemotePath(p, url) = Append(p, id)
    BY DEF RemoteApply, RemotePath
<1>0. IsSeq(Append(p, id))
    BY AppendFacts
<1> HIDE DEF id, what
<1>2. Block(p, {id}, s, apart)
    BY <1>0, MakeBlock
<1>3. Acts(s, {}, {Append(p, id)} \X gives, {<<Append(p, id), what>>} \X {}, {})
    BY <1>0, MakeBlock
<1>4. Acts(s, {}, {Append(p, id)} \X gives, {}, {})
    BY <1>3 DEF Acts
<1> QED
    BY <1>1, <1>2, <1>4 DEF id

(* The charts the components use.                                          *)
HelmCharts == {"anvil", "aptos", "jd", "otterscan", "postgres", "telepresence"}

LEMMA HelmActs ==
    ASSUME NEW p, NEW id, NEW chart \in HelmCharts, NEW ns, NEW release, NEW gives, NEW refs,
           NEW apart \in BOOLEAN, IsSeq(p)
    PROVE  LET q == Append(p, id)
               s == HelmNew(q, chart, ns, release, gives, refs)
           IN  /\ Block(p, {id}, s, apart)
               /\ Acts(s, refs, {q} \X gives, {}, {<<q, NamespacePath(q, ns)>>})
<1> DEFINE q == Append(p, id)
           rid == ResourceID(chart, release)
           nid == ResourceID("sdk.Namespace", <<"", ns, "">>)
           what == <<"HelmRelease", ns, release>>
           a == NewChart(q)
           b == Make(Append(q, rid), q, what, gives, refs, {})
           c == Namespace(q, ns)
           d == AddDependency(q, NamespacePath(q, ns))
<1>1. HelmNew(q, chart, ns, release, gives, refs) = a \o b \o c \o d
    BY DEF HelmNew
<1>2. IsSeq(q)
    BY AppendFacts
<1>3. Self # rid /\ Self # nid /\ rid # nid
    BY DEF HelmCharts, ResourceID, Self
<1> HIDE DEF q, rid, what
<1>4. Block(q, {Self}, a, apart) /\ Acts(a, {}, {}, {}, {})
    BY <1>2, NewChartBlock
<1>5. Block(q, {rid}, b, apart) /\ Acts(b, refs, {q} \X gives, {}, {})
    <2>1. Acts(b, refs, {q} \X gives, {<<q, what>>} \X {}, {})
        BY <1>2, MakeBlock
    <2>2. Acts(b, refs, {q} \X gives, {}, {})
        BY <2>1 DEF Acts
    <2> QED
        BY <1>2, <2>2, MakeBlock
<1>6. Block(q, {nid}, c, apart) /\ Acts(c, {}, {}, {}, {})
    BY <1>2, NamespaceActs
<1> HIDE DEF nid
<1>7. Block(q, {}, d, apart) /\ Acts(d, {}, {}, {}, {<<q, NamespacePath(q, ns)>>})
    BY DependBlock
<1> HIDE DEF a, b, c, d
<1>8. Block(q, {Self} \cup {rid}, a \o b, apart)
    BY <1>3, <1>4, <1>5, JoinBlocks
<1>9. Block(q, ({Self} \cup {rid}) \cup {nid}, a \o b \o c, apart)
    BY <1>3, <1>6, <1>8, JoinBlocks
<1>10. Block(q, (({Self} \cup {rid}) \cup {nid}) \cup {}, a \o b \o c \o d, apart)
    BY <1>7, <1>9, JoinBlocks
<1>11. Block(p, {id}, a \o b \o c \o d, apart)
    BY <1>10, LiftBlock DEF q
<1>12. Acts(a \o b \o c \o d, refs, {q} \X gives, {}, {<<q, NamespacePath(q, ns)>>})
    BY <1>4, <1>5, <1>6, <1>7, JoinActs DEF Acts, Block
<1> QED
    BY <1>1, <1>11, <1>12 DEF q

LEMMA ChartActs ==
    ASSUME NEW p, NEW chart \in HelmCharts, NEW ns, NEW release, NEW values, NEW gives, NEW refs,
           NEW apart \in BOOLEAN, IsSeq(p)
    PROVE  LET s == ChartScalar(p, chart, ns, release, values, gives, refs)
               path == ChartPath(p, chart, ns, release, values)
           IN  /\ Block(p, {ResourceID(resourcePrefix[chart], <<ns, release, values>>)}, s, apart)
               /\ Acts(s, refs, {path} \X gives, {}, {<<path, NamespacePath(path, ns)>>})
<1> DEFINE id == ResourceID(resourcePrefix[chart], <<ns, release, values>>)
           outer == Append(p, id)
           inner == ResourceID("sdk.HelmChart", <<ns, release>>)
           path == Append(outer, inner)
           a == NewChart(outer)
           b == HelmNew(path, chart, ns, release, gives, refs)
<1>1. /\ ChartScalar(p, chart, ns, release, values, gives, refs) = a \o b
      /\ ChartPath(p, chart, ns, release, values) = path
    BY DEF ChartScalar, ChartPath, ChartOuter
<1>2. IsSeq(outer)
    BY AppendFacts
<1>3. Self # inner
    BY DEF ResourceID, Self
<1> HIDE DEF id, inner, outer
<1>4. Block(outer, {Self}, a, apart) /\ Acts(a, {}, {}, {}, {})
    BY <1>2, NewChartBlock
<1>5. Block(outer, {inner}, b, apart)
    BY <1>2, HelmActs
<1>6. Acts(b, refs, {path} \X gives, {}, {<<path, NamespacePath(path, ns)>>})
    BY <1>2, HelmActs
<1> HIDE DEF a, b, path
<1>7. Block(outer, {Self} \cup {inner}, a \o b, apart)
    BY <1>3, <1>4, <1>5, JoinBlocks
<1>8. Block(p, {id}, a \o b, apart)
    BY <1>7, LiftBlock DEF outer
<1>9. Acts(a \o b, refs, {path} \X gives, {}, {<<path, NamespacePath(path, ns)>>})
    BY <1>4, <1>5, <1>6, JoinActs DEF Acts, Block
<1> QED
    BY <1>1, <1>8, <1>9 DEF id

LEMMA PostgresActs ==
    ASSUME NEW p, NEW ns, NEW release, NEW host, NEW users, NEW apart \in BOOLEAN, IsSeq(p)
    PROVE  LET s == Postgres(p, ns, release, host, users)
               path == PostgresPath(p, ns, release, host, users)
           IN  /\ Block(p, {ResourceID("sdk.HelmChart#postgres", <<ns, release, <<host, users>>>>)},
                        s, apart)
               /\ Acts(s, {}, {path} \X {Pod(ns, PodNumber0(host)),
                                         <<"database", ns, host, users>>},
                       {}, {<<path, NamespacePath(path, ns)>>})
<1> DEFINE gives == {Pod(ns, PodNumber0(host)), <<"database", ns, host, users>>}
           values == <<host, users>>
           s == ChartScalar(p, "postgres", ns, release, values, gives, {})
           path == ChartPath(p, "postgres", ns, release, values)
<1>1. /\ Postgres(p, ns, release, host, users) = s
      /\ PostgresPath(p, ns, release, host, users) = path
    BY DEF Postgres, PostgresPath
<1>2. "postgres" \in HelmCharts /\ resourcePrefix["postgres"] = "sdk.HelmChart#postgres"
    BY DEF HelmCharts, resourcePrefix
<1> HIDE DEF gives, values
<1>3. Block(p, {ResourceID(resourcePrefix["postgres"], <<ns, release, values>>)}, s, apart)
    BY <1>2, ChartActs
<1>4. Acts(s, {}, {path} \X gives, {}, {<<path, NamespacePath(path, ns)>>})
    BY <1>2, ChartActs
<1> QED
    BY <1>1, <1>2, <1>3, <1>4 DEF gives, values

LEMMA ComponentChartActs ==
    ASSUME NEW p, NEW chart \in HelmCharts, NEW ns, NEW release, NEW service, NEW ports, NEW refs,
           NEW apart \in BOOLEAN, IsSeq(p)
    PROVE  LET s == ComponentChart(p, chart, ns, release, service, ports, refs)
               path == ComponentPath(p, chart, ns, release, service, ports)
           IN  /\ Block(p, {ResourceID(resourcePrefix[chart],
                                       <<ns, release, <<service, ports>>>>)}, s, apart)
               /\ Acts(s, refs, {path} \X {Pod(ns, DevspaceLabels(release)),
                                           Endpoint(ns, service, ports)},
                       {}, {<<path, NamespacePath(path, ns)>>})
<1> DEFINE gives == {Pod(ns, DevspaceLabels(release)), Endpoint(ns, service, ports)}
           values == <<service, ports>>
           s == ChartScalar(p, chart, ns, release, values, gives, refs)
           path == ChartPath(p, chart, ns, release, values)
<1>1. /\ ComponentChart(p, chart, ns, release, service, ports, refs) = s
      /\ ComponentPath(p, chart, ns, release, service, ports) = path
    BY DEF ComponentChart, ComponentPath
<1> HIDE DEF gives, values
<1>2. Block(p, {ResourceID(resourcePrefix[chart], <<ns, release, values>>)}, s, apart)
    BY ChartActs
<1>3. Acts(s, refs, {path} \X gives, {}, {<<path, NamespacePath(path, ns)>>})
    BY ChartActs
<1> QED
    BY <1>1, <1>2, <1>3 DEF gives, values

----------------------------------------------------------------------------
(* Workloads, and what is made in their charts.                            *)
WorkloadId(w) ==
    ResourceID(IF w.kind = "deployment" THEN "sdk.DeploymentV1" ELSE "sdk.StatefulSetV1",
               <<w.ns, w.app, w.name>>)

LEMMA WorkloadPathFacts ==
    ASSUME NEW p, NEW w, IsSeq(p)
    PROVE  WorkloadPath(p, w) = Append(p, WorkloadId(w)) /\ IsSeq(WorkloadPath(p, w))
BY AppendFacts DEF WorkloadPath, WorkloadId

LEMMA DeploymentActs ==
    ASSUME NEW p, NEW w, NEW refs, NEW apart \in BOOLEAN, IsSeq(p)
    PROVE  LET q == WorkloadPath(p, w)
               s == Deployment(p, w, refs)
           IN  /\ Block(q, {Self, <<"Resource">>}, s, apart)
               /\ Acts(s, refs, {q} \X WorkloadGives(w), {}, {})
<1> DEFINE q == WorkloadPath(p, w)
           id == <<"Resource">>
           what == <<"Deployment", w.ns, w.name>>
           a == NewChart(q)
           b == Make(Append(q, id), q, what, WorkloadGives(w), refs, {})
<1>1. Deployment(p, w, refs) = a \o b
    BY DEF Deployment
<1>2. IsSeq(q)
    BY WorkloadPathFacts
<1>3. Self # id
    BY DEF Self
<1> HIDE DEF q, id, what
<1>4. Block(q, {Self}, a, apart) /\ Acts(a, {}, {}, {}, {})
    BY <1>2, NewChartBlock
<1>5. Block(q, {id}, b, apart)
    BY <1>2, MakeBlock
<1>6. Acts(b, refs, {q} \X WorkloadGives(w), {<<q, what>>} \X {}, {})
    BY <1>2, MakeBlock
<1> HIDE DEF a, b
<1>7. Block(q, {Self} \cup {id}, a \o b, apart)
    BY <1>3, <1>4, <1>5, JoinBlocks
<1>8. Acts(a \o b, refs, {q} \X WorkloadGives(w), {}, {})
    BY <1>4, <1>5, <1>6, JoinActs DEF Acts, Block
<1>9. {Self} \cup {id} = {Self, id}
    OBVIOUS
<1> QED
    BY <1>1, <1>7, <1>8, <1>9 DEF q, id

LEMMA StatefulSetActs ==
    ASSUME NEW p, NEW w, NEW apart \in BOOLEAN, IsSeq(p)
    PROVE  LET q == WorkloadPath(p, w)
               s == StatefulSet(p, w)
           IN  /\ Block(q, {Self, <<"Resource">>}, s, apart)
               /\ Acts(s, {}, {q} \X WorkloadGives(w), {}, {})
<1> DEFINE q == WorkloadPath(p, w)
           id == <<"Resource">>
           what == <<"StatefulSet", w.ns, w.name>>
           a == NewChart(q)
           b == Make(Append(q, id), q, what, WorkloadGives(w), {}, {})
<1>1. StatefulSet(p, w) = a \o b
    BY DEF StatefulSet
<1>2. IsSeq(q)
    BY WorkloadPathFacts
<1>3. Self # id
    BY DEF Self
<1> HIDE DEF q, id, what
<1>4. Block(q, {Self}, a, apart) /\ Acts(a, {}, {}, {}, {})
    BY <1>2, NewChartBlock
<1>5. Block(q, {id}, b, apart)
    BY <1>2, MakeBlock
<1>6. Acts(b, {}, {q} \X WorkloadGives(w), {<<q, what>>} \X {}, {})
    BY <1>2, MakeBlock
<1> HIDE DEF a, b
<1>7. Block(q, {Self} \cup {id}, a \o b, apart)
    BY <1>3, <1>4, <1>5, JoinBlocks
<1>8. Acts(a \o b, {}, {q} \X WorkloadGives(w), {}, {})
    BY <1>4, <1>5, <1>6, JoinActs DEF Acts, Block
<1>9. {Self} \cup {id} = {Self, id}
    OBVIOUS
<1> QED
    BY <1>1, <1>7, <1>8, <1>9 DEF q, id

(* The workload's pods, as its Service selects them.                       *)
WorkloadPod(w) == Pod(w.ns, Labels(w.app, w.name) \cup Ports(w.ports))

LEMMA ExposeViaServiceActs ==
    ASSUME NEW p, NEW w, NEW apart \in BOOLEAN, IsSeq(p)
    PROVE  LET q == WorkloadPath(p, w)
               s == ExposeViaService(p, w)
               id == ResourceID("sdk.ServiceV1", <<w.ns, w.name, w.ports>>)
           IN  /\ Block(q, {id}, s, apart)
               /\ Acts(s, {WorkloadPod(w)},
                       {Append(q, id)} \X {Endpoint(w.ns, w.name, w.ports)}, {}, {})
<1> DEFINE q == WorkloadPath(p, w)
           labels == Labels(w.app, w.name)
<1>1. IsSeq(q)
    BY WorkloadPathFacts
<1>2. ExposeViaService(p, w) = Service(q, w.ns, w.name, labels, w.ports, w.ports)
    BY DEF ExposeViaService
<1> HIDE DEF q, labels
<1> DEFINE s == Service(q, w.ns, w.name, labels, w.ports, w.ports)
           id == ResourceID("sdk.ServiceV1", <<w.ns, w.name, w.ports>>)
<1>3. Block(q, {id}, s, apart)
    BY <1>1, ServiceActs
<1>4. Acts(s, {Pod(w.ns, labels \cup Ports(w.ports))},
           {Append(q, id)} \X {Endpoint(w.ns, w.name, w.ports)}, {}, {})
    BY <1>1, ServiceActs
<1> QED
    BY <1>2, <1>3, <1>4 DEF q, labels, WorkloadPod

LEMMA ExposeViaIngressActs ==
    ASSUME NEW p, NEW w, NEW apart \in BOOLEAN, IsSeq(p)
    PROVE  LET q == WorkloadPath(p, w)
               s == ExposeViaIngress(p, w)
               id == ResourceID("sdk.ServiceV1", <<w.ns, w.name, w.ports>>)
               ingress == ResourceID("sdk.IngressV1", <<w.ns, w.name \o "-ingress", w.ports>>)
           IN  /\ Block(q, {id, ingress}, s, apart)
               /\ Acts(s, {WorkloadPod(w), Endpoint(w.ns, w.name, w.ports)},
                       {Append(q, id)} \X {Endpoint(w.ns, w.name, w.ports)}, {}, {})
<1> DEFINE q == WorkloadPath(p, w)
           name == w.name \o "-ingress"
           id == ResourceID("sdk.ServiceV1", <<w.ns, w.name, w.ports>>)
           iid == ResourceID("sdk.IngressV1", <<w.ns, name, w.ports>>)
           a == ExposeViaService(p, w)
           b == Ingress(q, w.ns, name, w.name, w.ports)
           gives == {Append(q, id)} \X {Endpoint(w.ns, w.name, w.ports)}
<1>1. IsSeq(q)
    BY WorkloadPathFacts
<1>2. ExposeViaIngress(p, w) = a \o b
    BY DEF ExposeViaIngress
<1>3. id # iid
    BY DEF ResourceID
<1>4. Block(q, {id}, a, apart) /\ Acts(a, {WorkloadPod(w)}, gives, {}, {})
    BY ExposeViaServiceActs
<1> HIDE DEF q, name, id, a, gives
<1>5. Block(q, {iid}, b, apart) /\ Acts(b, {Endpoint(w.ns, w.name, w.ports)}, {}, {}, {})
    BY <1>1, IngressActs
<1> HIDE DEF b, iid
<1>6. Block(q, {id} \cup {iid}, a \o b, apart)
    BY <1>3, <1>4, <1>5, JoinBlocks
<1>7. Acts(a \o b, {WorkloadPod(w), Endpoint(w.ns, w.name, w.ports)}, gives, {}, {})
    BY <1>4, <1>5, JoinActs DEF Acts, Block
<1>8. {id} \cup {iid} = {id, iid}
    OBVIOUS
<1> QED
    BY <1>2, <1>6, <1>7, <1>8 DEF q, id, iid, name, gives

LEMMA WaitForRolloutActs ==
    ASSUME NEW p, NEW w, NEW apart \in BOOLEAN, IsSeq(p)
    PROVE  LET s == WaitForRollout(p, w)
               path == CommandPath(p, w.ns, RolloutCommand(w))
           IN  /\ Block(p, {ResourceID("sdk.ClientSideApply", <<w.ns, RolloutCommand(w)>>)},
                        s, apart)
               /\ Acts(s, {}, {},
                       {<<path, <<"ClientSideApply", w.ns, RolloutCommand(w)>>>>}
                           \X {<<w.kind, CurrentNamespace, "", {<<"instance", w.name>>}>>},
                       {<<path, WorkloadPath(p, w)>>})
<1> DEFINE command == RolloutCommand(w)
           path == CommandPath(p, w.ns, command)
           on == WorkloadPath(p, w)
           id == ResourceID("sdk.ClientSideApply", <<w.ns, command>>)
           awaits == {<<w.kind, CurrentNamespace, "", {<<"instance", w.name>>}>>}
           a == ClientSideApply(p, w.ns, command, {}, awaits)
           b == AddDependency(path, on)
<1>1. WaitForRollout(p, w) = a \o b
    BY DEF WaitForRollout
<1> HIDE DEF command, path, awaits, on
<1>2. /\ Block(p, {id}, a, apart)
      /\ Acts(a, {}, {path} \X {}, {<<path, <<"ClientSideApply", w.ns, command>>>>} \X awaits, {})
    BY CommandActs DEF path
<1>3. Block(p, {}, b, apart) /\ Acts(b, {}, {}, {}, {<<path, on>>})
    BY DependBlock
<1> HIDE DEF a, b, id
<1>4. Block(p, {id} \cup {}, a \o b, apart)
    BY <1>2, <1>3, JoinBlocks
<1>5. Acts(a \o b, {}, {},
           {<<path, <<"ClientSideApply", w.ns, command>>>>} \X awaits, {<<path, on>>})
    BY <1>2, <1>3, JoinActs DEF Acts, Block
<1>6. Block(p, {id}, a \o b, apart)
    BY <1>4
<1> QED
    BY <1>1, <1>5, <1>6 DEF id, path, command, awaits, on

----------------------------------------------------------------------------
(* The order in which charts are applied.  Where two paths part, the ids   *)
(* tell which chart comes later: waits come after what they wait for, and  *)
(* so on; the parts of chains come in the order of the loop.               *)
CommandRank(command) ==
    CASE command[1] \in {"kind", "kubectx"} -> 1
      [] command[1] \in {"context", "kubens"} -> 2
      [] command[1] = "wait" -> IF <<"name", "postgresql">> \in command[2] THEN 2 ELSE 4
      [] command[1] = "rollout" -> 4
      [] command[1] = "connect" -> 5
      [] OTHER -> 0

(* The charts of chains, and the place of an id among them.                *)
ChainCharts(q, c) == FlattenSeq([i \in DOMAIN c.configs |-> ConfigCharts(q, c.configs[i], i)])

PlaceOf(parent, id) ==
    LET all == ChainCharts(Append(Root, parent), parent[2])
    IN  CHOOSE m \in 1..Len(all) : all[m][3] = id

Rank(parent, id) ==
    CASE parent[1] = "sdk.Blockchains" -> PlaceOf(parent, id)
      [] parent[1] # "sdk.Blockchains" /\ id[1] = "sdk.ClientSideApply" -> CommandRank(id[2][2])
      [] parent[1] # "sdk.Blockchains" /\ id[1] = "sdk.Namespace" -> 0
      [] parent[1] # "sdk.Blockchains" /\ id[1] = "sdk.HelmChart#jd" -> 3
      [] OTHER -> 1

(* x is where the paths a and b part, at an id b has in its place.         *)
PartAt(a, b, k) ==
    /\ k \in 2..Len(a) /\ k \in 2..Len(b)
    /\ \A i \in 1..k-1 : a[i] = b[i]
    /\ Rank(b[k-1], b[k]) \in Nat /\ Rank(a[k-1], a[k]) \in Nat
    /\ Rank(b[k-1], b[k]) < Rank(a[k-1], a[k])

Inside(b, a) == Len(a) < Len(b) /\ \A i \in 1..Len(a) : a[i] = b[i]

(* a comes after b: b is inside it, or they part where b comes first.      *)
Later(a, b) ==
    /\ IsSeq(a) /\ IsSeq(b)
    /\ Inside(b, a) \/ \E k \in 2..Len(a) : PartAt(a, b, k)

LEMMA LaterIsStrict ==
    /\ \A a : ~Later(a, a)
    /\ \A a, b, c : Later(a, b) /\ Later(b, c) => Later(a, c)
<1>1. ASSUME NEW a, Later(a, a) PROVE FALSE
    <2>1. Len(a) \in Nat
        BY <1>1, SeqFacts DEF Later
    <2> QED
        BY <1>1, <2>1 DEF Later, Inside, PartAt
<1>2. ASSUME NEW a, NEW b, NEW c, Later(a, b), Later(b, c) PROVE Later(a, c)
    <2>1. /\ IsSeq(a) /\ IsSeq(b) /\ IsSeq(c)
          /\ Len(a) \in Nat /\ Len(b) \in Nat /\ Len(c) \in Nat
        BY <1>2, SeqFacts DEF Later
    <2>2. CASE Inside(b, a) /\ Inside(c, b)
        <3>1. Inside(c, a)
            BY <2>1, <2>2 DEF Inside
        <3> QED
            BY <2>1, <3>1 DEF Later
    <2>3. ASSUME Inside(b, a), NEW k \in 2..Len(b), PartAt(b, c, k) PROVE Later(a, c)
        <3>1. CASE k <= Len(a)
            <4>1. PartAt(a, c, k)
                BY <2>1, <2>3, <3>1 DEF Inside, PartAt
            <4>2. k \in 2..Len(a)
                BY <2>1, <3>1
            <4> QED
                BY <2>1, <4>1, <4>2 DEF Later
        <3>2. CASE Len(a) < k
            <4>1. Inside(c, a)
                BY <2>1, <2>3, <3>2 DEF Inside, PartAt
            <4> QED
                BY <2>1, <4>1 DEF Later
        <3> QED
            BY <2>1, <3>1, <3>2
    <2>4. ASSUME NEW k \in 2..Len(a), PartAt(a, b, k), Inside(c, b) PROVE Later(a, c)
        <3>1. PartAt(a, c, k)
            BY <2>1, <2>4 DEF Inside, PartAt
        <3> QED
            BY <2>1, <3>1 DEF Later
    <2>5. ASSUME NEW k \in 2..Len(a), PartAt(a, b, k), NEW l \in 2..Len(b), PartAt(b, c, l)
          PROVE  Later(a, c)
        <3>1. CASE k < l
            <4>1. PartAt(a, c, k)
                BY <2>1, <2>5, <3>1, SMTT(30) DEF PartAt
            <4> QED
                BY <2>1, <4>1 DEF Later
        <3>2. CASE l < k
            <4>1. PartAt(a, c, l) /\ l \in 2..Len(a)
                BY <2>1, <2>5, <3>2, SMTT(30) DEF PartAt
            <4> QED
                BY <2>1, <4>1 DEF Later
        <3>3. CASE l = k
            <4>1. /\ k \in 2..Len(a) /\ k \in 2..Len(b) /\ k \in 2..Len(c)
                  /\ \A i \in 1..k-1 : a[i] = b[i] /\ b[i] = c[i]
                BY <2>1, <2>5, <3>3 DEF PartAt
            <4>2. k - 1 \in 1..k-1
                BY <4>1
            <4>3. a[k-1] = b[k-1] /\ b[k-1] = c[k-1]
                BY <4>1, <4>2
            <4>4. /\ Rank(a[k-1], a[k]) \in Nat /\ Rank(c[k-1], c[k]) \in Nat
                  /\ Rank(c[k-1], c[k]) < Rank(a[k-1], a[k])
                BY <2>5, <3>3 DEF PartAt
            <4>5. PartAt(a, c, k)
                BY <4>1, <4>4 DEF PartAt
            <4> QED
                BY <2>1, <4>5 DEF Later
        <3>4. k \in Int /\ l \in Int
            BY <2>1
        <3> QED
            BY <3>1, <3>2, <3>3, <3>4
    <2> QED
        BY <1>2, <2>2, <2>3, <2>4, <2>5 DEF Later
<1> QED
    BY <1>1, <1>2

(* A path that goes on from q with x.                                      *)
Begins(a, q, x) ==
    /\ IsSeq(a) /\ Len(q) < Len(a)
    /\ \A i \in 1..Len(q) : a[i] = q[i]
    /\ a[Len(q) + 1] = x

LEMMA BeginsAppend ==
    /\ \A q, x : IsSeq(q) => Begins(Append(q, x), q, x)
    /\ \A a, q, x, y : IsSeq(q) /\ Begins(a, q, x) => Begins(Append(a, y), q, x)
<1>1. ASSUME NEW q, NEW x, IsSeq(q) PROVE Begins(Append(q, x), q, x)
    BY <1>1, AppendFacts, SeqFacts DEF Begins
<1>2. ASSUME NEW a, NEW q, NEW x, NEW y, IsSeq(q), Begins(a, q, x)
      PROVE  Begins(Append(a, y), q, x)
    <2>1. IsSeq(a) /\ Len(a) \in Nat /\ Len(q) \in Nat
        BY <1>2, SeqFacts DEF Begins
    <2>2. /\ IsSeq(Append(a, y)) /\ Len(Append(a, y)) = Len(a) + 1
          /\ \A i \in 1..Len(a) : Append(a, y)[i] = a[i]
        BY <2>1, AppendFacts
    <2> QED
        BY <1>2, <2>1, <2>2 DEF Begins
<1> QED
    BY <1>1, <1>2

(* A chart comes after the charts inside it.                               *)
LEMMA ChildFirst ==
    ASSUME NEW q, NEW x, IsSeq(q)
    PROVE  Later(q, Append(q, x))
BY AppendFacts, SeqFacts DEF Later, Inside

LEMMA SiblingFirst ==
    ASSUME NEW q, NEW a, NEW b, NEW x, NEW y, IsSeq(q), Len(q) >= 1,
           Begins(a, q, x), Begins(b, q, y),
           Rank(q[Len(q)], x) \in Nat, Rank(q[Len(q)], y) \in Nat,
           Rank(q[Len(q)], y) < Rank(q[Len(q)], x)
    PROVE  Later(a, b)
<1>1. /\ IsSeq(a) /\ IsSeq(b)
      /\ Len(a) \in Nat /\ Len(b) \in Nat /\ Len(q) \in Nat
    BY SeqFacts DEF Begins
<1> DEFINE k == Len(q) + 1
<1>2. /\ k \in 2..Len(a) /\ k \in 2..Len(b) /\ k - 1 = Len(q)
      /\ \A i \in 1..k-1 : a[i] = b[i]
      /\ a[k] = x /\ b[k] = y
    BY <1>1 DEF Begins
<1>3. a[k-1] = q[Len(q)] /\ b[k-1] = q[Len(q)]
    BY <1>1, <1>2 DEF Begins
<1>4. PartAt(a, b, k)
    BY <1>2, <1>3 DEF PartAt
<1> QED
    BY <1>1, <1>2, <1>4 DEF Later

----------------------------------------------------------------------------
(* What the steps of a component owe: every name is provided, or brought   *)
(* along with the props; a command comes after a chart that provides what  *)
(* it awaits; and the dependencies agree with the order above.             *)
Answers(s, need) == \E o \in Offers(s) : Meets(o[2], need)

Resolved(s, brought) == \A need \in Refers(s) : need \in brought \/ Answers(s, need)

(* The exception Elsewhere, of an element of Awaits.                       *)
ElsewhereAwait(a) == a[1][2][1] = "ClientSideApply" /\ a[1][2][3][1] = "rollout"
                /\ a[2][2] # a[1][2][2]

AwaitsMet(s) ==
    \A a \in Awaits(s) : ElsewhereAwait(a) \/
        \E o \in Offers(s) : Meets(o[2], a[2]) /\ <<a[1][1], o[1]>> \in Depends(s)

Ordered(s) == \A e \in Depends(s) : Later(e[1], e[2])

Sound(s, brought) == Resolved(s, brought) /\ AwaitsMet(s) /\ Ordered(s)

LEMMA SoundActs ==
    ASSUME NEW s, NEW refs, NEW offers, NEW awaits, NEW depends, NEW brought,
           Acts(s, refs, offers, awaits, depends),
           \A need \in refs : need \in brought \/ \E o \in offers : Meets(o[2], need),
           \A a \in awaits : ElsewhereAwait(a) \/
               \E o \in offers : Meets(o[2], a[2]) /\ <<a[1][1], o[1]>> \in depends,
           \A e \in depends : Later(e[1], e[2])
    PROVE  Sound(s, brought)
<1>1. /\ Refers(s) \subseteq refs /\ offers \subseteq Offers(s)
      /\ Awaits(s) \subseteq awaits /\ Depends(s) = depends
    BY DEF Acts
<1>2. Resolved(s, brought)
    BY <1>1 DEF Resolved, Answers
<1>3. AwaitsMet(s)
    BY <1>1 DEF AwaitsMet
<1> QED
    BY <1>1, <1>2, <1>3 DEF Sound, Ordered

LEMMA JoinSound ==
    ASSUME NEW s, NEW t, NEW b1, NEW b2, IsSeq(s), IsSeq(t), Sound(s, b1), Sound(t, b2)
    PROVE  Sound(s \o t, b1 \cup b2)
<1>1. /\ Refers(s \o t) = Refers(s) \cup Refers(t)
      /\ Offers(s \o t) = Offers(s) \cup Offers(t)
      /\ Awaits(s \o t) = Awaits(s) \cup Awaits(t)
      /\ Depends(s \o t) = Depends(s) \cup Depends(t)
    BY JoinActs
<1>2. Resolved(s \o t, b1 \cup b2)
    BY <1>1 DEF Sound, Resolved, Answers
<1>3. AwaitsMet(s \o t)
    <2> SUFFICES ASSUME NEW a \in Awaits(s \o t), ~ElsewhereAwait(a)
                 PROVE  \E o \in Offers(s \o t) :
                            Meets(o[2], a[2]) /\ <<a[1][1], o[1]>> \in Depends(s \o t)
        BY DEF AwaitsMet
    <2>1. CASE a \in Awaits(s)
        BY <1>1, <2>1 DEF Sound, AwaitsMet
    <2>2. CASE a \in Awaits(t)
        BY <1>1, <2>2 DEF Sound, AwaitsMet
    <2> QED
        BY <1>1, <2>1, <2>2
<1>4. Ordered(s \o t)
    BY <1>1 DEF Sound, Ordered
<1> QED
    BY <1>2, <1>3, <1>4 DEF Sound

(* What is provided after all is no longer owed.                           *)
LEMMA SettleSound ==
    ASSUME NEW s, NEW b1, NEW b2, Sound(s, b1), \A need \in b1 : need \in b2 \/ Answers(s, need)
    PROVE  Sound(s, b2)
BY DEF Sound, Resolved

LEMMA FlattenSound ==
    ASSUME NEW seqs, NEW brought, IsSeq(seqs),
           \A i \in 1..Len(seqs) : IsSeq(seqs[i]) /\ Sound(seqs[i], brought[i])
    PROVE  Sound(FlattenSeq(seqs), UNION {brought[i] : i \in 1..Len(seqs)})
<1> DEFINE n == Len(seqs)
           s == FlattenSeq(seqs)
<1>1. /\ Refers(s) = UNION {Refers(seqs[i]) : i \in 1..n}
      /\ Offers(s) = UNION {Offers(seqs[i]) : i \in 1..n}
      /\ Awaits(s) = UNION {Awaits(seqs[i]) : i \in 1..n}
      /\ Depends(s) = UNION {Depends(seqs[i]) : i \in 1..n}
    BY FlattenActs
<1> HIDE DEF s
<1>2. Resolved(s, UNION {brought[i] : i \in 1..n})
    <2> SUFFICES ASSUME NEW i \in 1..n, NEW need \in Refers(seqs[i]), ~Answers(s, need)
                 PROVE  need \in brought[i]
        BY <1>1 DEF Resolved
    <2>1. ~Answers(seqs[i], need)
        BY <1>1 DEF Answers
    <2> QED
        BY <2>1 DEF Sound, Resolved
<1>3. AwaitsMet(s)
    <2> SUFFICES ASSUME NEW i \in 1..n, NEW a \in Awaits(seqs[i]), ~ElsewhereAwait(a)
                 PROVE  \E o \in Offers(s) :
                            Meets(o[2], a[2]) /\ <<a[1][1], o[1]>> \in Depends(s)
        BY <1>1 DEF AwaitsMet
    <2>1. PICK o \in Offers(seqs[i]) :
              Meets(o[2], a[2]) /\ <<a[1][1], o[1]>> \in Depends(seqs[i])
        BY DEF Sound, AwaitsMet
    <2> QED
        BY <1>1, <2>1
<1>4. Ordered(s)
    <2> SUFFICES ASSUME NEW i \in 1..n, NEW e \in Depends(seqs[i]) PROVE Later(e[1], e[2])
        BY <1>1 DEF Ordered
    <2> QED
        BY DEF Sound, Ordered
<1> QED
    BY <1>2, <1>3, <1>4 DEF Sound, s

----------------------------------------------------------------------------
(* The node.                                                               *)
NodeId(c) == ResourceID("sdk.composite.chainlink.node.v1", Exported(c))

NodePod(c) == Pod(c.ns, Labels("chainlink", c.app) \cup Ports(NodePorts(c)))

NodeNeeds(c) == <<"database", c.ns, NodeURL(c)[1], {<<NodeURL(c)[2], NodeURL(c)[3]>>}>>

LEMMA NodeSound ==
    ASSUME NEW p, NEW c, NEW apart \in BOOLEAN, IsSeq(p)
    PROVE  LET s == chainlinkNode(p, c) IN
           /\ NodePath(p, c) = Append(p, NodeId(c))
           /\ Block(p, {NodeId(c)}, s, apart)
           /\ Sound(s, IF c.url = <<>> THEN {} ELSE {NodeNeeds(c)})
           /\ <<NodePath(p, c), NodePod(c)>> \in Offers(s)
           /\ Awaits(s) = {}
<1> DEFINE q == NodePath(p, c)
           secret == c.app \o "-file"
           files == {"secrets.toml", "apicredentials"} \cup c.secrets
           config == c.app \o "-config"
           configs == {"config.toml"} \cup c.configs
           host == c.app \o "-postgres"
           users == {<<c.app, c.app>>}
           what == <<"Deployment", c.ns, c.app>>
           needs == NodeArgs(c) \cup {NodeNeeds(c)}
           labels == Labels("chainlink", c.app)
           ports == NodePorts(c)
           id1 == ResourceID("sdk.HelmChart#postgres", <<c.ns, host, <<host, users>>>>)
           id2 == ResourceID("sdk.SecretV1", <<c.ns, secret, files>>)
           id3 == ResourceID("sdk.ConfigMapV1", <<c.ns, config, <<configs, FALSE>>>>)
           id4 == <<"chainlink-deployment">>
           id5 == ResourceID("sdk.ServiceV1", <<c.ns, c.app, ports>>)
           pg == PostgresPath(q, c.ns, host, host, users)
           s0 == NewChart(q)
           s1 == NodePostgres(q, c)
           s2 == Secret(q, c.ns, secret, files)
           s3 == ConfigMap(q, c.ns, config, configs, FALSE, {})
           s4 == Make(Append(q, id4), q, what, {NodePod(c)}, needs, {})
           s5 == Service(q, c.ns, c.app, labels, ports, ports)
<1>1. /\ chainlinkNode(p, c) = s0 \o s1 \o (s2 \o s3) \o s4 \o s5
      /\ q = Append(p, NodeId(c))
    BY DEF chainlinkNode, NodePath, NodeId, NodeFiles, NodeDeployment, NodePod, NodeNeeds
<1>2. IsSeq(q)
    BY <1>1, AppendFacts
<1>3. /\ Self \notin {id1, id2, id3, id4, id5} /\ id1 \notin {id2, id3, id4, id5}
      /\ id2 \notin {id3, id4, id5} /\ id3 \notin {id4, id5} /\ id4 # id5
    BY DEF ResourceID, Self
<1>4. /\ NodeNeeds(c)[1] = "database" /\ NodeNeeds(c)[2] = c.ns
      /\ c.url = <<>> => NodeNeeds(c) = <<"database", c.ns, host, users>>
    BY DEF NodeNeeds, NodeURL
<1>5. \A need \in NodeArgs(c) :
          \/ Meets(<<"secret", c.ns, secret, files>>, need)
          \/ Meets(<<"configmap", c.ns, config, configs>>, need)
    BY DEF NodeArgs, Meets
<1>6. Pod(c.ns, labels \cup Ports(ports)) = NodePod(c)
    BY DEF NodePod
<1>7. Meets(NodePod(c), NodePod(c))
    BY DEF Meets
<1>8. Block(q, {Self}, s0, apart) /\ Acts(s0, {}, {}, {}, {})
    BY <1>2, NewChartBlock
<1>9. /\ Block(q, {id1}, s1, apart)
      /\ Refers(s1) = {} /\ Awaits(s1) = {} /\ Ordered(s1)
      /\ c.url = <<>> => <<pg, <<"database", c.ns, host, users>>>> \in Offers(s1)
    <2>1. CASE c.url = <<>>
        <3>1. s1 = Postgres(q, c.ns, host, host, users)
            BY <2>1 DEF NodePostgres
        <3> HIDE DEF q, host, users, s1
        <3>2. /\ Block(q, {id1}, s1, apart)
              /\ Acts(s1, {}, {pg} \X {Pod(c.ns, PodNumber0(host)),
                                       <<"database", c.ns, host, users>>},
                      {}, {<<pg, NamespacePath(pg, c.ns)>>})
            BY <1>2, <3>1, PostgresActs
        <3>3. IsSeq(pg)
            BY <1>2, AppendFacts DEF PostgresPath, ChartPath, ChartOuter
        <3>4. Later(pg, NamespacePath(pg, c.ns))
            BY <3>3, ChildFirst DEF NamespacePath, ScalarPath
        <3> HIDE DEF pg
        <3> QED
            BY <3>2, <3>4 DEF Acts, Ordered
    <2>2. CASE c.url # <<>>
        <3>1. s1 = <<>>
            BY <2>2 DEF NodePostgres
        <3> HIDE DEF s1, id1
        <3>2. Block(q, {id1}, s1, apart) /\ Acts(s1, {}, {}, {}, {})
            BY <3>1, NoneBlock
        <3> QED
            BY <2>2, <3>2 DEF Acts, Ordered
    <2> QED
        BY <2>1, <2>2
<1> HIDE DEF q, secret, files, config, configs, s1, needs, labels, ports, what
<1>10. /\ Block(q, {id2}, s2, apart)
       /\ Acts(s2, {}, {Append(q, id2)} \X {<<"secret", c.ns, secret, files>>}, {}, {})
    BY <1>2, SecretActs
<1>11. /\ Block(q, {id3}, s3, apart)
       /\ Acts(s3, {}, {Append(q, id3)} \X {<<"configmap", c.ns, config, configs>>}, {}, {})
    BY <1>2, ConfigMapActs
<1>12. /\ Block(q, {id4}, s4, apart)
       /\ Acts(s4, needs, {q} \X {NodePod(c)}, {<<q, what>>} \X {}, {})
    <2> HIDE DEF id4
    <2> QED
        BY <1>2, MakeBlock
<1>13. /\ Block(q, {id5}, s5, apart)
       /\ Acts(s5, {Pod(c.ns, labels \cup Ports(ports))},
               {Append(q, id5)} \X {Endpoint(c.ns, c.app, ports)}, {}, {})
    BY <1>2, ServiceActs
<1> HIDE DEF id1, id2, id3, id4, id5, s0, s2, s3, s4, s5
<1>14. Block(q, {Self} \cup {id1}, s0 \o s1, apart)
    BY <1>3, <1>8, <1>9, JoinBlocks
<1>15. Block(q, {id2} \cup {id3}, s2 \o s3, apart)
    BY <1>3, <1>10, <1>11, JoinBlocks
<1>16. Block(q, ({Self} \cup {id1}) \cup ({id2} \cup {id3}), s0 \o s1 \o (s2 \o s3), apart)
    BY <1>3, <1>14, <1>15, JoinBlocks
<1>17. Block(q, (({Self} \cup {id1}) \cup ({id2} \cup {id3})) \cup {id4},
             s0 \o s1 \o (s2 \o s3) \o s4, apart)
    BY <1>3, <1>12, <1>16, JoinBlocks
<1>18. Block(q, ((({Self} \cup {id1}) \cup ({id2} \cup {id3})) \cup {id4}) \cup {id5},
             s0 \o s1 \o (s2 \o s3) \o s4 \o s5, apart)
    BY <1>3, <1>13, <1>17, JoinBlocks
<1> DEFINE s == s0 \o s1 \o (s2 \o s3) \o s4 \o s5
<1>19. Block(p, {NodeId(c)}, s, apart)
    BY <1>1, <1>18, LiftBlock
<1>20. /\ IsSeq(s0) /\ IsSeq(s1) /\ IsSeq(s2) /\ IsSeq(s3) /\ IsSeq(s4) /\ IsSeq(s5)
    BY <1>8, <1>9, <1>10, <1>11, <1>12, <1>13 DEF Block
<1>21. /\ Refers(s) \subseteq needs \cup {NodePod(c)}
       /\ Awaits(s) = {}
       /\ Depends(s) = Depends(s1)
    <2>1. /\ Refers(s) = Refers(s0) \cup Refers(s1) \cup (Refers(s2) \cup Refers(s3))
                              \cup Refers(s4) \cup Refers(s5)
          /\ Awaits(s) = Awaits(s0) \cup Awaits(s1) \cup (Awaits(s2) \cup Awaits(s3))
                              \cup Awaits(s4) \cup Awaits(s5)
          /\ Depends(s) = Depends(s0) \cup Depends(s1) \cup (Depends(s2) \cup Depends(s3))
                              \cup Depends(s4) \cup Depends(s5)
        BY <1>20, JoinActs
    <2>2. /\ Refers(s0) = {} /\ Refers(s1) = {} /\ Refers(s2) = {} /\ Refers(s3) = {}
          /\ Refers(s4) \subseteq needs /\ Refers(s5) \subseteq {NodePod(c)}
        BY <1>6, <1>8, <1>9, <1>10, <1>11, <1>12, <1>13 DEF Acts
    <2>3. /\ Awaits(s0) = {} /\ Awaits(s1) = {} /\ Awaits(s2) = {} /\ Awaits(s3) = {}
          /\ Awaits(s4) = {} /\ Awaits(s5) = {}
        BY <1>8, <1>9, <1>10, <1>11, <1>12, <1>13 DEF Acts
    <2>4. /\ Depends(s0) = {} /\ Depends(s2) = {} /\ Depends(s3) = {}
          /\ Depends(s4) = {} /\ Depends(s5) = {}
        BY <1>8, <1>10, <1>11, <1>12, <1>13 DEF Acts
    <2> HIDE DEF s
    <2> QED
        BY <2>1, <2>2, <2>3, <2>4
<1>22. /\ <<q, NodePod(c)>> \in Offers(s)
       /\ <<Append(q, id2), <<"secret", c.ns, secret, files>>>> \in Offers(s)
       /\ <<Append(q, id3), <<"configmap", c.ns, config, configs>>>> \in Offers(s)
       /\ c.url = <<>> => <<pg, <<"database", c.ns, host, users>>>> \in Offers(s)
    BY <1>9, <1>10, <1>11, <1>12, <1>20, JoinActs DEF Acts
<1> HIDE DEF s
<1>23. Resolved(s, IF c.url = <<>> THEN {} ELSE {NodeNeeds(c)})
    <2> SUFFICES ASSUME NEW need \in Refers(s)
                 PROVE  \/ need \in IF c.url = <<>> THEN {} ELSE {NodeNeeds(c)}
                        \/ Answers(s, need)
        BY DEF Resolved
    <2>1. CASE need \in NodeArgs(c)
        BY <2>1, <1>5, <1>22 DEF Answers
    <2>2. CASE need = NodePod(c)
        BY <2>2, <1>7, <1>22 DEF Answers
    <2>3. CASE need = NodeNeeds(c)
        <3>1. c.url = <<>> => Meets(<<"database", c.ns, host, users>>, need)
            BY <2>3, <1>4 DEF Meets
        <3> HIDE DEF host, users, pg
        <3> QED
            BY <3>1, <2>3, <1>22 DEF Answers
    <2> QED
        BY <1>21, <2>1, <2>2, <2>3 DEF needs
<1>24. Sound(s, IF c.url = <<>> THEN {} ELSE {NodeNeeds(c)})
    BY <1>9, <1>21, <1>23 DEF Sound, AwaitsMet, Ordered
<1> QED
    BY <1>1, <1>19, <1>21, <1>22, <1>24 DEF s, q

(* A loop that declares dependencies.                                      *)
DependEach(seqs, from, on) ==
    /\ IsSeq(seqs)
    /\ \A i \in 1..Len(seqs) : seqs[i] = AddDependency(from[i], on[i])

LEMMA DependLoop ==
    ASSUME NEW q, NEW seqs, NEW from, NEW on, NEW apart \in BOOLEAN,
           DependEach(seqs, from, on)
    PROVE  /\ Block(q, {}, FlattenSeq(seqs), apart)
           /\ Acts(FlattenSeq(seqs), {}, {}, {}, {<<from[i], on[i]>> : i \in 1..Len(seqs)})
<1> DEFINE s == FlattenSeq(seqs)
           n == Len(seqs)
<1>1. \A i \in 1..n : /\ Block(q, {}, seqs[i], apart)
                      /\ Acts(seqs[i], {}, {}, {}, {<<from[i], on[i]>>})
    <2> SUFFICES ASSUME NEW i \in 1..n
                 PROVE  /\ Block(q, {}, seqs[i], apart)
                        /\ Acts(seqs[i], {}, {}, {}, {<<from[i], on[i]>>})
        OBVIOUS
    <2>1. seqs[i] = AddDependency(from[i], on[i])
        BY DEF DependEach
    <2> QED
        BY <2>1, DependBlock
<1>2. \A i \in 1..n : /\ IsSeq(seqs[i]) /\ Makes(seqs[i]) = {}
                      /\ Depends(seqs[i]) = {<<from[i], on[i]>>}
    BY <1>1 DEF Block, Acts, Under
<1>3. /\ IsSeq(s) /\ Makes(s) = UNION {Makes(seqs[i]) : i \in 1..n}
      /\ Depends(s) = UNION {Depends(seqs[i]) : i \in 1..n}
    BY <1>2, FlattenActs DEF DependEach
<1> HIDE DEF s, n
<1>4. Makes(s) = {}
    BY <1>2, <1>3
<1>5. Depends(s) = {<<from[i], on[i]>> : i \in 1..n}
    BY <1>2, <1>3
<1>6. Apart(s)
    <2> SUFFICES ASSUME NEW k \in 1..Len(s), s[k].op = "make" PROVE FALSE
        BY DEF Apart
    <2>1. s[k] \in Makes(s)
        BY <1>3, SeqFacts DEF Makes
    <2> QED
        BY <1>4, <2>1
<1> QED
    BY <1>3, <1>4, <1>5, <1>6 DEF Block, Acts, Refers, Offers, Awaits, s, n

----------------------------------------------------------------------------
(* The node set.                                                           *)
SetPlace(c) == ResourceID("sdk.composite.chainlink.nodeset.v1", Exported(c))

LEMMA NodeSetSound ==
    ASSUME NEW p, NEW c, NEW apart \in BOOLEAN, IsSeq(p), Len(p) >= 1,
           c.nodes \in Seq(STRING), c.nodes # <<>>
    PROVE  /\ Block(p, {SetPlace(c)}, nodeSet(p, c), apart)
           /\ Sound(nodeSet(p, c), {})
<1> DEFINE q == Append(p, SetPlace(c))
           n == Len(c.nodes)
           labels == {<<"name", "chainlink">>}
           command == CommandPath(q, c.ns, WaitCommand(labels))
           what == <<"ClientSideApply", c.ns, WaitCommand(labels)>>
           users == generateInitSQL(c)
           node(i) == SetNode(c, i)
           id1 == ResourceID("sdk.HelmChart#postgres", <<c.ns, c.release, <<c.release, users>>>>)
           id3 == ResourceID("sdk.ClientSideApply", <<c.ns, WaitCommand(labels)>>)
           pg == PostgresPath(q, c.ns, c.release, c.release, users)
           nodes == [i \in 1..n |-> chainlinkNode(q, node(i))]
           ids == [i \in 1..n |-> {NodeId(node(i))}]
           afters == [i \in 1..n |-> AddDependency(command, NodePath(q, node(i)))]
           s0 == NewChart(q)
           s1 == Postgres(q, c.ns, c.release, c.release, users)
           s2 == FlattenSeq(nodes)
           s3 == ClientSideApply(q, c.ns, WaitCommand(labels), {}, {Pod(c.ns, labels)})
           s4 == FlattenSeq(afters)
           s == s0 \o s1 \o s2 \o s3 \o s4
<1>1. nodeSet(p, c) = s
    BY DEF nodeSet, SetPlace
<1>2. /\ IsSeq(q) /\ q[Len(q)] = SetPlace(c) /\ Len(q) >= 1
    BY AppendFacts, SeqFacts
<1>3. n \in Nat /\ 1 \in 1..n
    BY EmptySeq, LenProperties
<1>4. IsSeq(nodes) /\ Len(nodes) = n
    <2> HIDE DEF n, q, node
    <2> QED
        BY <1>3, LoopSeq
<1>5. IsSeq(afters) /\ Len(afters) = n
    <2> HIDE DEF n, q, node, command
    <2> QED
        BY <1>3, LoopSeq
<1>6. \A i \in 1..n : /\ node(i).url = <<c.release, NodeUser(i), NodeDatabase(i)>>
                      /\ node(i).ns = c.ns
                      /\ NodeNeeds(node(i)) = <<"database", c.ns, c.release,
                                                {<<NodeUser(i), NodeDatabase(i)>>}>>
                      /\ node(i).url # <<>>
    BY DEF SetNode, NodeNeeds, NodeURL
<1>7. \A i, j \in 1..n : i # j => ids[i] \cap ids[j] = {}
    <2> SUFFICES ASSUME NEW i \in 1..n, NEW j \in 1..n, NodeId(node(i)) = NodeId(node(j))
                 PROVE  i = j
        OBVIOUS
    <2>1. Exported(node(i)) = Exported(node(j))
        BY DEF NodeId, ResourceID
    <2>2. \A k \in 1..n : Exported(node(k)).url = node(k).url
        BY DEF Exported, Unexported, SetNode
    <2>3. NodeUser(i) = NodeUser(j)
        BY <2>1, <2>2, <1>6
    <2> QED
        BY <2>3 DEF NodeUser
<1> HIDE DEF node
<1>8. \A i \in 1..n :
          /\ NodePath(q, node(i)) = Append(q, NodeId(node(i)))
          /\ Block(q, {NodeId(node(i))}, chainlinkNode(q, node(i)), apart)
          /\ Sound(chainlinkNode(q, node(i)), {NodeNeeds(node(i))})
          /\ <<NodePath(q, node(i)), NodePod(node(i))>> \in Offers(chainlinkNode(q, node(i)))
          /\ Awaits(chainlinkNode(q, node(i))) = {}
    BY <1>2, <1>6, NodeSound
<1>9. \A i \in 1..n : nodes[i] = chainlinkNode(q, node(i)) /\ ids[i] = {NodeId(node(i))}
                          /\ afters[i] = AddDependency(command, NodePath(q, node(i)))
    OBVIOUS
<1>10. Self # id1 /\ Self # id3 /\ id1 # id3
    BY DEF Self, ResourceID
<1>11. \A i \in 1..n : Self \notin ids[i] /\ id1 \notin ids[i] /\ id3 \notin ids[i]
    BY <1>9 DEF Self, ResourceID, NodeId
<1> HIDE DEF nodes, ids, afters
<1>8a. \A i \in 1..n :
           /\ Block(q, ids[i], nodes[i], apart) /\ IsSeq(nodes[i])
           /\ Sound(nodes[i], {NodeNeeds(node(i))})
           /\ <<NodePath(q, node(i)), NodePod(node(i))>> \in Offers(nodes[i])
           /\ Awaits(nodes[i]) = {}
    BY <1>8, <1>9 DEF Block
<1>12. Block(q, UNION {ids[i] : i \in 1..n}, s2, apart)
    <2>1. /\ \A i \in 1..Len(nodes) : Block(q, ids[i], nodes[i], apart)
          /\ \A i, j \in 1..Len(nodes) : i # j => ids[i] \cap ids[j] = {}
        BY <1>4, <1>7, <1>8a
    <2> HIDE DEF n, q
    <2>2. Block(q, UNION {ids[i] : i \in 1..Len(nodes)}, s2, apart)
        BY <1>4, <2>1, FlattenBlock
    <2> QED
        BY <1>4, <2>2
<1>13. /\ IsSeq(s2)
       /\ Refers(s2) = UNION {Refers(nodes[i]) : i \in 1..n}
       /\ Offers(s2) = UNION {Offers(nodes[i]) : i \in 1..n}
       /\ Awaits(s2) = UNION {Awaits(nodes[i]) : i \in 1..n}
       /\ Depends(s2) = UNION {Depends(nodes[i]) : i \in 1..n}
    BY <1>4, <1>8a, FlattenActs
<1>14. /\ Block(q, {}, s4, apart)
       /\ Acts(s4, {}, {}, {}, {<<command, NodePath(q, node(i))>> : i \in 1..n})
    <2> DEFINE from == [i \in 1..n |-> command]
               on == [i \in 1..n |-> NodePath(q, node(i))]
    <2>1. \A i \in 1..n : from[i] = command /\ on[i] = NodePath(q, node(i))
        OBVIOUS
    <2> HIDE DEF command, q, from, on
    <2>2. DependEach(afters, from, on)
        BY <1>5, <1>9, <2>1 DEF DependEach
    <2>3. /\ Block(q, {}, s4, apart)
          /\ Acts(s4, {}, {}, {}, {<<from[i], on[i]>> : i \in 1..n})
        <3> HIDE DEF n, s4
        <3>1. /\ Block(q, {}, s4, apart)
              /\ Acts(s4, {}, {}, {}, {<<from[i], on[i]>> : i \in 1..Len(afters)})
            BY <1>5, <2>2, DependLoop, SMTT(30) DEF s4
        <3> QED
            BY <1>5, <3>1
    <2>4. {<<from[i], on[i]>> : i \in 1..n} = {<<command, NodePath(q, node(i))>> : i \in 1..n}
        BY <2>1
    <2> QED
        BY <2>3, <2>4
<1>15. Block(q, {Self}, s0, apart) /\ Acts(s0, {}, {}, {}, {})
    BY <1>2, NewChartBlock
<1>16. /\ Block(q, {id1}, s1, apart)
       /\ Acts(s1, {}, {pg} \X {Pod(c.ns, PodNumber0(c.release)),
                                <<"database", c.ns, c.release, users>>},
               {}, {<<pg, NamespacePath(pg, c.ns)>>})
    <2> HIDE DEF users, q
    <2> QED
        BY <1>2, PostgresActs
<1>17. /\ Block(q, {id3}, s3, apart)
       /\ Acts(s3, {}, {}, {<<command, what>>} \X {Pod(c.ns, labels)}, {})
    <2> DEFINE awaits == {Pod(c.ns, labels)}
               word == WaitCommand(labels)
    <2> HIDE DEF awaits, q, word
    <2>1. /\ Block(q, {ResourceID("sdk.ClientSideApply", <<c.ns, word>>)},
                   ClientSideApply(q, c.ns, word, {}, awaits), apart)
          /\ Acts(ClientSideApply(q, c.ns, word, {}, awaits), {}, {CommandPath(q, c.ns, word)} \X {},
                  {<<CommandPath(q, c.ns, word), <<"ClientSideApply", c.ns, word>>>>} \X awaits, {})
        BY <1>2, CommandActs
    <2>2. Acts(ClientSideApply(q, c.ns, word, {}, awaits), {}, {},
               {<<CommandPath(q, c.ns, word), <<"ClientSideApply", c.ns, word>>>>} \X awaits, {})
        BY <2>1 DEF Acts
    <2> QED
        BY <2>1, <2>2 DEF awaits, word
<1> DEFINE X == UNION {ids[i] : i \in 1..n}
<1>18. Self \notin X /\ id1 \notin X /\ id3 \notin X
    BY <1>11
<1>19. IsSeq(pg) /\ Later(pg, NamespacePath(pg, c.ns))
    <2>1. IsSeq(pg)
        BY <1>2, AppendFacts DEF PostgresPath, ChartPath, ChartOuter
    <2> HIDE DEF pg
    <2> QED
        BY <2>1, ChildFirst DEF NamespacePath, ScalarPath
<1>20. \A i \in 1..n : Later(command, NodePath(q, node(i)))
    <2> TAKE i \in 1..n
    <2>1. /\ Begins(command, q, id3) /\ Begins(NodePath(q, node(i)), q, NodeId(node(i)))
        BY <1>2, <1>8, BeginsAppend DEF CommandPath
    <2>2. Rank(q[Len(q)], id3) = 4
        <3>1. <<"name", "postgresql">> \notin labels
            OBVIOUS
        <3>2. CommandRank(WaitCommand(labels)) = 4
            BY <3>1 DEF CommandRank, WaitCommand
        <3> HIDE DEF labels
        <3> QED
            BY <1>2, <3>2 DEF Rank, ResourceID, SetPlace
    <2>3. Rank(q[Len(q)], NodeId(node(i))) = 1
        BY <1>2 DEF Rank, NodeId, ResourceID, SetPlace
    <2> HIDE DEF q, id3, command
    <2> QED
        BY <1>2, <2>1, <2>2, <2>3, SiblingFirst
<1>21. \A i \in 1..n : Meets(NodePod(node(i)), Pod(c.ns, labels))
    BY <1>6 DEF NodePod, Pod, Meets, Labels
<1>22. \A i \in 1..n :
          Meets(<<"database", c.ns, c.release, users>>, NodeNeeds(node(i)))
    BY <1>6 DEF Meets, generateInitSQL
<1> HIDE DEF q, id1, id3, pg, users, labels, command, what, s0, s1, s2, s3, s4, n, X
<1>23. Block(q, {Self} \cup {id1}, s0 \o s1, apart)
    BY <1>10, <1>15, <1>16, JoinBlocks
<1>24. Block(q, ({Self} \cup {id1}) \cup X, s0 \o s1 \o s2, apart)
    BY <1>12, <1>18, <1>23, JoinBlocks DEF X
<1>25. Block(q, (({Self} \cup {id1}) \cup X) \cup {id3}, s0 \o s1 \o s2 \o s3, apart)
    BY <1>10, <1>17, <1>18, <1>24, JoinBlocks
<1>26. Block(q, ((({Self} \cup {id1}) \cup X) \cup {id3}) \cup {}, s, apart)
    BY <1>14, <1>25, JoinBlocks
<1>27. Block(p, {SetPlace(c)}, s, apart)
    BY <1>26, LiftBlock DEF q
<1>28. /\ Refers(s) = Refers(s0) \cup Refers(s1) \cup Refers(s2) \cup Refers(s3) \cup Refers(s4)
       /\ Offers(s) = Offers(s0) \cup Offers(s1) \cup Offers(s2) \cup Offers(s3) \cup Offers(s4)
       /\ Awaits(s) = Awaits(s0) \cup Awaits(s1) \cup Awaits(s2) \cup Awaits(s3) \cup Awaits(s4)
       /\ Depends(s) = Depends(s0) \cup Depends(s1) \cup Depends(s2) \cup Depends(s3) \cup Depends(s4)
    BY <1>13, <1>14, <1>15, <1>16, <1>17, JoinActs DEF Block
<1> HIDE DEF s
<1>29. Resolved(s, {})
    <2> SUFFICES ASSUME NEW need \in Refers(s) PROVE Answers(s, need)
        BY DEF Resolved
    <2>1. PICK i \in 1..n : need \in Refers(nodes[i])
        BY <1>13, <1>14, <1>15, <1>16, <1>17, <1>28 DEF Acts
    <2>2. need = NodeNeeds(node(i)) \/ Answers(nodes[i], need)
        BY <1>8a, <2>1 DEF Sound, Resolved
    <2>3. CASE need = NodeNeeds(node(i))
        <3>1. <<pg, <<"database", c.ns, c.release, users>>>> \in Offers(s)
            BY <1>16, <1>28 DEF Acts
        <3> QED
            BY <2>3, <3>1, <1>22 DEF Answers
    <2>4. CASE Answers(nodes[i], need)
        BY <2>4, <1>13, <1>28 DEF Answers
    <2> QED
        BY <2>2, <2>3, <2>4
<1>30. AwaitsMet(s)
    <2>1. Awaits(s2) = {}
        <3>1. \A i \in 1..n : Awaits(nodes[i]) = {}
            BY <1>8a
        <3> QED
            BY <3>1, <1>13
    <2>2. Awaits(s) \subseteq {<<command, what>>} \X {Pod(c.ns, labels)}
        BY <2>1, <1>14, <1>15, <1>16, <1>17, <1>28 DEF Acts
    <2>3. <<NodePath(q, node(1)), NodePod(node(1))>> \in Offers(s)
        <3>1. <<NodePath(q, node(1)), NodePod(node(1))>> \in Offers(nodes[1])
            BY <1>3, <1>8a
        <3> QED
            BY <3>1, <1>3, <1>13, <1>28
    <2>4. <<command, NodePath(q, node(1))>> \in Depends(s)
        BY <1>3, <1>14, <1>28 DEF Acts
    <2> QED
        BY <2>2, <2>3, <2>4, <1>3, <1>21 DEF AwaitsMet
<1>31. Ordered(s)
    <2> SUFFICES ASSUME NEW e \in Depends(s) PROVE Later(e[1], e[2])
        BY DEF Ordered
    <2>1. CASE e \in Depends(s1)
        BY <2>1, <1>16, <1>19 DEF Acts
    <2>2. CASE e \in Depends(s2)
        BY <2>2, <1>8a, <1>13 DEF Sound, Ordered
    <2>3. CASE e \in Depends(s4)
        BY <2>3, <1>14, <1>20 DEF Acts
    <2> QED
        BY <2>1, <2>2, <2>3, <1>15, <1>17, <1>28 DEF Acts
<1> QED
    BY <1>1, <1>27, <1>29, <1>30, <1>31 DEF Sound, s

----------------------------------------------------------------------------
(* The charts and commands of a component are apart at their first id.     *)
LEMMA ChartPathFacts ==
    ASSUME NEW p, NEW chart, NEW ns, NEW release, NEW values, IsSeq(p)
    PROVE  LET path == ChartPath(p, chart, ns, release, values) IN
           /\ Begins(path, p, ResourceID(resourcePrefix[chart], <<ns, release, values>>))
           /\ Later(path, NamespacePath(path, ns))
<1> DEFINE id == ResourceID(resourcePrefix[chart], <<ns, release, values>>)
           outer == Append(p, id)
           inner == ResourceID("sdk.HelmChart", <<ns, release>>)
           path == Append(outer, inner)
<1>1. ChartPath(p, chart, ns, release, values) = path
    BY DEF ChartPath, ChartOuter
<1> HIDE DEF id, inner
<1>2. IsSeq(outer) /\ Begins(path, p, id)
    BY AppendFacts, BeginsAppend
<1>3. IsSeq(path)
    BY <1>2, AppendFacts
<1> HIDE DEF path
<1>4. Later(path, NamespacePath(path, ns))
    BY <1>3, ChildFirst DEF NamespacePath, ScalarPath
<1> QED
    BY <1>1, <1>2, <1>4 DEF id

LEMMA PostgresPathFacts ==
    ASSUME NEW p, NEW ns, NEW release, NEW host, NEW users, IsSeq(p)
    PROVE  LET path == PostgresPath(p, ns, release, host, users) IN
           /\ Begins(path, p, ResourceID("sdk.HelmChart#postgres",
                                         <<ns, release, <<host, users>>>>))
           /\ Later(path, NamespacePath(path, ns))
<1>1. resourcePrefix["postgres"] = "sdk.HelmChart#postgres"
    BY DEF resourcePrefix
<1> QED
    BY <1>1, ChartPathFacts DEF PostgresPath

LEMMA ComponentPathFacts ==
    ASSUME NEW p, NEW chart, NEW ns, NEW release, NEW service, NEW ports, IsSeq(p)
    PROVE  LET path == ComponentPath(p, chart, ns, release, service, ports) IN
           /\ Begins(path, p, ResourceID(resourcePrefix[chart],
                                         <<ns, release, <<service, ports>>>>))
           /\ Later(path, NamespacePath(path, ns))
BY ChartPathFacts DEF ComponentPath

LEMMA CommandPathFacts ==
    ASSUME NEW p, NEW ns, NEW command, IsSeq(p)
    PROVE  Begins(CommandPath(p, ns, command), p,
                  ResourceID("sdk.ClientSideApply", <<ns, command>>))
BY BeginsAppend DEF CommandPath

LEMMA Ranks ==
    ASSUME NEW parent, parent[1] # "sdk.Blockchains"
    PROVE  /\ \A ns, command : Rank(parent, ResourceID("sdk.ClientSideApply", <<ns, command>>))
                                   = CommandRank(command)
           /\ \A key : Rank(parent, ResourceID("sdk.Namespace", key)) = 0
           /\ \A key : Rank(parent, ResourceID("sdk.HelmChart#jd", key)) = 3
           /\ \A id : id[1] \notin {"sdk.ClientSideApply", "sdk.Namespace", "sdk.HelmChart#jd"}
                  => Rank(parent, id) = 1
BY DEF Rank, ResourceID

LEMMA WaitRanks ==
    /\ \A host : CommandRank(WaitCommand(PodNumber0(host))) = 2
    /\ \A labels : <<"name", "postgresql">> \notin labels => CommandRank(WaitCommand(labels)) = 4
BY DEF CommandRank, WaitCommand, PodNumber0

(* The job distributor.                                                    *)
JDPlace(c) == ResourceID("sdk.composite.chainlink.jd.v1", Exported(c))

LEMMA JDSound ==
    ASSUME NEW p, NEW c, NEW apart \in BOOLEAN, IsSeq(p), Len(p) >= 1
    PROVE  /\ Block(p, {JDPlace(c)}, jdComposite(p, c), apart)
           /\ Sound(jdComposite(p, c), {})
<1> DEFINE q == Append(p, JDPlace(c))
           db == c.app \o "-db"
           users == {<<"chainlink", "chainlink">>}
           pg == PostgresPath(q, c.ns, db, db, users)
           labels == PodNumber0(db)
           w == JDWorkload(c)
           wq == WorkloadPath(q, w)
           wait == CommandPath(q, c.ns, WaitCommand(labels))
           rollout == CommandPath(q, w.ns, RolloutCommand(w))
           refs == {<<"database", c.ns, db, users>>}
           id1 == ResourceID("sdk.HelmChart#postgres", <<c.ns, db, <<db, users>>>>)
           id2 == ResourceID("sdk.ClientSideApply", <<c.ns, WaitCommand(labels)>>)
           id3 == WorkloadId(w)
           id4 == ResourceID("sdk.ClientSideApply", <<w.ns, RolloutCommand(w)>>)
           svc == ResourceID("sdk.ServiceV1", <<w.ns, w.name, w.ports>>)
           s0 == NewChart(q)
           s1 == Postgres(q, c.ns, db, db, users)
           s2 == Wait(q, c.ns, labels, pg)
           s3 == Deployment(q, w, refs)
           s4 == ExposeViaService(q, w)
           s5 == IF c.rollout THEN WaitForRollout(q, w) ELSE <<>>
           s == s0 \o (s1 \o s2) \o (s3 \o s4 \o s5)
           awaits5 == {<<rollout, <<"ClientSideApply", w.ns, RolloutCommand(w)>>>>}
                          \X {<<w.kind, CurrentNamespace, "", {<<"instance", w.name>>}>>}
<1>1. jdComposite(p, c) = s
    BY DEF jdComposite, AddPostgresWithWait, jdApp, JDPlace
<1>2. IsSeq(q) /\ q[Len(q)] = JDPlace(c) /\ Len(q) >= 1
    BY AppendFacts, SeqFacts
<1>3. w.kind = "deployment" /\ w.ns = c.ns
    BY DEF JDWorkload
<1>4. /\ Self \notin {id1, id2, id3, id4} /\ id1 \notin {id2, id3, id4}
      /\ id2 \notin {id3, id4} /\ id3 # id4
      /\ svc \notin {Self, <<"Resource">>}
    BY <1>3 DEF ResourceID, Self, WorkloadId, WaitCommand, RolloutCommand
<1>5. /\ Begins(pg, q, id1) /\ Later(pg, NamespacePath(pg, c.ns))
      /\ Begins(wait, q, id2) /\ Begins(wq, q, id3) /\ Begins(rollout, q, id4)
      /\ IsSeq(wq)
    <2> HIDE DEF q, users, db, w, labels
    <2> QED
        BY <1>2, PostgresPathFacts, CommandPathFacts, WorkloadPathFacts, BeginsAppend
<1>6. /\ Rank(q[Len(q)], id1) = 1 /\ Rank(q[Len(q)], id2) = 2
      /\ Rank(q[Len(q)], id3) = 1 /\ Rank(q[Len(q)], id4) = 4
    <2>1. JDPlace(c)[1] # "sdk.Blockchains"
        BY DEF JDPlace, ResourceID
    <2>2. CommandRank(WaitCommand(labels)) = 2 /\ CommandRank(RolloutCommand(w)) = 4
        BY WaitRanks DEF CommandRank, RolloutCommand
    <2>3. id1[1] = "sdk.HelmChart#postgres" /\ id3[1] = "sdk.DeploymentV1"
        BY <1>3 DEF ResourceID, WorkloadId
    <2> HIDE DEF q, labels, w, id1, id3
    <2> QED
        BY <1>2, <2>1, <2>2, <2>3, Ranks
<1>7. Later(wait, pg) /\ Later(rollout, wq)
    <2> HIDE DEF q, wait, pg, rollout, wq, id1, id2, id3, id4
    <2> QED
        BY <1>2, <1>5, <1>6, SiblingFirst
<1>8. Block(q, {Self}, s0, apart) /\ Acts(s0, {}, {}, {}, {})
    BY <1>2, NewChartBlock
<1> DEFINE offers1 == {pg} \X {Pod(c.ns, labels), <<"database", c.ns, db, users>>}
           offers2 == {wait} \X {<<"ready", c.ns, "", labels>>}
           awaits2 == {<<wait, <<"ClientSideApply", c.ns, WaitCommand(labels)>>>>}
                          \X {Pod(c.ns, labels)}
           offers3 == {wq} \X WorkloadGives(w)
           offers4 == {Append(wq, svc)} \X {Endpoint(w.ns, w.name, w.ports)}
<1>9. Block(q, {id1}, s1, apart) /\ Acts(s1, {}, offers1, {}, {<<pg, NamespacePath(pg, c.ns)>>})
    <2> HIDE DEF q, users, db
    <2> QED
        BY <1>2, PostgresActs
<1>10. Block(q, {id2}, s2, apart) /\ Acts(s2, {}, offers2, awaits2, {<<wait, pg>>})
    <2> HIDE DEF q, labels, pg
    <2> QED
        BY <1>2, WaitActs
<1>11. Block(wq, {Self, <<"Resource">>}, s3, apart) /\ Acts(s3, refs, offers3, {}, {})
    <2> HIDE DEF q, w, refs
    <2> QED
        BY <1>2, DeploymentActs
<1>12. Block(wq, {svc}, s4, apart) /\ Acts(s4, {WorkloadPod(w)}, offers4, {}, {})
    <2> HIDE DEF q, w
    <2> QED
        BY <1>2, ExposeViaServiceActs
<1>13. /\ Block(q, {id4}, s5, apart)
       /\ Acts(s5, {}, {}, IF c.rollout THEN awaits5 ELSE {},
               IF c.rollout THEN {<<rollout, wq>>} ELSE {})
    <2> HIDE DEF q, w
    <2>1. CASE c.rollout
        BY <1>2, <2>1, WaitForRolloutActs
    <2>2. CASE ~c.rollout
        BY <2>2, NoneBlock
    <2> QED
        BY <2>1, <2>2
<1> HIDE DEF q, db, users, pg, labels, w, wq, wait, rollout, refs, id1, id2, id3, id4, svc,
             s0, s1, s2, s3, s4, s5, offers1, offers2, offers3, offers4, awaits2, awaits5
<1> DEFINE awaits == IF c.rollout THEN awaits5 ELSE {}
           last == IF c.rollout THEN {<<rollout, wq>>} ELSE {}
<1>14. /\ Block(q, {id1} \cup {id2}, s1 \o s2, apart)
       /\ Acts(s1 \o s2, {} \cup {}, offers1 \cup offers2, {} \cup awaits2,
               {<<pg, NamespacePath(pg, c.ns)>>} \cup {<<wait, pg>>})
    BY <1>4, <1>9, <1>10, JoinParts
<1>15. /\ Block(wq, {Self, <<"Resource">>} \cup {svc}, s3 \o s4, apart)
       /\ Acts(s3 \o s4, refs \cup {WorkloadPod(w)}, offers3 \cup offers4, {} \cup {}, {} \cup {})
    BY <1>4, <1>11, <1>12, JoinParts
<1>16. Block(q, {id3}, s3 \o s4, apart)
    <2>1. wq = Append(q, id3)
        BY <1>2, WorkloadPathFacts DEF wq, id3
    <2> QED
        BY <1>2, <1>15, <2>1, LiftBlock
<1> HIDE DEF awaits, last
<1>17. /\ Block(q, {id3} \cup {id4}, s3 \o s4 \o s5, apart)
       /\ Acts(s3 \o s4 \o s5, (refs \cup {WorkloadPod(w)}) \cup {}, (offers3 \cup offers4) \cup {},
               ({} \cup {}) \cup awaits, ({} \cup {}) \cup last)
    BY <1>4, <1>13, <1>15, <1>16, JoinParts DEF awaits, last
<1>18. /\ Block(q, {Self} \cup ({id1} \cup {id2}), s0 \o (s1 \o s2), apart)
       /\ Acts(s0 \o (s1 \o s2), {} \cup ({} \cup {}), {} \cup (offers1 \cup offers2),
               {} \cup ({} \cup awaits2),
               {} \cup ({<<pg, NamespacePath(pg, c.ns)>>} \cup {<<wait, pg>>}))
    <2> DEFINE back == s1 \o s2
               Y == {id1} \cup {id2}
               o2 == offers1 \cup offers2
               a2 == {} \cup awaits2
               d2 == {<<pg, NamespacePath(pg, c.ns)>>} \cup {<<wait, pg>>}
    <2>1. {Self} \cap Y = {}
        BY <1>4
    <2>2. Block(q, Y, back, apart) /\ Acts(back, {} \cup {}, o2, a2, d2)
        BY <1>14
    <2> HIDE DEF back, Y, o2, a2, d2
    <2>3. Block(q, {Self} \cup Y, s0 \o back, apart)
        BY <1>8, <2>1, <2>2, JoinBlocks
    <2>4. Acts(s0 \o back, {} \cup ({} \cup {}), {} \cup o2, {} \cup a2, {} \cup d2)
        BY <1>8, <2>2, JoinActs DEF Acts, Block
    <2> QED
        BY <2>3, <2>4 DEF back, Y, o2, a2, d2
<1>19. /\ Block(q, ({Self} \cup ({id1} \cup {id2})) \cup ({id3} \cup {id4}), s, apart)
       /\ Acts(s, ({} \cup ({} \cup {})) \cup ((refs \cup {WorkloadPod(w)}) \cup {}),
               ({} \cup (offers1 \cup offers2)) \cup ((offers3 \cup offers4) \cup {}),
               ({} \cup ({} \cup awaits2)) \cup (({} \cup {}) \cup awaits),
               ({} \cup ({<<pg, NamespacePath(pg, c.ns)>>} \cup {<<wait, pg>>}))
                   \cup (({} \cup {}) \cup last))
    <2> DEFINE front == s0 \o (s1 \o s2)
               back == s3 \o s4 \o s5
               X == {Self} \cup ({id1} \cup {id2})
               Y == {id3} \cup {id4}
    <2>1. X \cap Y = {} /\ s = front \o back
        BY <1>4
    <2> DEFINE r1 == {} \cup ({} \cup {})
               r2 == (refs \cup {WorkloadPod(w)}) \cup {}
               o1 == {} \cup (offers1 \cup offers2)
               o2 == (offers3 \cup offers4) \cup {}
               a1 == {} \cup ({} \cup awaits2)
               a2 == ({} \cup {}) \cup awaits
               d1 == {} \cup ({<<pg, NamespacePath(pg, c.ns)>>} \cup {<<wait, pg>>})
               d2 == ({} \cup {}) \cup last
    <2>2. /\ Block(q, X, front, apart) /\ Acts(front, r1, o1, a1, d1)
          /\ Block(q, Y, back, apart) /\ Acts(back, r2, o2, a2, d2)
        BY <1>17, <1>18
    <2> HIDE DEF front, back, X, Y, s, r1, r2, o1, o2, a1, a2, d1, d2
    <2>3. /\ Block(q, X \cup Y, front \o back, apart)
          /\ Acts(front \o back, r1 \cup r2, o1 \cup o2, a1 \cup a2, d1 \cup d2)
        <3>1. apart => X \cap Y = {}
            BY <2>1
        <3>2. Block(q, X \cup Y, front \o back, apart)
            BY <2>2, <3>1, JoinBlocks
        <3>3. IsSeq(front) /\ IsSeq(back)
            BY <2>2 DEF Block
        <3>4. Acts(front \o back, r1 \cup r2, o1 \cup o2, a1 \cup a2, d1 \cup d2)
            BY <2>2, <3>3, JoinActs DEF Acts
        <3> QED
            BY <3>2, <3>4
    <2> QED
        BY <2>1, <2>3 DEF X, Y, r1, r2, o1, o2, a1, a2, d1, d2
<1>20. Block(p, {JDPlace(c)}, s, apart)
    BY <1>19, LiftBlock DEF q
<1> HIDE DEF s
<1>21. Acts(s, refs \cup {WorkloadPod(w)}, offers1 \cup offers3, awaits2 \cup awaits,
            {<<pg, NamespacePath(pg, c.ns)>>, <<wait, pg>>} \cup last)
    BY <1>19 DEF Acts
<1> DEFINE R == refs \cup {WorkloadPod(w)}
           O == offers1 \cup offers3
           A == awaits2 \cup awaits
           D == {<<pg, NamespacePath(pg, c.ns)>>, <<wait, pg>>} \cup last
<1>22. \A need \in R : \E o \in O : Meets(o[2], need)
    <2>1. <<pg, <<"database", c.ns, db, users>>>> \in O /\ <<wq, WorkloadPod(w)>> \in O
        BY DEF offers1, offers3, WorkloadGives, WorkloadPod
    <2>2. \A x : Meets(x, x)
        BY DEF Meets
    <2> QED
        BY <2>1, <2>2 DEF refs
<1>23. \A a \in A : ElsewhereAwait(a) \/
           \E o \in O : Meets(o[2], a[2]) /\ <<a[1][1], o[1]>> \in D
    <2>1. ASSUME NEW a \in awaits2
          PROVE  \E o \in O : Meets(o[2], a[2]) /\ <<a[1][1], o[1]>> \in D
        <3>1. a[1][1] = wait /\ a[2] = Pod(c.ns, labels)
            BY <2>1 DEF awaits2
        <3>2. <<pg, Pod(c.ns, labels)>> \in O
            BY DEF offers1
        <3>3. \A x : Meets(x, x)
            BY DEF Meets
        <3> QED
            BY <3>1, <3>2, <3>3
    <2>2. ASSUME NEW a \in awaits, ~ElsewhereAwait(a)
          PROVE  \E o \in O : Meets(o[2], a[2]) /\ <<a[1][1], o[1]>> \in D
        <3>1. /\ c.rollout
              /\ a = <<<<rollout, <<"ClientSideApply", w.ns, RolloutCommand(w)>>>>,
                       <<w.kind, CurrentNamespace, "", {<<"instance", w.name>>}>>>>
            <4>1. c.rollout /\ a \in awaits5
                BY <2>2 DEF awaits
            <4> DEFINE x == <<rollout, <<"ClientSideApply", w.ns, RolloutCommand(w)>>>>
                       y == <<w.kind, CurrentNamespace, "", {<<"instance", w.name>>}>>
            <4>2. a \in {x} \X {y}
                BY <4>1 DEF awaits5
            <4> HIDE DEF x, y
            <4>3. a = <<x, y>>
                BY <4>2
            <4> QED
                BY <4>1, <4>3 DEF x, y
        <3>2. CurrentNamespace = w.ns
            BY <2>2, <3>1 DEF ElsewhereAwait, RolloutCommand
        <3>3. <<wq, a[2]>> \in O
            BY <3>1, <3>2 DEF offers3, WorkloadGives
        <3>4. <<a[1][1], wq>> \in D
            BY <3>1 DEF last
        <3>5. \A x : Meets(x, x)
            BY DEF Meets
        <3> QED
            BY <3>3, <3>4, <3>5
    <2> QED
        BY <2>1, <2>2
<1>24. \A e \in D : Later(e[1], e[2])
    BY <1>5, <1>7 DEF last
<1> HIDE DEF R, O, A, D
<1>25. Sound(s, {})
    BY <1>21, <1>22, <1>23, <1>24, SoundActs DEF R, O, A, D
<1> QED
    BY <1>1, <1>20, <1>25 DEF s

----------------------------------------------------------------------------
(* Anvil.                                                                  *)
AnvilPlace(c) == ResourceID("sdk.composite.blockchain.anvil.v1", Exported(c))

LEMMA AnvilSound ==
    ASSUME NEW p, NEW c, NEW apart \in BOOLEAN, IsSeq(p)
    PROVE  /\ Block(p, {AnvilPlace(c)}, blockchain(p, c), apart)
           /\ Sound(blockchain(p, c), {})
<1> DEFINE q == Append(p, AnvilPlace(c))
           w == [kind |-> IF c.persistence THEN "statefulset" ELSE "deployment",
                 ns |-> c.ns, app |-> "anvil", name |-> "anvil-" \o c.chain,
                 ports |-> {8545}]
           wq == WorkloadPath(q, w)
           svc == ResourceID("sdk.ServiceV1", <<w.ns, w.name, w.ports>>)
           ingress == ResourceID("sdk.IngressV1", <<w.ns, w.name \o "-ingress", w.ports>>)
           endpoint == Endpoint(w.ns, w.name, w.ports)
           s0 == NewChart(q)
           s1 == IF c.persistence THEN StatefulSet(q, w) ELSE Deployment(q, w, {})
           s2 == IF c.ingress THEN ExposeViaIngress(q, w) ELSE ExposeViaService(q, w)
           s == s0 \o s1 \o s2
<1>1. blockchain(p, c) = s
    BY DEF blockchain, AnvilPlace
<1>2. IsSeq(q)
    BY AppendFacts
<1> HIDE DEF q, w
<1>3. svc # Self /\ svc # <<"Resource">> /\ ingress # Self /\ ingress # <<"Resource">>
    BY DEF ResourceID, Self
<1>4. WorkloadId(w) # Self
    BY DEF WorkloadId, ResourceID, Self
<1>5. Block(q, {Self}, s0, apart) /\ Acts(s0, {}, {}, {}, {})
    BY <1>2, NewChartBlock
<1>6. /\ Block(wq, {Self, <<"Resource">>}, s1, apart)
      /\ Acts(s1, {}, {wq} \X WorkloadGives(w), {}, {})
    <2>1. CASE c.persistence
        BY <1>2, <2>1, StatefulSetActs
    <2>2. CASE ~c.persistence
        BY <1>2, <2>2, DeploymentActs
    <2> QED
        BY <2>1, <2>2
<1>7. /\ Block(wq, {svc, ingress}, s2, apart)
      /\ Acts(s2, {WorkloadPod(w), endpoint}, {Append(wq, svc)} \X {endpoint}, {}, {})
    <2>1. CASE c.ingress
        BY <1>2, <2>1, ExposeViaIngressActs
    <2>2. CASE ~c.ingress
        <3>1. /\ Block(wq, {svc}, s2, apart)
              /\ Acts(s2, {WorkloadPod(w)}, {Append(wq, svc)} \X {endpoint}, {}, {})
            BY <1>2, <2>2, ExposeViaServiceActs
        <3>2. {svc} \subseteq {svc, ingress}
            OBVIOUS
        <3> HIDE DEF svc, ingress, s2, wq, endpoint
        <3>3. Block(wq, {svc, ingress}, s2, apart)
            BY <3>1, <3>2, WidenBlock
        <3> QED
            BY <3>1, <3>3 DEF Acts
    <2> QED
        BY <2>1, <2>2
<1>8. wq = Append(q, WorkloadId(w))
    BY <1>2, WorkloadPathFacts
<1> HIDE DEF wq, svc, ingress, endpoint, s0, s1, s2
<1>9. Block(wq, {Self, <<"Resource">>} \cup {svc, ingress}, s1 \o s2, apart)
    BY <1>3, <1>6, <1>7, JoinBlocks
<1>10. Block(q, {WorkloadId(w)}, s1 \o s2, apart)
    BY <1>2, <1>8, <1>9, LiftBlock
<1>11. IsSeq(s0) /\ IsSeq(s1) /\ IsSeq(s2)
    BY <1>5, <1>6, <1>7 DEF Block
<1>12. s = s0 \o (s1 \o s2)
    BY <1>11, ConcatAssociative
<1>13. Block(q, {Self} \cup {WorkloadId(w)}, s, apart)
    BY <1>4, <1>5, <1>10, <1>12, JoinBlocks
<1>14. Block(p, {AnvilPlace(c)}, s, apart)
    BY <1>13, LiftBlock DEF q
<1>15. Acts(s, {WorkloadPod(w), endpoint},
            ({wq} \X WorkloadGives(w)) \cup ({Append(wq, svc)} \X {endpoint}), {}, {})
    BY <1>5, <1>6, <1>7, <1>11, JoinActs DEF Acts
<1> DEFINE O == ({wq} \X WorkloadGives(w)) \cup ({Append(wq, svc)} \X {endpoint})
<1>16. \A need \in {WorkloadPod(w), endpoint} : \E o \in O : Meets(o[2], need)
    <2>1. <<wq, WorkloadPod(w)>> \in O /\ <<Append(wq, svc), endpoint>> \in O
        BY DEF WorkloadGives, WorkloadPod
    <2>2. \A x : Meets(x, x)
        BY DEF Meets
    <2> QED
        BY <2>1, <2>2
<1> HIDE DEF O, s
<1>17. Sound(s, {})
    BY <1>15, <1>16, SoundActs DEF O
<1> QED
    BY <1>1, <1>14, <1>17 DEF s

----------------------------------------------------------------------------
(* The fake: a Service for each of its ports.                              *)
FakePlace(c) == ResourceID("sdk.composite.fake.v1", Exported(c))

LEMMA FakeSound ==
    ASSUME NEW p, NEW c, NEW apart \in BOOLEAN, IsSeq(p), c.type = "fake", IsSeq(c.ports),
           apart => ~HasTwins(c)
    PROVE  /\ Block(p, {FakePlace(c)}, fake(p, c), apart)
           /\ Sound(fake(p, c), {})
<1> DEFINE q == Append(p, FakePlace(c))
           n == Len(c.ports)
           numbers == {c.ports[i][2] : i \in DOMAIN c.ports}
           labels == Labels("fake", c.app)
           pod == Pod(c.ns, labels \cup Ports(numbers))
           what == <<"Deployment", c.ns, c.app>>
           name(i) == c.app \o "-" \o c.ports[i][1]
           id1 == <<"fake-deployment">>
           id(i) == ResourceID("sdk.ServiceV1", <<c.ns, name(i), c.ports[i]>>)
           part(i) == Service(q, c.ns, name(i), labels, {c.ports[i][2]}, c.ports[i])
           parts == [i \in 1..n |-> part(i)]
           ids == [i \in 1..n |-> {id(i)}]
           s0 == NewChart(q)
           s1 == Make(Append(q, id1), q, what, {pod}, {}, {})
           s2 == FlattenSeq(parts)
           s == s0 \o s1 \o s2
<1>1. n \in Nat /\ DOMAIN c.ports = 1..n
    BY SeqFacts
<1>2. fake(p, c) = s
    BY <1>1 DEF fake, FakePlace
<1>3. IsSeq(q)
    BY AppendFacts
<1> HIDE DEF q, labels, name
<1>4. /\ \A i \in 1..n : parts[i] = part(i) /\ ids[i] = {id(i)}
      /\ IsSeq(parts) /\ Len(parts) = n
    <2> HIDE DEF n, part, id
    <2> QED
        BY <1>1, LoopSeq
<1>5. \A i \in 1..n : /\ Block(q, ids[i], parts[i], apart) /\ IsSeq(parts[i])
                      /\ Refers(parts[i]) \subseteq {Pod(c.ns, labels \cup Ports({c.ports[i][2]}))}
                      /\ Awaits(parts[i]) = {} /\ Depends(parts[i]) = {}
    <2> SUFFICES ASSUME NEW i \in 1..n
                 PROVE  /\ Block(q, ids[i], parts[i], apart)
                        /\ Refers(parts[i]) \subseteq {Pod(c.ns, labels \cup Ports({c.ports[i][2]}))}
                        /\ Awaits(parts[i]) = {} /\ Depends(parts[i]) = {}
        BY DEF Block
    <2>1. parts[i] = part(i) /\ ids[i] = {id(i)}
        BY <1>4
    <2> DEFINE pair == c.ports[i]
               ports == {c.ports[i][2]}
    <2> HIDE DEF pair, ports, parts, ids
    <2>2. /\ Block(q, {ResourceID("sdk.ServiceV1", <<c.ns, name(i), pair>>)},
                   Service(q, c.ns, name(i), labels, ports, pair), apart)
          /\ Acts(Service(q, c.ns, name(i), labels, ports, pair),
                  {Pod(c.ns, labels \cup Ports(ports))},
                  {Append(q, ResourceID("sdk.ServiceV1", <<c.ns, name(i), pair>>))}
                      \X {Endpoint(c.ns, name(i), ports)}, {}, {})
        BY <1>3, ServiceActs
    <2> QED
        BY <2>1, <2>2 DEF pair, ports, Acts
<1>6. apart => \A i, j \in 1..n : i # j => ids[i] \cap ids[j] = {}
    <2> SUFFICES ASSUME apart, NEW i \in 1..n, NEW j \in 1..n, i # j PROVE id(i) # id(j)
        BY <1>4
    <2>1. c.ports[i] # c.ports[j]
        BY <1>1 DEF HasTwins
    <2> QED
        BY <2>1 DEF ResourceID
<1>7. \A i \in 1..n : Self \notin ids[i] /\ id1 \notin ids[i]
    BY <1>4 DEF Self, ResourceID
<1> HIDE DEF id, part, parts, ids
<1> DEFINE X == UNION {ids[i] : i \in 1..n}
<1>8. Block(q, X, s2, apart)
    <2>1. /\ \A i \in 1..Len(parts) : Block(q, ids[i], parts[i], apart)
          /\ apart => \A i, j \in 1..Len(parts) : i # j => ids[i] \cap ids[j] = {}
        BY <1>4, <1>5, <1>6
    <2> HIDE DEF n
    <2>2. Block(q, UNION {ids[i] : i \in 1..Len(parts)}, s2, apart)
        BY <1>4, <2>1, FlattenBlock
    <2> QED
        BY <1>4, <2>2
<1>9. /\ IsSeq(s2)
      /\ Refers(s2) = UNION {Refers(parts[i]) : i \in 1..n}
      /\ Awaits(s2) = UNION {Awaits(parts[i]) : i \in 1..n}
      /\ Depends(s2) = UNION {Depends(parts[i]) : i \in 1..n}
    BY <1>4, <1>5, FlattenActs
<1>10. Block(q, {Self}, s0, apart) /\ Acts(s0, {}, {}, {}, {})
    BY <1>3, NewChartBlock
<1>11. Block(q, {id1}, s1, apart) /\ Acts(s1, {}, {q} \X {pod}, {}, {})
    <2> HIDE DEF id1, what, pod
    <2>1. /\ Block(q, {id1}, s1, apart)
          /\ Acts(s1, {}, {q} \X {pod}, {<<q, what>>} \X {}, {})
        BY <1>3, MakeBlock
    <2> QED
        BY <2>1 DEF Acts
<1>12. Self # id1 /\ Self \notin X /\ id1 \notin X
    BY <1>7 DEF Self
<1>13. \A i \in 1..n : Meets(pod, Pod(c.ns, labels \cup Ports({c.ports[i][2]})))
    BY <1>1 DEF Meets, Pod, Ports
<1> HIDE DEF n, pod, what, id1, X, s0, s1, s2
<1>14. Block(q, {Self} \cup {id1}, s0 \o s1, apart)
    BY <1>10, <1>11, <1>12, JoinBlocks
<1>15. Block(q, ({Self} \cup {id1}) \cup X, s, apart)
    BY <1>8, <1>12, <1>14, JoinBlocks
<1>16. Block(p, {FakePlace(c)}, s, apart)
    BY <1>15, LiftBlock DEF q
<1>17. IsSeq(s0) /\ IsSeq(s1)
    BY <1>10, <1>11 DEF Block
<1> DEFINE wanted(i) == Pod(c.ns, labels \cup Ports({c.ports[i][2]}))
           R == {wanted(i) : i \in 1..n}
<1>18. Refers(s2) \subseteq R /\ Awaits(s2) = {} /\ Depends(s2) = {}
    <2>1. \A i \in 1..n : /\ Refers(parts[i]) \subseteq {wanted(i)}
                          /\ Awaits(parts[i]) = {} /\ Depends(parts[i]) = {}
        BY <1>5
    <2> HIDE DEF wanted
    <2>2. ASSUME NEW need \in Refers(s2) PROVE need \in R
        <3>1. PICK i \in 1..n : need \in Refers(parts[i])
            BY <1>9
        <3> QED
            BY <2>1, <3>1
    <2>3. Awaits(s2) = {} /\ Depends(s2) = {}
        <3>1. /\ \A a \in Awaits(s2) : \E i \in 1..n : a \in Awaits(parts[i])
              /\ \A e \in Depends(s2) : \E i \in 1..n : e \in Depends(parts[i])
            BY <1>9
        <3> QED
            BY <2>1, <3>1
    <2> HIDE DEF R
    <2> QED
        BY <2>2, <2>3
<1>19. \A need \in R : \E o \in {q} \X {pod} : Meets(o[2], need)
    <2>1. <<q, pod>> \in {q} \X {pod}
        OBVIOUS
    <2> QED
        BY <2>1, <1>13
<1> HIDE DEF R
<1>20. Acts(s, R, {q} \X {pod}, {}, {})
    BY <1>9, <1>10, <1>11, <1>17, <1>18, JoinActs DEF Acts
<1> HIDE DEF s
<1>21. Sound(s, {})
    BY <1>19, <1>20, SoundActs
<1> QED
    BY <1>2, <1>16, <1>21 DEF s

----------------------------------------------------------------------------
(* Telepresence.                                                           *)
TelepresencePlace(c) == ResourceID("sdk.composite.telepresence.v1", Exported(c))

LEMMA TelepresenceSound ==
    ASSUME NEW p, NEW c, NEW apart \in BOOLEAN, IsSeq(p), Len(p) >= 1
    PROVE  /\ Block(p, {TelepresencePlace(c)}, telepresenceComposite(p, c), apart)
           /\ Sound(telepresenceComposite(p, c), {})
<1> DEFINE q == Append(p, TelepresencePlace(c))
           tm == "traffic-manager"
           labels == {<<"app", "traffic-manager">>, <<"telepresence", "manager">>}
           role == <<"role", c.ns, tm, {}>>
           account == <<"account", c.ns, tm, {}>>
           ready == <<"ready", c.ns, "", labels>>
           pod == Pod(c.ns, labels)
           manager == ChartPath(q, "telepresence", c.ns, tm, "")
           word == WaitCommand(labels)
           wait == CommandPath(q, c.ns, word)
           quit == CommandPath(q, c.ns, <<"quit">>)
           connect == CommandPath(q, "default", <<"connect", c.ns>>)
           id1 == ResourceID("sdk.scalar.RoleV1", <<c.ns, tm, "">>)
           id2 == ResourceID("sdk.scalar.RoleBindingV1", <<c.ns, tm, "">>)
           id3 == ResourceID("sdk.scalar.ServiceAccountV1", <<c.ns, tm, "">>)
           id4 == ResourceID("sdk.HelmChart#telepresence", <<c.ns, tm, "">>)
           id5 == ResourceID("sdk.ClientSideApply", <<c.ns, word>>)
           id6 == ResourceID("sdk.ClientSideApply", <<c.ns, <<"quit">>>>)
           id7 == ResourceID("sdk.ClientSideApply", <<"default", <<"connect", c.ns>>>>)
           s0 == NewChart(q)
           s1 == Role(q, c.ns, tm)
           s2 == RoleBinding(q, c.ns, tm, tm, tm)
           s3 == ServiceAccount(q, c.ns, tm)
           s4 == ChartScalar(q, "telepresence", c.ns, tm, "", {pod}, {account})
           s5 == Wait(q, c.ns, labels, manager)
           s6 == IF c.quit
                 THEN ClientSideApply(q, c.ns, <<"quit">>, {}, {}) \o AddDependency(manager, quit)
                 ELSE <<>>
           s7 == ClientSideApply(q, "default", <<"connect", c.ns>>, {}, {ready})
           s8 == AddDependency(connect, wait)
           s == s0 \o (s1 \o s2 \o s3) \o s4 \o s5 \o s6 \o s7 \o s8
           what5 == <<"ClientSideApply", c.ns, word>>
           what7 == <<"ClientSideApply", "default", <<"connect", c.ns>>>>
<1>1. telepresenceComposite(p, c) = s
    BY DEF telepresenceComposite, CreateNamespaceLocalRBACs, TelepresencePlace
<1>2. IsSeq(q) /\ q[Len(q)] = TelepresencePlace(c) /\ Len(q) >= 1
    BY AppendFacts, SeqFacts
<1>3. /\ Self \notin {id1, id2, id3, id4, id5, id6, id7}
      /\ id1 \notin {id2, id3, id4, id5, id6, id7} /\ id2 \notin {id3, id4, id5, id6, id7}
      /\ id3 \notin {id4, id5, id6, id7} /\ id4 \notin {id5, id6, id7}
      /\ id5 # id6 /\ id5 # id7 /\ id6 # id7
    BY DEF ResourceID, Self, WaitCommand
<1>4. /\ Begins(manager, q, id4) /\ Later(manager, NamespacePath(manager, c.ns))
      /\ Begins(wait, q, id5) /\ Begins(quit, q, id6) /\ Begins(connect, q, id7)
    <2>1. resourcePrefix["telepresence"] = "sdk.HelmChart#telepresence"
        BY DEF resourcePrefix
    <2> HIDE DEF q, tm, word
    <2>2. /\ Begins(manager, q, id4) /\ Later(manager, NamespacePath(manager, c.ns))
        BY <1>2, <2>1, ChartPathFacts
    <2> QED
        BY <1>2, <2>2, CommandPathFacts
<1>5. /\ Rank(q[Len(q)], id4) = 1 /\ Rank(q[Len(q)], id5) = 4
      /\ Rank(q[Len(q)], id6) = 0 /\ Rank(q[Len(q)], id7) = 5
    <2>1. TelepresencePlace(c)[1] # "sdk.Blockchains"
        BY DEF TelepresencePlace, ResourceID
    <2>2. <<"name", "postgresql">> \notin labels
        OBVIOUS
    <2>3. CommandRank(word) = 4
        BY <2>2, WaitRanks
    <2>4. CommandRank(<<"quit">>) = 0 /\ CommandRank(<<"connect", c.ns>>) = 5
        BY DEF CommandRank
    <2>5. id4[1] = "sdk.HelmChart#telepresence"
        BY DEF ResourceID
    <2> HIDE DEF q, word, id4
    <2> QED
        BY <1>2, <2>1, <2>3, <2>4, <2>5, Ranks
<1>6. Later(manager, quit) /\ Later(wait, manager) /\ Later(connect, wait)
    <2> HIDE DEF q, manager, quit, wait, connect, id4, id5, id6, id7
    <2> QED
        BY <1>2, <1>4, <1>5, SiblingFirst
<1> HIDE DEF q
<1>7. Block(q, {Self}, s0, apart) /\ Acts(s0, {}, {}, {}, {})
    BY <1>2, NewChartBlock
<1>8. Block(q, {id1}, s1, apart) /\ Acts(s1, {}, {Append(q, id1)} \X {role}, {}, {})
    <2> HIDE DEF tm
    <2> QED
        BY <1>2, RoleActs
<1>9. Block(q, {id2}, s2, apart) /\ Acts(s2, {role, account}, {}, {}, {})
    <2> HIDE DEF tm
    <2> QED
        BY <1>2, RoleBindingActs
<1>10. Block(q, {id3}, s3, apart) /\ Acts(s3, {}, {Append(q, id3)} \X {account}, {}, {})
    <2> HIDE DEF tm
    <2> QED
        BY <1>2, ServiceAccountActs
<1>11. /\ Block(q, {id4}, s4, apart)
       /\ Acts(s4, {account}, {manager} \X {pod}, {}, {<<manager, NamespacePath(manager, c.ns)>>})
    <2>1. "telepresence" \in HelmCharts
              /\ resourcePrefix["telepresence"] = "sdk.HelmChart#telepresence"
        BY DEF HelmCharts, resourcePrefix
    <2> DEFINE gives == {pod}
               refs == {account}
    <2> HIDE DEF tm, gives, refs
    <2>2. /\ Block(q, {ResourceID(resourcePrefix["telepresence"], <<c.ns, tm, "">>)},
                   ChartScalar(q, "telepresence", c.ns, tm, "", gives, refs), apart)
          /\ Acts(ChartScalar(q, "telepresence", c.ns, tm, "", gives, refs), refs,
                  {manager} \X gives, {}, {<<manager, NamespacePath(manager, c.ns)>>})
        BY <1>2, <2>1, ChartActs
    <2> QED
        BY <2>1, <2>2 DEF gives, refs
<1>12. /\ Block(q, {id5}, s5, apart)
       /\ Acts(s5, {}, {wait} \X {ready}, {<<wait, what5>>} \X {pod}, {<<wait, manager>>})
    <2> HIDE DEF labels, manager
    <2> QED
        BY <1>2, WaitActs
<1>13. /\ Block(q, {id6}, s6, apart)
       /\ Acts(s6, {}, {}, {}, IF c.quit THEN {<<manager, quit>>} ELSE {})
    <2>1. CASE c.quit
        <3> DEFINE a == ClientSideApply(q, c.ns, <<"quit">>, {}, {})
                   b == AddDependency(manager, quit)
                   k == <<"quit">>
        <3> HIDE DEF k, manager
        <3>1. /\ Block(q, {id6}, a, apart)
              /\ Acts(a, {}, {quit} \X {}, {<<quit, <<"ClientSideApply", c.ns, k>>>>} \X {}, {})
            BY <1>2, CommandActs DEF k
        <3> HIDE DEF quit
        <3>2. Block(q, {}, b, apart) /\ Acts(b, {}, {}, {}, {<<manager, quit>>})
            BY DependBlock
        <3> HIDE DEF a, b, id6
        <3>3. Block(q, {id6} \cup {}, a \o b, apart)
            BY <3>1, <3>2, JoinBlocks
        <3>4. Acts(a \o b, {}, {}, {}, {<<manager, quit>>})
            BY <3>1, <3>2, JoinActs DEF Acts, Block
        <3> QED
            BY <2>1, <3>3, <3>4 DEF a, b, quit
    <2>2. CASE ~c.quit
        <3> HIDE DEF id6
        <3> QED
            BY <2>2, NoneBlock
    <2> QED
        BY <2>1, <2>2
<1>14. Block(q, {id7}, s7, apart) /\ Acts(s7, {}, {}, {<<connect, what7>>} \X {ready}, {})
    <2> DEFINE k == <<"connect", c.ns>>
               awaits == {ready}
    <2> HIDE DEF k, awaits
    <2>1. /\ Block(q, {ResourceID("sdk.ClientSideApply", <<"default", k>>)},
                   ClientSideApply(q, "default", k, {}, awaits), apart)
          /\ Acts(ClientSideApply(q, "default", k, {}, awaits), {},
                  {CommandPath(q, "default", k)} \X {},
                  {<<CommandPath(q, "default", k), <<"ClientSideApply", "default", k>>>>}
                      \X awaits, {})
        BY <1>2, CommandActs
    <2>2. Acts(ClientSideApply(q, "default", k, {}, awaits), {}, {},
               {<<CommandPath(q, "default", k), <<"ClientSideApply", "default", k>>>>}
                   \X awaits, {})
        BY <2>1 DEF Acts
    <2> QED
        BY <2>1, <2>2 DEF k, awaits
<1>15. Block(q, {}, s8, apart) /\ Acts(s8, {}, {}, {}, {<<connect, wait>>})
    <2> HIDE DEF connect, wait
    <2> QED
        BY DependBlock
<1> HIDE DEF tm, labels, role, account, ready, pod, manager, word, wait, quit, connect, id1, id2,
             id3, id4, id5, id6, id7, s0, s1, s2, s3, s4, s5, s6, s7, s8, what5, what7
<1>16. Block(q, {id1} \cup {id2}, s1 \o s2, apart)
    BY <1>3, <1>8, <1>9, JoinBlocks
<1>17. Block(q, ({id1} \cup {id2}) \cup {id3}, s1 \o s2 \o s3, apart)
    BY <1>3, <1>10, <1>16, JoinBlocks
<1>18. Block(q, {Self, id1, id2, id3}, s0 \o (s1 \o s2 \o s3), apart)
    <2>1. Block(q, {Self} \cup (({id1} \cup {id2}) \cup {id3}), s0 \o (s1 \o s2 \o s3), apart)
        BY <1>3, <1>7, <1>17, JoinBlocks
    <2> QED
        BY <2>1, WidenBlock
<1>19. Block(q, {Self, id1, id2, id3} \cup {id4}, s0 \o (s1 \o s2 \o s3) \o s4, apart)
    BY <1>3, <1>11, <1>18, JoinBlocks
<1>20. Block(q, {Self, id1, id2, id3, id4, id5}, s0 \o (s1 \o s2 \o s3) \o s4 \o s5, apart)
    <2>1. Block(q, ({Self, id1, id2, id3} \cup {id4}) \cup {id5},
                s0 \o (s1 \o s2 \o s3) \o s4 \o s5, apart)
        BY <1>3, <1>12, <1>19, JoinBlocks
    <2> QED
        BY <2>1, WidenBlock
<1>21. Block(q, {Self, id1, id2, id3, id4, id5} \cup {id6},
             s0 \o (s1 \o s2 \o s3) \o s4 \o s5 \o s6, apart)
    BY <1>3, <1>13, <1>20, JoinBlocks
<1>22. Block(q, ({Self, id1, id2, id3, id4, id5} \cup {id6}) \cup {id7},
             s0 \o (s1 \o s2 \o s3) \o s4 \o s5 \o s6 \o s7, apart)
    BY <1>3, <1>14, <1>21, JoinBlocks
<1>23. Block(q, (({Self, id1, id2, id3, id4, id5} \cup {id6}) \cup {id7}) \cup {}, s, apart)
    BY <1>15, <1>22, JoinBlocks
<1>24. Block(p, {TelepresencePlace(c)}, s, apart)
    BY <1>23, LiftBlock DEF q
<1> DEFINE R == {role, account}
           O == {<<Append(q, id1), role>>, <<Append(q, id3), account>>,
                 <<manager, pod>>, <<wait, ready>>}
           A == {<<<<wait, what5>>, pod>>, <<<<connect, what7>>, ready>>}
           D == {<<manager, NamespacePath(manager, c.ns)>>, <<wait, manager>>,
                 <<connect, wait>>} \cup (IF c.quit THEN {<<manager, quit>>} ELSE {})
<1>25. Acts(s, R, O, A, D)
    <2>1. /\ IsSeq(s0) /\ IsSeq(s1) /\ IsSeq(s2) /\ IsSeq(s3) /\ IsSeq(s4)
          /\ IsSeq(s5) /\ IsSeq(s6) /\ IsSeq(s7) /\ IsSeq(s8)
        BY <1>7, <1>8, <1>9, <1>10, <1>11, <1>12, <1>13, <1>14, <1>15 DEF Block
    <2>2. /\ Refers(s) = Refers(s0) \cup (Refers(s1) \cup Refers(s2) \cup Refers(s3))
                \cup Refers(s4) \cup Refers(s5) \cup Refers(s6) \cup Refers(s7) \cup Refers(s8)
          /\ Offers(s) = Offers(s0) \cup (Offers(s1) \cup Offers(s2) \cup Offers(s3))
                \cup Offers(s4) \cup Offers(s5) \cup Offers(s6) \cup Offers(s7) \cup Offers(s8)
          /\ Awaits(s) = Awaits(s0) \cup (Awaits(s1) \cup Awaits(s2) \cup Awaits(s3))
                \cup Awaits(s4) \cup Awaits(s5) \cup Awaits(s6) \cup Awaits(s7) \cup Awaits(s8)
          /\ Depends(s) = Depends(s0) \cup (Depends(s1) \cup Depends(s2) \cup Depends(s3))
                \cup Depends(s4) \cup Depends(s5) \cup Depends(s6) \cup Depends(s7) \cup Depends(s8)
        BY <2>1, JoinActs
    <2> HIDE DEF s
    <2>3. Refers(s) \subseteq R
        BY <2>2, <1>7, <1>8, <1>9, <1>10, <1>11, <1>12, <1>13, <1>14, <1>15 DEF Acts
    <2>4. O \subseteq Offers(s)
        BY <2>2, <1>8, <1>10, <1>11, <1>12 DEF Acts
    <2>5. Awaits(s) \subseteq A
        <3>1. /\ Awaits(s5) \subseteq {<<<<wait, what5>>, pod>>}
              /\ Awaits(s7) \subseteq {<<<<connect, what7>>, ready>>}
            BY <1>12, <1>14 DEF Acts
        <3> QED
            BY <2>2, <3>1, <1>7, <1>8, <1>9, <1>10, <1>11, <1>13, <1>15 DEF Acts
    <2>6. Depends(s) = D
        BY <2>2, <1>7, <1>8, <1>9, <1>10, <1>11, <1>12, <1>13, <1>14, <1>15 DEF Acts
    <2> QED
        BY <2>3, <2>4, <2>5, <2>6 DEF Acts
<1>26. \A x : Meets(x, x)
    BY DEF Meets
<1>27. \A need \in R : \E o \in O : Meets(o[2], need)
    BY <1>26
<1>28. \A a \in A : \E o \in O : Meets(o[2], a[2]) /\ <<a[1][1], o[1]>> \in D
    BY <1>26
<1>29. \A e \in D : Later(e[1], e[2])
    BY <1>4, <1>6
<1> HIDE DEF s, R, O, A, D
<1>30. Sound(s, {})
    BY <1>25, <1>27, <1>28, <1>29, SoundActs
<1> QED
    BY <1>1, <1>24, <1>30 DEF s

----------------------------------------------------------------------------
(* The nginx controller.                                                   *)
NginxPlace == ResourceID("sdk.NginxController", "")

LEMMA NginxSound ==
    ASSUME NEW p, NEW apart \in BOOLEAN, IsSeq(p), Len(p) >= 1
    PROVE  /\ Block(p, {NginxPlace}, nginxController(p), apart)
           /\ Sound(nginxController(p), {})
<1> DEFINE q == Append(p, NginxPlace)
           ns == "ingress-nginx"
           labels == Labels("ingress-nginx", "ingress-nginx") \cup {<<"component", "controller">>}
           pod == Pod(ns, labels)
           remote == RemotePath(q, "manifestURI")
           space == NamespacePath(q, ns)
           word == WaitCommand(labels)
           wait == CommandPath(q, ns, word)
           id1 == ResourceID("sdk.RemoteApply", "manifestURI")
           id2 == ResourceID("sdk.Namespace", <<"", ns, "">>)
           id3 == ResourceID("sdk.ClientSideApply", <<ns, word>>)
           what == <<"ClientSideApply", ns, word>>
           s0 == NewChart(q)
           s1 == RemoteApply(q, "manifestURI", {pod})
           s2 == Namespace(q, ns)
           s3 == AddDependency(remote, space)
           s4 == Wait(q, ns, labels, remote)
           s == s0 \o s1 \o s2 \o s3 \o s4
<1>1. nginxController(p) = s
    BY DEF nginxController, NginxPlace
<1>2. IsSeq(q) /\ q[Len(q)] = NginxPlace /\ Len(q) >= 1
    BY AppendFacts, SeqFacts
<1>3. Self \notin {id1, id2, id3} /\ id1 \notin {id2, id3} /\ id2 # id3
    BY DEF ResourceID, Self
<1>4. Begins(remote, q, id1) /\ Begins(space, q, id2) /\ Begins(wait, q, id3)
    <2> HIDE DEF q, ns, word
    <2> QED
        BY <1>2, BeginsAppend, CommandPathFacts DEF RemotePath, NamespacePath, ScalarPath
<1>5. /\ Rank(q[Len(q)], id1) = 1 /\ Rank(q[Len(q)], id2) = 0
      /\ Rank(q[Len(q)], id3) = 4
    <2>1. NginxPlace[1] # "sdk.Blockchains" /\ id1[1] = "sdk.RemoteApply"
        BY DEF NginxPlace, ResourceID
    <2>2. <<"name", "postgresql">> \notin labels
        BY DEF Labels
    <2>3. CommandRank(word) = 4
        BY <2>2, WaitRanks
    <2> HIDE DEF q, word, id1, ns
    <2> QED
        BY <1>2, <2>1, <2>3, Ranks, ZenonT(60)
<1>6. Later(remote, space) /\ Later(wait, remote)
    <2> HIDE DEF q, remote, space, wait, id1, id2, id3
    <2> QED
        BY <1>2, <1>4, <1>5, SiblingFirst
<1> HIDE DEF q
<1>7. Block(q, {Self}, s0, apart) /\ Acts(s0, {}, {}, {}, {})
    BY <1>2, NewChartBlock
<1>8. Block(q, {id1}, s1, apart) /\ Acts(s1, {}, {remote} \X {pod}, {}, {})
    <2> DEFINE gives == {pod}
    <2> HIDE DEF gives
    <2>1. /\ Block(q, {id1}, RemoteApply(q, "manifestURI", gives), apart)
          /\ Acts(RemoteApply(q, "manifestURI", gives), {}, {remote} \X gives, {}, {})
        BY <1>2, RemoteActs
    <2> QED
        BY <2>1 DEF gives
<1>9. Block(q, {id2}, s2, apart) /\ Acts(s2, {}, {}, {}, {})
    BY <1>2, NamespaceActs
<1>10. Block(q, {}, s3, apart) /\ Acts(s3, {}, {}, {}, {<<remote, space>>})
    <2> HIDE DEF remote, space
    <2> QED
        BY DependBlock
<1>11. /\ Block(q, {id3}, s4, apart)
       /\ Acts(s4, {}, {}, {<<wait, what>>} \X {pod}, {<<wait, remote>>})
    <2> HIDE DEF ns, labels, remote
    <2>1. /\ Block(q, {id3}, s4, apart)
          /\ Acts(s4, {}, {wait} \X {<<"ready", ns, "", labels>>},
                  {<<wait, what>>} \X {pod}, {<<wait, remote>>})
        BY <1>2, WaitActs
    <2> QED
        BY <2>1 DEF Acts
<1> HIDE DEF ns, labels, pod, remote, space, word, wait, id1, id2, id3, what, s0, s1, s2, s3, s4
<1>12. Block(q, {Self} \cup {id1}, s0 \o s1, apart)
    BY <1>3, <1>7, <1>8, JoinBlocks
<1>13. Block(q, ({Self} \cup {id1}) \cup {id2}, s0 \o s1 \o s2, apart)
    BY <1>3, <1>9, <1>12, JoinBlocks
<1>14. Block(q, (({Self} \cup {id1}) \cup {id2}) \cup {}, s0 \o s1 \o s2 \o s3, apart)
    BY <1>10, <1>13, JoinBlocks
<1>15. Block(q, ((({Self} \cup {id1}) \cup {id2}) \cup {}) \cup {id3}, s, apart)
    BY <1>3, <1>11, <1>14, JoinBlocks
<1>16. Block(p, {NginxPlace}, s, apart)
    BY <1>15, LiftBlock DEF q
<1> DEFINE O == {<<remote, pod>>}
           A == {<<<<wait, what>>, pod>>}
           D == {<<remote, space>>, <<wait, remote>>}
<1>17. Acts(s, {}, O, A, D)
    <2>1. IsSeq(s0) /\ IsSeq(s1) /\ IsSeq(s2) /\ IsSeq(s3) /\ IsSeq(s4)
        BY <1>7, <1>8, <1>9, <1>10, <1>11 DEF Block
    <2>2. /\ Refers(s) = Refers(s0) \cup Refers(s1) \cup Refers(s2) \cup Refers(s3) \cup Refers(s4)
          /\ Offers(s) = Offers(s0) \cup Offers(s1) \cup Offers(s2) \cup Offers(s3) \cup Offers(s4)
          /\ Awaits(s) = Awaits(s0) \cup Awaits(s1) \cup Awaits(s2) \cup Awaits(s3) \cup Awaits(s4)
          /\ Depends(s) =
                 Depends(s0) \cup Depends(s1) \cup Depends(s2) \cup Depends(s3) \cup Depends(s4)
        BY <2>1, JoinActs
    <2> HIDE DEF s
    <2>3. Refers(s) \subseteq {} /\ Depends(s) = D
        BY <2>2, <1>7, <1>8, <1>9, <1>10, <1>11 DEF Acts
    <2>4. O \subseteq Offers(s)
        BY <2>2, <1>8 DEF Acts
    <2>5. Awaits(s) \subseteq A
        <3>1. Awaits(s4) \subseteq {<<<<wait, what>>, pod>>}
            BY <1>11 DEF Acts
        <3> QED
            BY <2>2, <3>1, <1>7, <1>8, <1>9, <1>10 DEF Acts
    <2> QED
        BY <2>3, <2>4, <2>5 DEF Acts
<1>18. \A x : Meets(x, x)
    BY DEF Meets
<1>19. \A a \in A : \E o \in O : Meets(o[2], a[2]) /\ <<a[1][1], o[1]>> \in D
    BY <1>18
<1>20. \A e \in D : Later(e[1], e[2])
    BY <1>6
<1> HIDE DEF s, O, A, D
<1>21. Sound(s, {})
    BY <1>17, <1>19, <1>20, SoundActs
<1> QED
    BY <1>1, <1>16, <1>21 DEF s

----------------------------------------------------------------------------
(* The components that run commands and have no chart around them.         *)
CommandId(k) == ResourceID("sdk.ClientSideApply", k)

(* A command that awaits what an earlier one gives.                        *)
LEMMA CommandChain ==
    ASSUME NEW p, NEW ns, NEW command, NEW gives, NEW awaits, NEW apart \in BOOLEAN, IsSeq(p)
    PROVE  /\ Block(p, {CommandId(<<ns, command>>)},
                    ClientSideApply(p, ns, command, gives, awaits), apart)
           /\ Acts(ClientSideApply(p, ns, command, gives, awaits), {},
                   {CommandPath(p, ns, command)} \X gives,
                   {<<CommandPath(p, ns, command), <<"ClientSideApply", ns, command>>>>} \X awaits,
                   {})
           /\ Begins(CommandPath(p, ns, command), p, CommandId(<<ns, command>>))
           /\ Len(p) >= 1 /\ p[Len(p)][1] # "sdk.Blockchains" =>
                  Rank(p[Len(p)], CommandId(<<ns, command>>)) = CommandRank(command)
BY CommandActs, CommandPathFacts, Ranks, SMTT(30) DEF CommandId

(* Three commands, each after the one before.                              *)
LEMMA ThreeCommands ==
    ASSUME NEW p, NEW apart \in BOOLEAN, NEW x, NEW y, NEW z, NEW k, NEW l, NEW m,
           NEW ns, NEW X, X = {CommandId(<<ns, x>>), CommandId(<<ns, y>>), CommandId(<<ns, z>>)},
           IsSeq(p), Len(p) >= 1, p[Len(p)][1] # "sdk.Blockchains",
           CommandRank(x) = 0, CommandRank(y) = 1, CommandRank(z) = 2
    PROVE  LET s1 == ClientSideApply(p, ns, x, {k}, {})
               s2 == ClientSideApply(p, ns, y, {l}, {k})
               s3 == ClientSideApply(p, ns, z, {}, {l})
               d1 == AddDependency(CommandPath(p, ns, y), CommandPath(p, ns, x))
               d2 == AddDependency(CommandPath(p, ns, z), CommandPath(p, ns, y))
               s == s1 \o s2 \o s3 \o d1 \o d2
           IN  Block(p, X, s, apart) /\ Sound(s, {})
<1> DEFINE a == CommandPath(p, ns, x)
           b == CommandPath(p, ns, y)
           c == CommandPath(p, ns, z)
           id1 == CommandId(<<ns, x>>)
           id2 == CommandId(<<ns, y>>)
           id3 == CommandId(<<ns, z>>)
           what2 == <<"ClientSideApply", ns, y>>
           what3 == <<"ClientSideApply", ns, z>>
           s1 == ClientSideApply(p, ns, x, {k}, {})
           s2 == ClientSideApply(p, ns, y, {l}, {k})
           s3 == ClientSideApply(p, ns, z, {}, {l})
           d1 == AddDependency(b, a)
           d2 == AddDependency(c, b)
           s == s1 \o s2 \o s3 \o d1 \o d2
<1>1. id1 # id2 /\ id1 # id3 /\ id2 # id3
    BY DEF CommandId, ResourceID
<1>2. /\ Begins(a, p, id1) /\ Begins(b, p, id2) /\ Begins(c, p, id3)
      /\ Rank(p[Len(p)], id1) = 0 /\ Rank(p[Len(p)], id2) = 1 /\ Rank(p[Len(p)], id3) = 2
    <2>1. /\ Begins(a, p, id1) /\ Rank(p[Len(p)], id1) = CommandRank(x)
        BY CommandChain
    <2>2. /\ Begins(b, p, id2) /\ Rank(p[Len(p)], id2) = CommandRank(y)
        BY CommandChain
    <2>3. /\ Begins(c, p, id3) /\ Rank(p[Len(p)], id3) = CommandRank(z)
        BY CommandChain
    <2> QED
        BY <2>1, <2>2, <2>3
<1>3. Block(p, {id1}, s1, apart) /\ Acts(s1, {}, {a} \X {k}, {}, {})
    <2> DEFINE gives == {k}
    <2> HIDE DEF gives
    <2>1. /\ Block(p, {id1}, ClientSideApply(p, ns, x, gives, {}), apart)
          /\ Acts(ClientSideApply(p, ns, x, gives, {}), {}, {a} \X gives,
                  {<<a, <<"ClientSideApply", ns, x>>>>} \X {}, {})
        BY CommandChain
    <2> QED
        BY <2>1 DEF gives, Acts
<1>4. Block(p, {id2}, s2, apart) /\ Acts(s2, {}, {b} \X {l}, {<<b, what2>>} \X {k}, {})
    <2> DEFINE gives == {l}
               awaits == {k}
    <2> HIDE DEF gives, awaits
    <2>1. /\ Block(p, {id2}, ClientSideApply(p, ns, y, gives, awaits), apart)
          /\ Acts(ClientSideApply(p, ns, y, gives, awaits), {}, {b} \X gives,
                  {<<b, what2>>} \X awaits, {})
        BY CommandChain
    <2> QED
        BY <2>1 DEF gives, awaits
<1>5. Block(p, {id3}, s3, apart) /\ Acts(s3, {}, {}, {<<c, what3>>} \X {l}, {})
    <2> DEFINE awaits == {l}
    <2> HIDE DEF awaits
    <2>1. /\ Block(p, {id3}, ClientSideApply(p, ns, z, {}, awaits), apart)
          /\ Acts(ClientSideApply(p, ns, z, {}, awaits), {}, {c} \X {},
                  {<<c, what3>>} \X awaits, {})
        BY CommandChain
    <2> QED
        BY <2>1 DEF awaits, Acts
<1>6. /\ Block(p, {}, d1, apart) /\ Acts(d1, {}, {}, {}, {<<b, a>>})
      /\ Block(p, {}, d2, apart) /\ Acts(d2, {}, {}, {}, {<<c, b>>})
    <2> HIDE DEF a, b, c
    <2> QED
        BY DependBlock
<1>7. Later(b, a) /\ Later(c, b)
    <2> HIDE DEF a, b, c, id1, id2, id3
    <2> QED
        BY <1>2, SiblingFirst
<1> HIDE DEF a, b, c, id1, id2, id3, what2, what3, s1, s2, s3, d1, d2
<1>8. Block(p, {id1} \cup {id2}, s1 \o s2, apart)
    BY <1>1, <1>3, <1>4, JoinBlocks
<1>9. Block(p, ({id1} \cup {id2}) \cup {id3}, s1 \o s2 \o s3, apart)
    BY <1>1, <1>5, <1>8, JoinBlocks
<1>10. Block(p, (({id1} \cup {id2}) \cup {id3}) \cup {}, s1 \o s2 \o s3 \o d1, apart)
    BY <1>6, <1>9, JoinBlocks
<1>11. Block(p, ((({id1} \cup {id2}) \cup {id3}) \cup {}) \cup {}, s, apart)
    BY <1>6, <1>10, JoinBlocks
<1>12. ((({id1} \cup {id2}) \cup {id3}) \cup {}) \cup {} = {id1, id2, id3}
    OBVIOUS
<1> DEFINE O == {<<a, k>>, <<b, l>>}
           A == {<<<<b, what2>>, k>>, <<<<c, what3>>, l>>}
           D == {<<b, a>>, <<c, b>>}
<1>13. Acts(s, {}, O, A, D)
    <2>1. IsSeq(s1) /\ IsSeq(s2) /\ IsSeq(s3) /\ IsSeq(d1) /\ IsSeq(d2)
        BY <1>3, <1>4, <1>5, <1>6 DEF Block
    <2>2. /\ Refers(s) = Refers(s1) \cup Refers(s2) \cup Refers(s3) \cup Refers(d1) \cup Refers(d2)
          /\ Offers(s) = Offers(s1) \cup Offers(s2) \cup Offers(s3) \cup Offers(d1) \cup Offers(d2)
          /\ Awaits(s) = Awaits(s1) \cup Awaits(s2) \cup Awaits(s3) \cup Awaits(d1) \cup Awaits(d2)
          /\ Depends(s) =
                 Depends(s1) \cup Depends(s2) \cup Depends(s3) \cup Depends(d1) \cup Depends(d2)
        BY <2>1, JoinActs
    <2> HIDE DEF s
    <2>3. Refers(s) \subseteq {} /\ Depends(s) = D
        BY <2>2, <1>3, <1>4, <1>5, <1>6 DEF Acts
    <2>4. O \subseteq Offers(s)
        BY <2>2, <1>3, <1>4 DEF Acts
    <2>5. Awaits(s) \subseteq A
        <3>1. Awaits(s2) \subseteq {<<<<b, what2>>, k>>} /\ Awaits(s3) \subseteq {<<<<c, what3>>, l>>}
            BY <1>4, <1>5 DEF Acts
        <3> QED
            BY <2>2, <3>1, <1>3, <1>6 DEF Acts
    <2> QED
        BY <2>3, <2>4, <2>5 DEF Acts
<1>14. \A e : Meets(e, e)
    BY DEF Meets
<1>15. \A e \in A : \E o \in O : Meets(o[2], e[2]) /\ <<e[1][1], o[1]>> \in D
    BY <1>14
<1>16. \A e \in D : Later(e[1], e[2])
    BY <1>7
<1> HIDE DEF s, O, A, D
<1>17. Sound(s, {})
    BY <1>13, <1>15, <1>16, SoundActs
<1> QED
    BY <1>11, <1>12, <1>17 DEF s, s1, s2, s3, d1, d2, a, b, c, id1, id2, id3

LEMMA AwsSound ==
    ASSUME NEW p, NEW c, NEW apart \in BOOLEAN, IsSeq(p), Len(p) >= 1,
           p[Len(p)][1] # "sdk.Blockchains", c.type = "aws"
    PROVE  /\ Block(p, {CommandId(k) : k \in Commands(c)}, awsComposite(p, c), apart)
           /\ Sound(awsComposite(p, c), {})
<1> DEFINE x == <<"aws", c.profile>>
           y == <<"kubectx", c.cluster>>
           z == <<"kubens", c.ns>>
           k == <<"session", "", "", {}>>
           l == <<"context", "", "", {}>>
<1>1. CommandRank(x) = 0 /\ CommandRank(y) = 1 /\ CommandRank(z) = 2
    BY DEF CommandRank
<1>2. Commands(c) = {<<"", x>>, <<"", y>>, <<"", z>>}
    BY DEF Commands
<1>3. awsComposite(p, c) =
          ClientSideApply(p, "", x, {k}, {})
              \o ClientSideApply(p, "", y, {l}, {k})
              \o ClientSideApply(p, "", z, {}, {l})
              \o AddDependency(CommandPath(p, "", y), CommandPath(p, "", x))
              \o AddDependency(CommandPath(p, "", z), CommandPath(p, "", y))
    BY DEF awsComposite
<1> HIDE DEF x, y, z, k, l
<1> DEFINE X == {CommandId(e) : e \in Commands(c)}
<1>4. X = {CommandId(<<"", x>>), CommandId(<<"", y>>), CommandId(<<"", z>>)}
    BY <1>2
<1> HIDE DEF X
<1> DEFINE ns == ""
           s == ClientSideApply(p, ns, x, {k}, {})
                    \o ClientSideApply(p, ns, y, {l}, {k})
                    \o ClientSideApply(p, ns, z, {}, {l})
                    \o AddDependency(CommandPath(p, ns, y), CommandPath(p, ns, x))
                    \o AddDependency(CommandPath(p, ns, z), CommandPath(p, ns, y))
<1>5. /\ X = {CommandId(<<ns, x>>), CommandId(<<ns, y>>), CommandId(<<ns, z>>)}
      /\ awsComposite(p, c) = s
    BY <1>3, <1>4
<1> HIDE DEF ns
<1>6. Block(p, X, s, apart)
    BY <1>1, <1>5, ThreeCommands
<1>7. Sound(s, {})
    BY <1>1, <1>5, ThreeCommands
<1> QED
    BY <1>5, <1>6, <1>7 DEF X

LEMMA KindSound ==
    ASSUME NEW p, NEW c, NEW apart \in BOOLEAN, IsSeq(p), Len(p) >= 1,
           p[Len(p)][1] # "sdk.Blockchains", c.type = "kind"
    PROVE  /\ Block(p, {CommandId(k) : k \in Commands(c)}, kindComposite(p, c), apart)
           /\ Sound(kindComposite(p, c), {})
<1> DEFINE registry == c.name \o "-registry"
           x == RegistryCommand(registry, "5001")
           y == KindCommand(c.name)
           z == <<"context", c.name>>
           k == <<"registry", "", registry, {}>>
           l == <<"cluster", "", c.name, {}>>
<1>1. CommandRank(x) = 0 /\ CommandRank(y) = 1 /\ CommandRank(z) = 2
    BY DEF CommandRank, RegistryCommand, KindCommand
<1>2. Commands(c) = {<<"default", x>>, <<"default", y>>, <<"default", z>>}
    BY DEF Commands
<1>3. kindComposite(p, c) =
          ClientSideApply(p, "default", x, {k}, {})
              \o ClientSideApply(p, "default", y, {l}, {k})
              \o ClientSideApply(p, "default", z, {}, {l})
              \o AddDependency(CommandPath(p, "default", y), CommandPath(p, "default", x))
              \o AddDependency(CommandPath(p, "default", z), CommandPath(p, "default", y))
    BY DEF kindComposite, dockerRegistry, kindCluster, KindPath
<1> HIDE DEF x, y, z, k, l
<1> DEFINE X == {CommandId(e) : e \in Commands(c)}
<1>4. X = {CommandId(<<"default", x>>), CommandId(<<"default", y>>), CommandId(<<"default", z>>)}
    BY <1>2
<1> HIDE DEF X
<1> DEFINE ns == "default"
           s == ClientSideApply(p, ns, x, {k}, {})
                    \o ClientSideApply(p, ns, y, {l}, {k})
                    \o ClientSideApply(p, ns, z, {}, {l})
                    \o AddDependency(CommandPath(p, ns, y), CommandPath(p, ns, x))
                    \o AddDependency(CommandPath(p, ns, z), CommandPath(p, ns, y))
<1>5. /\ X = {CommandId(<<ns, x>>), CommandId(<<ns, y>>), CommandId(<<ns, z>>)}
      /\ kindComposite(p, c) = s
    BY <1>3, <1>4
<1> HIDE DEF ns
<1>6. Block(p, X, s, apart)
    BY <1>1, <1>5, ThreeCommands
<1>7. Sound(s, {})
    BY <1>1, <1>5, ThreeCommands
<1> QED
    BY <1>5, <1>6, <1>7 DEF X

LEMMA KindClusterSound ==
    ASSUME NEW p, NEW c, NEW apart \in BOOLEAN, IsSeq(p), c.type = "kindCluster"
    PROVE  /\ Block(p, {CommandId(k) : k \in Commands(c)}, kindCluster(p, c.name, {}), apart)
           /\ Sound(kindCluster(p, c.name, {}), {})
<1> DEFINE y == KindCommand(c.name)
           gives == {<<"cluster", "", c.name, {}>>}
           s == ClientSideApply(p, "default", y, gives, {})
           path == CommandPath(p, "default", y)
<1>1. kindCluster(p, c.name, {}) = s
    BY DEF kindCluster
<1>2. {CommandId(e) : e \in Commands(c)} = {CommandId(<<"default", y>>)}
    BY DEF Commands
<1> HIDE DEF y, gives
<1>3. /\ Block(p, {CommandId(<<"default", y>>)}, s, apart)
      /\ Acts(s, {}, {path} \X gives, {<<path, <<"ClientSideApply", "default", y>>>>} \X {}, {})
    BY CommandChain
<1>4. Acts(s, {}, {}, {}, {})
    BY <1>3 DEF Acts
<1> HIDE DEF s
<1>5. Sound(s, {})
    BY <1>4, SoundActs
<1> QED
    BY <1>1, <1>2, <1>3, <1>5

----------------------------------------------------------------------------
(* A database and a ConfigMap of their own.                                *)
PostgresPlace(c) ==
    ResourceID("sdk.HelmChart#postgres", <<c.ns, c.release, <<c.release, c.users>>>>)

LEMMA PostgresSound ==
    ASSUME NEW p, NEW c, NEW apart \in BOOLEAN, IsSeq(p)
    PROVE  /\ Block(p, {PostgresPlace(c)}, Postgres(p, c.ns, c.release, c.release, c.users), apart)
           /\ Sound(Postgres(p, c.ns, c.release, c.release, c.users), {})
<1> DEFINE s == Postgres(p, c.ns, c.release, c.release, c.users)
           pg == PostgresPath(p, c.ns, c.release, c.release, c.users)
           O == {pg} \X {Pod(c.ns, PodNumber0(c.release)),
                         <<"database", c.ns, c.release, c.users>>}
           D == {<<pg, NamespacePath(pg, c.ns)>>}
<1>1. Block(p, {PostgresPlace(c)}, s, apart) /\ Acts(s, {}, O, {}, D)
    BY PostgresActs DEF PostgresPlace
<1>2. \A e \in D : Later(e[1], e[2])
    <2>1. Later(pg, NamespacePath(pg, c.ns))
        BY PostgresPathFacts
    <2> HIDE DEF pg
    <2> QED
        BY <2>1
<1> HIDE DEF s, O, D
<1>3. Sound(s, {})
    BY <1>1, <1>2, SoundActs
<1> QED
    BY <1>1, <1>3 DEF s

ConfigMapPlace(c) ==
    ResourceID("sdk.ConfigMapV1", <<c.ns, c.name, <<c.files, c.loader>>>>)

LEMMA ConfigMapSound ==
    ASSUME NEW p, NEW c, NEW apart \in BOOLEAN, IsSeq(p)
    PROVE  /\ Block(p, {ConfigMapPlace(c)},
                    ConfigMap(p, c.ns, c.name, c.files, c.loader, {}), apart)
           /\ Sound(ConfigMap(p, c.ns, c.name, c.files, c.loader, {}), {})
<1> DEFINE s == ConfigMap(p, c.ns, c.name, c.files, c.loader, {})
           O == {Append(p, ConfigMapPlace(c))} \X {<<"configmap", c.ns, c.name, c.files>>}
<1>1. Block(p, {ConfigMapPlace(c)}, s, apart) /\ Acts(s, {}, O, {}, {})
    BY ConfigMapActs DEF ConfigMapPlace
<1> HIDE DEF s, O
<1>2. Sound(s, {})
    BY <1>1, SoundActs
<1> QED
    BY <1>1, <1>2 DEF s

----------------------------------------------------------------------------
(* The sandbox.  A chart and the wait for it, as in node.go and            *)
(* explorer.go.                                                            *)
LEMMA ChartWithWait ==
    ASSUME NEW p, NEW id, NEW chart \in HelmCharts, NEW ns, NEW release, NEW service, NEW ports,
           NEW refs, NEW apart \in BOOLEAN, IsSeq(p), id[1] # "sdk.Blockchains", chart # "jd"
    PROVE  LET q == Append(p, id)
               path == ComponentPath(q, chart, ns, release, service, ports)
               s == NewChart(q) \o ComponentChart(q, chart, ns, release, service, ports, refs)
                        \o Wait(q, ns, DevspaceLabels(release), path)
           IN  /\ Block(p, {id}, s, apart)
               /\ Sound(s, refs)
               /\ <<path, Endpoint(ns, service, ports)>> \in Offers(s)
               /\ Begins(path, p, id)
               /\ \E x \in Makes(s) : x.path = q
<1> DEFINE q == Append(p, id)
           path == ComponentPath(q, chart, ns, release, service, ports)
           labels == DevspaceLabels(release)
           word == WaitCommand(labels)
           wait == CommandPath(q, ns, word)
           pod == Pod(ns, labels)
           endpoint == Endpoint(ns, service, ports)
           id1 == ResourceID(resourcePrefix[chart], <<ns, release, <<service, ports>>>>)
           id2 == ResourceID("sdk.ClientSideApply", <<ns, word>>)
           what == <<"ClientSideApply", ns, word>>
           s0 == NewChart(q)
           s1 == ComponentChart(q, chart, ns, release, service, ports, refs)
           s2 == Wait(q, ns, labels, path)
           s == s0 \o s1 \o s2
<1>1. IsSeq(q) /\ q[Len(q)] = id /\ Len(q) >= 1
    BY AppendFacts, SeqFacts
<1>2. resourcePrefix[chart] \in {"sdk.HelmChart#anvil", "sdk.HelmChart#aptos",
          "sdk.HelmChart#otterscan", "sdk.HelmChart#postgres", "sdk.HelmChart#telepresence"}
    BY DEF HelmCharts, resourcePrefix
<1>3. Self # id1 /\ Self # id2 /\ id1 # id2
    BY <1>2 DEF ResourceID, Self
<1>4. /\ Begins(path, q, id1) /\ Later(path, NamespacePath(path, ns)) /\ Begins(wait, q, id2)
    <2> HIDE DEF q, word
    <2> QED
        BY <1>1, ComponentPathFacts, CommandPathFacts
<1>5. Rank(q[Len(q)], id1) = 1 /\ Rank(q[Len(q)], id2) = 4
    <2>1. id1[1] \notin {"sdk.ClientSideApply", "sdk.Namespace", "sdk.HelmChart#jd"}
        BY <1>2 DEF ResourceID
    <2>2. <<"name", "postgresql">> \notin labels
        BY DEF DevspaceLabels
    <2>3. CommandRank(word) = 4
        BY <2>2, WaitRanks
    <2> HIDE DEF q, word, id1
    <2> QED
        BY <1>1, <2>1, <2>3, Ranks
<1>6. Later(wait, path)
    <2> HIDE DEF q, path, wait, id1, id2
    <2> QED
        BY <1>1, <1>4, <1>5, SiblingFirst
<1>7. Begins(path, p, id)
    <2>1. /\ IsSeq(path) /\ Len(q) < Len(path) /\ \A i \in 1..Len(q) : path[i] = q[i]
        BY <1>4 DEF Begins
    <2>2. /\ Len(q) = Len(p) + 1 /\ \A i \in 1..Len(p) : q[i] = p[i]
          /\ q[Len(p) + 1] = id /\ Len(p) \in Nat
        BY AppendFacts, SeqFacts
    <2>3. Len(path) \in Nat
        BY <2>1, SeqFacts
    <2> HIDE DEF q, path
    <2> QED
        BY <2>1, <2>2, <2>3 DEF Begins
<1> HIDE DEF q
<1>8. Block(q, {Self}, s0, apart) /\ Acts(s0, {}, {}, {}, {})
    BY <1>1, NewChartBlock
<1>9. /\ Block(q, {id1}, s1, apart)
      /\ Acts(s1, refs, {path} \X {pod, endpoint}, {}, {<<path, NamespacePath(path, ns)>>})
    BY <1>1, ComponentChartActs
<1>10. /\ Block(q, {id2}, s2, apart)
       /\ Acts(s2, {}, {}, {<<wait, what>>} \X {pod}, {<<wait, path>>})
    <2> HIDE DEF labels, path
    <2>1. /\ Block(q, {id2}, s2, apart)
          /\ Acts(s2, {}, {wait} \X {<<"ready", ns, "", labels>>},
                  {<<wait, what>>} \X {pod}, {<<wait, path>>})
        BY <1>1, WaitActs
    <2> QED
        BY <2>1 DEF Acts
<1>11. \E x \in Makes(s0) : x.path = q
    <2> DEFINE x == [op |-> "make", path |-> q, chart |-> q, what |-> <<"Chart", "", "">>,
                     gives |-> {}, refs |-> {}, awaits |-> {}]
    <2>1. ToSet(s0) = {x} /\ x.op = "make" /\ x.path = q
        BY SingleFacts DEF NewChart, Make
    <2> HIDE DEF x
    <2> QED
        BY <2>1 DEF Makes
<1> HIDE DEF path, labels, word, wait, pod, endpoint, id1, id2, what, s0, s1, s2
<1>12. Block(q, {Self} \cup {id1}, s0 \o s1, apart)
    BY <1>3, <1>8, <1>9, JoinBlocks
<1>13. Block(q, ({Self} \cup {id1}) \cup {id2}, s, apart)
    BY <1>3, <1>10, <1>12, JoinBlocks
<1>14. Block(p, {id}, s, apart)
    BY <1>13, LiftBlock DEF q
<1> DEFINE O == {<<path, pod>>, <<path, endpoint>>}
           A == {<<<<wait, what>>, pod>>}
           D == {<<path, NamespacePath(path, ns)>>, <<wait, path>>}
<1>15. /\ Acts(s, refs, O, A, D)
       /\ \E x \in Makes(s) : x.path = q
    <2>1. IsSeq(s0) /\ IsSeq(s1) /\ IsSeq(s2)
        BY <1>8, <1>9, <1>10 DEF Block
    <2>2. /\ Refers(s) = Refers(s0) \cup Refers(s1) \cup Refers(s2)
          /\ Offers(s) = Offers(s0) \cup Offers(s1) \cup Offers(s2)
          /\ Awaits(s) = Awaits(s0) \cup Awaits(s1) \cup Awaits(s2)
          /\ Depends(s) = Depends(s0) \cup Depends(s1) \cup Depends(s2)
          /\ Makes(s) = Makes(s0) \cup Makes(s1) \cup Makes(s2)
        BY <2>1, JoinActs
    <2> HIDE DEF s
    <2>3. Refers(s) \subseteq refs /\ Depends(s) = D
        BY <2>2, <1>8, <1>9, <1>10 DEF Acts
    <2>4. O \subseteq Offers(s)
        BY <2>2, <1>9 DEF Acts
    <2>5. Awaits(s) \subseteq A
        <3>1. Awaits(s2) \subseteq {<<<<wait, what>>, pod>>}
            BY <1>10 DEF Acts
        <3> QED
            BY <2>2, <3>1, <1>8, <1>9 DEF Acts
    <2> QED
        BY <2>2, <2>3, <2>4, <2>5, <1>11 DEF Acts
<1>16. \A x : Meets(x, x)
    BY DEF Meets
<1>17. \A a \in A : \E o \in O : Meets(o[2], a[2]) /\ <<a[1][1], o[1]>> \in D
    BY <1>16
<1>18. \A e \in D : Later(e[1], e[2])
    BY <1>4, <1>6
<1>19. <<path, endpoint>> \in Offers(s)
    BY <1>15 DEF Acts
<1> HIDE DEF s, O, A, D
<1>20. Sound(s, refs)
    BY <1>15, <1>17, <1>18, SoundActs
<1> QED
    BY <1>7, <1>14, <1>15, <1>19, <1>20 DEF s, s0, s1, s2, q, path, endpoint, labels

SandboxNodeId(n) == ResourceID("sdk.Blockchain", n)

LEMMA SandboxNodeSound ==
    ASSUME NEW p, NEW n, NEW apart \in BOOLEAN, IsSeq(p), n.type \in {"anvil", "aptos"}
    PROVE  LET s == blockchainNode(p, n) IN
           /\ Block(p, {SandboxNodeId(n)}, s, apart)
           /\ Sound(s, {})
           /\ <<SandboxChart(p, n), Endpoint(n.ns, n.service, n.ports)>> \in Offers(s)
           /\ Begins(SandboxChart(p, n), p, SandboxNodeId(n))
           /\ \E x \in Makes(s) : x.path = SandboxNodePath(p, n)
<1> DEFINE id == SandboxNodeId(n)
           chart == n.type
           ns == n.ns
           release == n.release
           service == n.service
           ports == n.ports
           q == Append(p, id)
           path == ComponentPath(q, chart, ns, release, service, ports)
           s == NewChart(q) \o ComponentChart(q, chart, ns, release, service, ports, {})
                    \o Wait(q, ns, DevspaceLabels(release), path)
<1>1. /\ blockchainNode(p, n) = s /\ SandboxChart(p, n) = path /\ SandboxNodePath(p, n) = q
    BY DEF blockchainNode, SandboxChart, SandboxNodePath, SandboxNodeId
<1>2. chart \in HelmCharts /\ chart # "jd" /\ id[1] # "sdk.Blockchains"
    BY DEF HelmCharts, SandboxNodeId, ResourceID
<1> HIDE DEF id, chart, ns, release, service, ports
<1>3. /\ Block(p, {id}, s, apart) /\ Sound(s, {})
      /\ <<path, Endpoint(ns, service, ports)>> \in Offers(s)
      /\ Begins(path, p, id) /\ \E x \in Makes(s) : x.path = q
    BY <1>2, ChartWithWait, ZenonT(60)
<1> QED
    BY <1>1, <1>3 DEF id, ns, service, ports

ExplorerId(e) == ResourceID("sdk.BlockExplorer", e)

LEMMA ExplorerSound ==
    ASSUME NEW p, NEW e, NEW apart \in BOOLEAN, IsSeq(p)
    PROVE  LET s == blockchainExplorer(p, e) IN
           /\ ExplorerPath(p, e) = Append(p, ExplorerId(e))
           /\ Block(p, {ExplorerId(e)}, s, apart)
           /\ Sound(s, {e.target})
           /\ \E x \in Makes(s) : x.path = ExplorerPath(p, e)
<1> DEFINE id == ExplorerId(e)
           ns == e.ns
           release == e.release
           ports == {80}
           refs == {e.target}
           q == Append(p, id)
<1>1. ExplorerPath(p, e) = q
    BY DEF ExplorerPath, ExplorerId
<1>2. CASE e.type # "blockscout"
    <2> DEFINE chart == "otterscan"
               path == ComponentPath(q, chart, ns, release, release, ports)
               s == NewChart(q) \o ComponentChart(q, chart, ns, release, release, ports, refs)
                        \o Wait(q, ns, DevspaceLabels(release), path)
    <2>1. blockchainExplorer(p, e) = s
        BY <1>1, <1>2 DEF blockchainExplorer
    <2>2. chart \in HelmCharts /\ chart # "jd" /\ id[1] # "sdk.Blockchains"
        BY DEF HelmCharts, ExplorerId, ResourceID
    <2> HIDE DEF id, chart, ns, release, ports, refs
    <2>3. /\ Block(p, {id}, s, apart) /\ Sound(s, refs)
          /\ \E x \in Makes(s) : x.path = q
        BY <2>2, ChartWithWait, ZenonT(60)
    <2> QED
        BY <1>1, <2>1, <2>3 DEF id, refs
<1>3. CASE e.type = "blockscout"
    <2> DEFINE id1 == <<"blockscout">>
               what == <<"Blockscout", ns, release>>
               s0 == NewChart(q)
               s1 == Make(Append(q, id1), q, what, {}, {}, {})
               s == s0 \o s1
    <2>1. blockchainExplorer(p, e) = s
        BY <1>1, <1>3 DEF blockchainExplorer, blockscout
    <2>2. IsSeq(q) /\ Self # id1
        BY AppendFacts DEF Self
    <2>3. \E x \in Makes(s0) : x.path = q
        <3> DEFINE x == [op |-> "make", path |-> q, chart |-> q, what |-> <<"Chart", "", "">>,
                         gives |-> {}, refs |-> {}, awaits |-> {}]
        <3>1. ToSet(s0) = {x} /\ x.op = "make" /\ x.path = q
            BY SingleFacts DEF NewChart, Make
        <3> HIDE DEF x
        <3> QED
            BY <3>1 DEF Makes
    <2> HIDE DEF q, what, id1, ns, release
    <2>4. Block(q, {Self}, s0, apart) /\ Acts(s0, {}, {}, {}, {})
        BY <2>2, NewChartBlock
    <2>5. /\ Block(q, {id1}, s1, apart)
          /\ Acts(s1, {}, {q} \X {}, {<<q, what>>} \X {}, {})
        BY <2>2, MakeBlock
    <2> HIDE DEF s0, s1
    <2>6. Block(q, {Self} \cup {id1}, s, apart)
        BY <2>2, <2>4, <2>5, JoinBlocks
    <2>7. Block(p, {id}, s, apart)
        <3> HIDE DEF s, id
        <3> QED
            BY <2>6, LiftBlock DEF q
    <2>8. Acts(s, {}, {}, {}, {}) /\ Makes(s) = Makes(s0) \cup Makes(s1)
        BY <2>4, <2>5, JoinActs DEF Acts, Block
    <2> HIDE DEF s
    <2>9. Sound(s, refs)
        BY <2>8, SoundActs
    <2> QED
        BY <1>1, <2>1, <2>3, <2>7, <2>8, <2>9 DEF id, refs, q
<1> QED
    BY <1>2, <1>3

NetworkId(n, i) == ResourceID("sdk.NetworkInfo", <<n, i>>)
NetworkMap(p, n, i) ==
    ConfigMapPath(NetworkPath(p, n, i), n.ns, "network-anvil-" \o n.chain,
                  {"01-network-" \o n.release \o ".toml"}, FALSE)
NetworkNeeds(n) == Endpoint(n.ns, n.release, {8545})

LEMMA NetworkSound ==
    ASSUME NEW p, NEW n, NEW i, NEW apart \in BOOLEAN, IsSeq(p)
    PROVE  LET s == networkInfo(p, n, i) IN
           /\ Block(p, {NetworkId(n, i)}, s, apart)
           /\ Sound(s, {NetworkNeeds(n)})
           /\ Begins(NetworkMap(p, n, i), p, NetworkId(n, i))
<1> DEFINE id == NetworkId(n, i)
           q == Append(p, id)
           ns == n.ns
           name == "network-anvil-" \o n.chain
           files == {"01-network-" \o n.release \o ".toml"}
           refs == {NetworkNeeds(n)}
           id1 == ResourceID("sdk.ConfigMapV1", <<ns, name, <<files, FALSE>>>>)
           s0 == NewChart(q)
           s1 == ConfigMap(q, ns, name, files, FALSE, refs)
           s == s0 \o s1
<1>1. /\ networkInfo(p, n, i) = s /\ NetworkMap(p, n, i) = Append(q, id1)
    BY DEF networkInfo, NetworkPath, NetworkMap, NetworkNeeds, NetworkId, ConfigMapPath, ScalarPath
<1>2. IsSeq(q) /\ Begins(Append(q, id1), p, id)
    BY AppendFacts, BeginsAppend
<1>3. Self # id1
    BY DEF Self, ResourceID
<1> HIDE DEF q, ns, name, files, refs
<1>4. Block(q, {Self}, s0, apart) /\ Acts(s0, {}, {}, {}, {})
    BY <1>2, NewChartBlock
<1>5. /\ Block(q, {id1}, s1, apart)
      /\ Acts(s1, refs, {Append(q, id1)} \X {<<"configmap", ns, name, files>>}, {}, {})
    BY <1>2, ConfigMapActs
<1> HIDE DEF id1, s0, s1, id
<1>6. Block(q, {Self} \cup {id1}, s, apart)
    BY <1>3, <1>4, <1>5, JoinBlocks
<1>7. Block(p, {id}, s, apart)
    BY <1>6, LiftBlock DEF q
<1>8. Acts(s, refs, {}, {}, {})
    BY <1>4, <1>5, JoinActs DEF Acts, Block
<1> HIDE DEF s
<1>9. Sound(s, refs)
    BY <1>8, SoundActs
<1> QED
    BY <1>1, <1>2, <1>7, <1>9 DEF id, refs

(* The sandbox's job distributor.                                          *)
LEMMA SandboxJDSound ==
    ASSUME NEW p, NEW c, NEW apart \in BOOLEAN, IsSeq(p), Len(p) >= 1
    PROVE  /\ Block(p, {JDPlace(c)}, sandboxJD(p, c), apart)
           /\ Ordered(sandboxJD(p, c))
           /\ c.type = "sandboxJD" /\ Coherent(c) => Sound(sandboxJD(p, c), {})
<1> DEFINE q == Append(p, JDPlace(c))
           dbns == c.db.ns
           dbrelease == c.db.release
           host == c.host
           users == {<<"chainlink", "chainlink">>}
           ports == {42242, 8080, 8081}
           release == c.jd.release
           pg == PostgresPath(q, dbns, dbrelease, host, users)
           jd == ComponentPath(q, "jd", dbns, release, "jd", ports)
           first == WaitCommand(PodNumber0(dbrelease))
           last == WaitCommand(DevspaceLabels(release))
           wait1 == CommandPath(q, dbns, first)
           wait2 == CommandPath(q, c.jd.ns, last)
           refs == {<<"database", dbns, "jd-db", users>>}
           pod1 == Pod(dbns, PodNumber0(dbrelease))
           pod2 == Pod(c.jd.ns, DevspaceLabels(release))
           what1 == <<"ClientSideApply", dbns, first>>
           what2 == <<"ClientSideApply", c.jd.ns, last>>
           offers1 == {Pod(dbns, PodNumber0(host)), <<"database", dbns, host, users>>}
           pod == Pod(dbns, DevspaceLabels(release))
           endpoint == Endpoint(dbns, "jd", ports)
           id1 == ResourceID("sdk.HelmChart#postgres", <<dbns, dbrelease, <<host, users>>>>)
           id2 == ResourceID("sdk.ClientSideApply", <<dbns, first>>)
           id3 == ResourceID("sdk.HelmChart#jd", <<dbns, release, <<"jd", ports>>>>)
           id4 == ResourceID("sdk.ClientSideApply", <<c.jd.ns, last>>)
           s0 == NewChart(q)
           s1 == Postgres(q, dbns, dbrelease, host, users)
           s2 == Wait(q, dbns, PodNumber0(dbrelease), pg)
           s3 == ComponentChart(q, "jd", dbns, release, "jd", ports, refs)
           s4 == Wait(q, c.jd.ns, DevspaceLabels(release), jd)
           s5 == AddDependency(jd, wait1)
           s == s0 \o s1 \o s2 \o s3 \o s4 \o s5
<1>1. sandboxJD(p, c) = s
    BY DEF sandboxJD, JDPlace
<1>2. IsSeq(q) /\ q[Len(q)] = JDPlace(c) /\ Len(q) >= 1
    BY AppendFacts, SeqFacts
<1>3. <<"name", "postgresql">> \notin DevspaceLabels(release)
          /\ <<"name", "postgresql">> \in PodNumber0(dbrelease)
    BY DEF DevspaceLabels, PodNumber0
<1>4. Self \notin {id1, id2, id3, id4} /\ id1 \notin {id2, id3, id4} /\ id2 # id3 /\ id3 # id4
    BY DEF ResourceID, Self
<1>5. id2 # id4
    BY <1>3 DEF ResourceID, WaitCommand
<1>6. /\ Begins(pg, q, id1) /\ Later(pg, NamespacePath(pg, dbns))
      /\ Begins(jd, q, id3) /\ Later(jd, NamespacePath(jd, dbns))
      /\ Begins(wait1, q, id2) /\ Begins(wait2, q, id4)
    <2>1. resourcePrefix["jd"] = "sdk.HelmChart#jd"
        BY DEF resourcePrefix
    <2> DEFINE chart == "jd"
    <2> HIDE DEF q, dbns, dbrelease, host, users, ports, release, first, last, chart
    <2>2. Begins(pg, q, id1) /\ Later(pg, NamespacePath(pg, dbns))
        BY <1>2, PostgresPathFacts
    <2>3. Begins(wait1, q, id2) /\ Begins(wait2, q, id4)
        BY <1>2, CommandPathFacts
    <2>4. /\ Begins(ComponentPath(q, chart, dbns, release, "jd", ports), q,
                    ResourceID(resourcePrefix[chart], <<dbns, release, <<"jd", ports>>>>))
          /\ Later(ComponentPath(q, chart, dbns, release, "jd", ports),
                   NamespacePath(ComponentPath(q, chart, dbns, release, "jd", ports), dbns))
        BY <1>2, ComponentPathFacts
    <2> QED
        BY <2>1, <2>2, <2>3, <2>4 DEF chart
<1>7. /\ Rank(q[Len(q)], id1) = 1 /\ Rank(q[Len(q)], id2) = 2
      /\ Rank(q[Len(q)], id3) = 3 /\ Rank(q[Len(q)], id4) = 4
    <2>1. JDPlace(c)[1] # "sdk.Blockchains" /\ id1[1] = "sdk.HelmChart#postgres"
        BY DEF JDPlace, ResourceID
    <2>2. CommandRank(first) = 2 /\ CommandRank(last) = 4
        BY <1>3, WaitRanks
    <2> HIDE DEF q, first, last, id1, release, ports
    <2> QED
        BY <1>2, <2>1, <2>2, Ranks
<1>8. Later(wait1, pg) /\ Later(jd, wait1) /\ Later(wait2, jd)
    <2> HIDE DEF q, pg, jd, wait1, wait2, id1, id2, id3, id4
    <2> QED
        BY <1>2, <1>6, <1>7, SiblingFirst
<1> HIDE DEF q
<1>9. Block(q, {Self}, s0, apart) /\ Acts(s0, {}, {}, {}, {})
    BY <1>2, NewChartBlock
<1>10. /\ Block(q, {id1}, s1, apart)
       /\ Acts(s1, {}, {pg} \X offers1, {}, {<<pg, NamespacePath(pg, dbns)>>})
    <2> HIDE DEF users, host, dbns, dbrelease
    <2> QED
        BY <1>2, PostgresActs
<1>11. /\ Block(q, {id2}, s2, apart)
       /\ Acts(s2, {}, {}, {<<wait1, what1>>} \X {pod1}, {<<wait1, pg>>})
    <2> DEFINE labels == PodNumber0(dbrelease)
    <2> HIDE DEF labels, pg, dbns
    <2>1. /\ Block(q, {id2}, s2, apart)
          /\ Acts(s2, {}, {wait1} \X {<<"ready", dbns, "", labels>>},
                  {<<wait1, what1>>} \X {pod1}, {<<wait1, pg>>})
        BY <1>2, WaitActs DEF labels
    <2> QED
        BY <2>1 DEF Acts
<1>12. /\ Block(q, {id3}, s3, apart)
       /\ Acts(s3, refs, {jd} \X {pod, endpoint}, {}, {<<jd, NamespacePath(jd, dbns)>>})
    <2>1. "jd" \in HelmCharts /\ resourcePrefix["jd"] = "sdk.HelmChart#jd"
        BY DEF HelmCharts, resourcePrefix
    <2> DEFINE chart == "jd"
    <2> HIDE DEF ports, release, dbns, refs, chart
    <2>2. /\ Block(q, {ResourceID(resourcePrefix[chart], <<dbns, release, <<"jd", ports>>>>)},
                   ComponentChart(q, chart, dbns, release, "jd", ports, refs), apart)
          /\ Acts(ComponentChart(q, chart, dbns, release, "jd", ports, refs), refs,
                  {ComponentPath(q, chart, dbns, release, "jd", ports)} \X {pod, endpoint}, {},
                  {<<ComponentPath(q, chart, dbns, release, "jd", ports),
                     NamespacePath(ComponentPath(q, chart, dbns, release, "jd", ports), dbns)>>})
        BY <1>2, <2>1, ComponentChartActs DEF chart
    <2> QED
        BY <2>1, <2>2 DEF chart
<1>13. /\ Block(q, {id4}, s4, apart)
       /\ Acts(s4, {}, {}, {<<wait2, what2>>} \X {pod2}, {<<wait2, jd>>})
    <2> DEFINE labels == DevspaceLabels(release)
               ns == c.jd.ns
    <2> HIDE DEF labels, jd, ns
    <2>1. /\ Block(q, {ResourceID("sdk.ClientSideApply", <<ns, WaitCommand(labels)>>)},
                   Wait(q, ns, labels, jd), apart)
          /\ Acts(Wait(q, ns, labels, jd), {},
                  {CommandPath(q, ns, WaitCommand(labels))} \X {<<"ready", ns, "", labels>>},
                  {<<CommandPath(q, ns, WaitCommand(labels)),
                     <<"ClientSideApply", ns, WaitCommand(labels)>>>>} \X {Pod(ns, labels)},
                  {<<CommandPath(q, ns, WaitCommand(labels)), jd>>})
        BY <1>2, WaitActs
    <2> QED
        BY <2>1 DEF Acts, labels, ns
<1>14. Block(q, {}, s5, apart) /\ Acts(s5, {}, {}, {}, {<<jd, wait1>>})
    <2> HIDE DEF jd, wait1
    <2> QED
        BY DependBlock
<1>15. c.type = "sandboxJD" /\ Coherent(c) => /\ host = "jd-db" /\ pod1 = Pod(dbns, PodNumber0(host))
                                              /\ pod2 = pod
    BY DEF Coherent
<1> HIDE DEF dbns, dbrelease, host, users, ports, release, pg, jd, first, last, wait1, wait2, pod1,
             pod2, what1, what2, pod, endpoint, id1, id2, id3, id4, s0, s1, s2, s3, s4, s5
<1>16. Block(q, {Self} \cup {id1}, s0 \o s1, apart)
    BY <1>4, <1>9, <1>10, JoinBlocks
<1>17. Block(q, ({Self} \cup {id1}) \cup {id2}, s0 \o s1 \o s2, apart)
    BY <1>4, <1>11, <1>16, JoinBlocks
<1>18. Block(q, (({Self} \cup {id1}) \cup {id2}) \cup {id3}, s0 \o s1 \o s2 \o s3, apart)
    BY <1>4, <1>12, <1>17, JoinBlocks
<1>19. Block(q, ((({Self} \cup {id1}) \cup {id2}) \cup {id3}) \cup {id4},
             s0 \o s1 \o s2 \o s3 \o s4, apart)
    BY <1>4, <1>5, <1>13, <1>18, JoinBlocks
<1>20. Block(q, (((({Self} \cup {id1}) \cup {id2}) \cup {id3}) \cup {id4}) \cup {}, s, apart)
    BY <1>14, <1>19, JoinBlocks
<1>21. Block(p, {JDPlace(c)}, s, apart)
    BY <1>20, LiftBlock DEF q
<1> DEFINE O == ({pg} \X offers1) \cup {<<jd, pod>>}
           A == {<<<<wait1, what1>>, pod1>>, <<<<wait2, what2>>, pod2>>}
           D == {<<pg, NamespacePath(pg, dbns)>>, <<wait1, pg>>, <<jd, NamespacePath(jd, dbns)>>,
                 <<wait2, jd>>, <<jd, wait1>>}
<1>22. Acts(s, refs, O, A, D)
    <2> HIDE DEF offers1, refs
    <2>1. IsSeq(s0) /\ IsSeq(s1) /\ IsSeq(s2) /\ IsSeq(s3) /\ IsSeq(s4) /\ IsSeq(s5)
        BY <1>9, <1>10, <1>11, <1>12, <1>13, <1>14 DEF Block
    <2>2. /\ Refers(s) = Refers(s0) \cup Refers(s1) \cup Refers(s2) \cup Refers(s3)
                             \cup Refers(s4) \cup Refers(s5)
          /\ Offers(s) = Offers(s0) \cup Offers(s1) \cup Offers(s2) \cup Offers(s3)
                             \cup Offers(s4) \cup Offers(s5)
          /\ Awaits(s) = Awaits(s0) \cup Awaits(s1) \cup Awaits(s2) \cup Awaits(s3)
                             \cup Awaits(s4) \cup Awaits(s5)
          /\ Depends(s) = Depends(s0) \cup Depends(s1) \cup Depends(s2) \cup Depends(s3)
                             \cup Depends(s4) \cup Depends(s5)
        BY <2>1, JoinActs
    <2> HIDE DEF s
    <2>3. Refers(s) \subseteq refs /\ Depends(s) = D
        BY <2>2, <1>9, <1>10, <1>11, <1>12, <1>13, <1>14 DEF Acts
    <2>4. O \subseteq Offers(s)
        BY <2>2, <1>10, <1>12 DEF Acts
    <2>5. Awaits(s) \subseteq A
        <3>1. /\ Awaits(s2) \subseteq {<<<<wait1, what1>>, pod1>>}
              /\ Awaits(s4) \subseteq {<<<<wait2, what2>>, pod2>>}
            BY <1>11, <1>13 DEF Acts
        <3> QED
            BY <2>2, <3>1, <1>9, <1>10, <1>12, <1>14 DEF Acts
    <2> QED
        BY <2>3, <2>4, <2>5 DEF Acts
<1>23. \A x : Meets(x, x)
    BY DEF Meets
<1>25. \A e \in D : Later(e[1], e[2])
    BY <1>6, <1>8
<1>26. Ordered(s)
    <2> HIDE DEF s, refs, O, A, D
    <2> QED
        BY <1>22, <1>25 DEF Acts, Ordered
<1>24. ASSUME c.type = "sandboxJD", Coherent(c) PROVE Sound(s, {})
    <2>1. \A need \in refs : \E o \in O : Meets(o[2], need)
        <3>1. <<pg, <<"database", dbns, host, users>>>> \in O
            OBVIOUS
        <3> QED
            BY <3>1, <1>15, <1>23, <1>24
    <2>2. \A a \in A : \E o \in O : Meets(o[2], a[2]) /\ <<a[1][1], o[1]>> \in D
        <3>1. /\ <<pg, pod1>> \in O /\ <<jd, pod2>> \in O
            BY <1>15, <1>24
        <3>2. <<wait1, pg>> \in D /\ <<wait2, jd>> \in D
            OBVIOUS
        <3> HIDE DEF O, D
        <3> QED
            BY <3>1, <3>2, <1>23
    <2> HIDE DEF s, refs, O, A, D
    <2> QED
        BY <1>22, <1>25, <2>1, <2>2, SoundActs
<1> QED
    BY <1>1, <1>21, <1>24, <1>26 DEF s

----------------------------------------------------------------------------
(* The steps of a component with twins make two constructs of one path.    *)
LEMMA ClashJoin ==
    ASSUME NEW s, NEW t, IsSeq(s), IsSeq(t), ~Apart(s) \/ ~Apart(t)
    PROVE  ~Apart(s \o t)
<1> DEFINE st == s \o t
<1>1. /\ IsSeq(st) /\ Len(st) = Len(s) + Len(t)
      /\ \A i \in 1..Len(s) : st[i] = s[i]
      /\ \A i \in 1..Len(t) : st[Len(s) + i] = t[i]
      /\ Len(s) \in Nat /\ Len(t) \in Nat
    BY ConcatFacts, SeqFacts
<1> HIDE DEF st
<1>2. CASE ~Apart(s)
    <2>1. PICK i, j \in 1..Len(s) :
              s[i].op = "make" /\ s[j].op = "make" /\ s[i].path = s[j].path /\ i # j
        BY <1>2 DEF Apart
    <2>2. i \in 1..Len(st) /\ j \in 1..Len(st) /\ st[i] = s[i] /\ st[j] = s[j]
        BY <1>1, <2>1
    <2> QED
        BY <2>1, <2>2 DEF Apart, st
<1>3. CASE ~Apart(t)
    <2>1. PICK i, j \in 1..Len(t) :
              t[i].op = "make" /\ t[j].op = "make" /\ t[i].path = t[j].path /\ i # j
        BY <1>3 DEF Apart
    <2>2. /\ Len(s) + i \in 1..Len(st) /\ Len(s) + j \in 1..Len(st)
          /\ st[Len(s) + i] = t[i] /\ st[Len(s) + j] = t[j] /\ Len(s) + i # Len(s) + j
        BY <1>1, <2>1
    <2> QED
        BY <2>1, <2>2 DEF Apart, st
<1> QED
    BY <1>2, <1>3

LEMMA ClashFlatten ==
    ASSUME NEW seqs, IsSeq(seqs), \A i \in 1..Len(seqs) : IsSeq(seqs[i]),
           \/ \E i \in 1..Len(seqs) : ~Apart(seqs[i])
           \/ \E i, j \in 1..Len(seqs) :
                 i # j /\ \E x \in Makes(seqs[i]), y \in Makes(seqs[j]) : x.path = y.path
    PROVE  ~Apart(FlattenSeq(seqs))
<1> DEFINE n == Len(seqs)
           s == FlattenSeq(seqs)
<1>1. /\ n \in Nat /\ IsSeq(s) /\ Len(s) \in Nat
      /\ \E place : IsPlacement(place, n, seqs, s)
      /\ \A i \in 1..n : Len(seqs[i]) \in Nat
    BY FlattenFacts, SeqFacts
<1>2. PICK place : IsPlacement(place, n, seqs, s)
    BY <1>1
<1>2a. SUFFICES ~Apart(s)
    OBVIOUS
<1> HIDE DEF n, s
<1>3. ASSUME NEW i \in 1..n, NEW k \in 1..Len(seqs[i])
      PROVE  place[i] + k \in 1..Len(s) /\ s[place[i] + k] = seqs[i][k]
    <2>1. place[i] \in Nat /\ place[i] + Len(seqs[i]) <= Len(s) /\ Len(seqs[i]) \in Nat
        BY <1>1, <1>2 DEF IsPlacement
    <2>2. s[place[i] + k] = seqs[i][k]
        BY <1>2 DEF IsPlacement
    <2> QED
        BY <1>1, <2>1, <2>2, SMTT(30)
<1>4. CASE \E i \in 1..n : ~Apart(seqs[i])
    <2>1. PICK i \in 1..n : ~Apart(seqs[i])
        BY <1>4
    <2>2. PICK k, l \in 1..Len(seqs[i]) :
              /\ seqs[i][k].op = "make" /\ seqs[i][l].op = "make"
              /\ seqs[i][k].path = seqs[i][l].path /\ k # l
        BY <2>1 DEF Apart
    <2>3. place[i] \in Nat /\ Len(seqs[i]) \in Nat
        BY <1>1, <1>2 DEF IsPlacement
    <2>4. place[i] + k # place[i] + l
        BY <2>2, <2>3
    <2>5. place[i] + k \in 1..Len(s) /\ place[i] + l \in 1..Len(s)
        BY <1>3
    <2>6. s[place[i] + k] = seqs[i][k] /\ s[place[i] + l] = seqs[i][l]
        BY <1>3
    <2> QED
        BY <2>2, <2>4, <2>5, <2>6 DEF Apart
<1>5. CASE \E i, j \in 1..n :
              i # j /\ \E x \in Makes(seqs[i]), y \in Makes(seqs[j]) : x.path = y.path
    <2>1. PICK i, j \in 1..n :
              i # j /\ \E x \in Makes(seqs[i]), y \in Makes(seqs[j]) : x.path = y.path
        BY <1>5
    <2>2. PICK x \in Makes(seqs[i]), y \in Makes(seqs[j]) : x.path = y.path
        BY <2>1
    <2>3. PICK k \in 1..Len(seqs[i]) : x = seqs[i][k]
        BY SeqFacts DEF Makes, n
    <2>4. PICK l \in 1..Len(seqs[j]) : y = seqs[j][l]
        BY SeqFacts, SMTT(30) DEF Makes, n
    <2>5. x.op = "make" /\ y.op = "make"
        BY DEF Makes
    <2>6. place[i] + k # place[j] + l
        <3>1. /\ place[i] \in Nat /\ place[j] \in Nat
              /\ Len(seqs[i]) \in Nat /\ Len(seqs[j]) \in Nat
              /\ i < j => place[i] + Len(seqs[i]) <= place[j]
              /\ j < i => place[j] + Len(seqs[j]) <= place[i]
            BY <1>1, <1>2 DEF IsPlacement
        <3>2. i < j \/ j < i
            BY <1>1, <2>1
        <3> QED
            BY <3>1, <3>2, SMTT(30)
    <2>7. place[i] + k \in 1..Len(s) /\ place[j] + l \in 1..Len(s)
        BY <1>3
    <2>8. s[place[i] + k] = x /\ s[place[j] + l] = y
        BY <1>3, <2>3, <2>4
    <2> QED
        BY <2>2, <2>5, <2>6, <2>7, <2>8 DEF Apart
<1> QED
    BY <1>4, <1>5 DEF n, s

(* Paths that go on from q with ids in X, each with an id of its own if    *)
(* apart.                                                                  *)
Line(q, X, s, apart) ==
    /\ IsSeq(s)
    /\ \A m \in 1..Len(s) : \E x \in X : Begins(s[m], q, x)
    /\ apart => \A m, l \in 1..Len(s) : s[m][Len(q) + 1] = s[l][Len(q) + 1] => m = l

LEMMA SingleLine ==
    ASSUME NEW q, NEW a, NEW x, NEW apart \in BOOLEAN, Begins(a, q, x)
    PROVE  Line(q, {x}, <<a>>, apart)
BY SingleFacts DEF Line

LEMMA NoLine ==
    ASSUME NEW q, NEW apart \in BOOLEAN
    PROVE  Line(q, {}, <<>>, apart)
BY NoneFacts DEF Line

LEMMA JoinLines ==
    ASSUME NEW q, NEW X, NEW Y, NEW s, NEW t, NEW apart \in BOOLEAN,
           Line(q, X, s, apart), Line(q, Y, t, apart), apart => X \cap Y = {}
    PROVE  Line(q, X \cup Y, s \o t, apart)
<1> DEFINE st == s \o t
<1>1. /\ IsSeq(st) /\ Len(st) = Len(s) + Len(t)
      /\ \A i \in 1..Len(s) : st[i] = s[i]
      /\ \A i \in 1..Len(t) : st[Len(s) + i] = t[i]
      /\ Len(s) \in Nat /\ Len(t) \in Nat
    BY ConcatFacts, SeqFacts DEF Line
<1> HIDE DEF st
<1>2. ASSUME NEW m \in 1..Len(st)
      PROVE  \/ m \in 1..Len(s) /\ st[m] = s[m]
             \/ \E i \in 1..Len(t) : m = Len(s) + i /\ st[m] = t[i]
    <2>1. m \in 1..Len(s) \/ (m - Len(s) \in 1..Len(t) /\ m = Len(s) + (m - Len(s)))
        BY <1>1
    <2>2. CASE m \in 1..Len(s)
        BY <1>1, <2>2
    <2>3. CASE m - Len(s) \in 1..Len(t) /\ m = Len(s) + (m - Len(s))
        <3> DEFINE i == m - Len(s)
        <3>1. i \in 1..Len(t) /\ m = Len(s) + i
            BY <2>3
        <3> HIDE DEF i
        <3> QED
            BY <1>1, <3>1
    <2> QED
        BY <2>1, <2>2, <2>3
<1>3. \A m \in 1..Len(st) : \E x \in X \cup Y : Begins(st[m], q, x)
    BY <1>2 DEF Line
<1>4. ASSUME apart, NEW m \in 1..Len(st), NEW l \in 1..Len(st),
             st[m][Len(q) + 1] = st[l][Len(q) + 1]
      PROVE  m = l
    <2> DEFINE z == Len(q) + 1
    <2>1. /\ \A i \in 1..Len(s) : s[i][z] \in X
          /\ \A i \in 1..Len(t) : t[i][z] \in Y
        BY DEF Line, Begins
    <2>2. /\ \A i, j \in 1..Len(s) : s[i][z] = s[j][z] => i = j
          /\ \A i, j \in 1..Len(t) : t[i][z] = t[j][z] => i = j
        BY <1>4 DEF Line
    <2> HIDE DEF z
    <2>3. st[m][z] = st[l][z] /\ X \cap Y = {}
        BY <1>4 DEF z
    <2> QED
        BY <1>2, <2>1, <2>2, <2>3, ZenonT(60)
<1> QED
    BY <1>1, <1>3, <1>4 DEF Line, st

LEMMA FlattenLine ==
    ASSUME NEW q, NEW seqs, NEW ids, NEW apart \in BOOLEAN, IsSeq(seqs),
           \A i \in 1..Len(seqs) : Line(q, ids[i], seqs[i], apart),
           apart => \A i, j \in 1..Len(seqs) : i # j => ids[i] \cap ids[j] = {}
    PROVE  Line(q, UNION {ids[i] : i \in 1..Len(seqs)}, FlattenSeq(seqs), apart)
<1> DEFINE n == Len(seqs)
           s == FlattenSeq(seqs)
           X == UNION {ids[i] : i \in 1..n}
<1>1. /\ n \in Nat /\ IsSeq(s)
      /\ \E place : IsPlacement(place, n, seqs, s)
    BY FlattenFacts, SeqFacts DEF Line
<1>2. PICK place : IsPlacement(place, n, seqs, s)
    BY <1>1
<1> HIDE DEF n, s
<1>3. \A m \in 1..Len(s) : \E i \in 1..n : \E k \in 1..Len(seqs[i]) :
          m = place[i] + k /\ s[m] = seqs[i][k]
    <2>1. ASSUME NEW m \in 1..Len(s)
          PROVE  \E i \in 1..n : \E k \in 1..Len(seqs[i]) : m = place[i] + k
        BY <1>2 DEF IsPlacement
    <2>2. \A i \in 1..n : \A k \in 1..Len(seqs[i]) : s[place[i] + k] = seqs[i][k]
        BY <1>2 DEF IsPlacement
    <2> QED
        BY <2>1, <2>2
<1>4. \A i \in 1..n : \A k \in 1..Len(seqs[i]) : \E x \in ids[i] : Begins(seqs[i][k], q, x)
    BY DEF Line, n
<1>5. ASSUME NEW m \in 1..Len(s) PROVE \E x \in X : Begins(s[m], q, x)
    <2>1. PICK i \in 1..n : \E k \in 1..Len(seqs[i]) : s[m] = seqs[i][k]
        BY <1>3
    <2> QED
        BY <1>4, <2>1
<1>6. ASSUME apart, NEW m \in 1..Len(s), NEW l \in 1..Len(s),
             s[m][Len(q) + 1] = s[l][Len(q) + 1]
      PROVE  m = l
    <2> DEFINE z == Len(q) + 1
    <2>1. PICK i \in 1..n : \E k \in 1..Len(seqs[i]) : m = place[i] + k /\ s[m] = seqs[i][k]
        BY <1>3
    <2>2. PICK j \in 1..n : \E k \in 1..Len(seqs[j]) : l = place[j] + k /\ s[l] = seqs[j][k]
        BY <1>3
    <2>3. s[m][z] \in ids[i] /\ s[l][z] \in ids[j]
        BY <1>4, <2>1, <2>2, ZenonT(60) DEF Begins
    <2>4. i = j
        <3>1. ids[i] \cap ids[j] # {}
            BY <1>6, <2>3
        <3> QED
            BY <1>6, <3>1 DEF n
    <2>5. \A k1, k2 \in 1..Len(seqs[i]) : seqs[i][k1][z] = seqs[i][k2][z] => k1 = k2
        BY <1>6 DEF Line, n
    <2> QED
        BY <1>6, <2>1, <2>2, <2>4, <2>5
<1> QED
    BY <1>1, <1>5, <1>6 DEF Line, n, s

----------------------------------------------------------------------------
(* The chains: for each config its nodes in order, the explorer after the  *)
(* first of them, and the ConfigMap that describes it.                     *)
ChainsPlace(c) == ResourceID("sdk.Blockchains", Exported(c))

Explored(k, j) == j = 1 /\ k.explorer # <<>>

PartCharts(q, k, j) ==
    <<SandboxChart(q, k.nodes[j])>>
        \o IF Explored(k, j) THEN <<ExplorerPath(q, k.explorer[1])>> ELSE <<>>

PartSteps(q, k, j) ==
    blockchainNode(q, k.nodes[j])
        \o IF Explored(k, j)
           THEN blockchainExplorer(q, k.explorer[1])
                \o AddDependency(ExplorerPath(q, k.explorer[1]), SandboxChart(q, k.nodes[1]))
           ELSE <<>>

PartIds(k, j) ==
    {SandboxNodeId(k.nodes[j])}
        \cup IF Explored(k, j) THEN {ExplorerId(k.explorer[1])} ELSE {}

ConfigIds(k, i) ==
    {NetworkId(k.nodes[1], i)} \cup UNION {PartIds(k, j) : j \in 1..Len(k.nodes)}

ChainsIds(c) == UNION {ConfigIds(c.configs[i], i) : i \in 1..Len(c.configs)}

(* A config that passes Validate.                                          *)
ValidConfig(k) ==
    /\ IsSeq(k.nodes) /\ Len(k.nodes) >= 1
    /\ \A j \in 1..Len(k.nodes) : k.nodes[j].type \in {"anvil", "aptos"}

ValidChains(c) ==
    /\ c.type = "chains" /\ IsSeq(c.configs)
    /\ \A i \in 1..Len(c.configs) : ValidConfig(c.configs[i])

LEMMA ValidChainsFacts ==
    ASSUME NEW c \in Component, c.type = "chains", Valid(c)
    PROVE  /\ ValidChains(c)
           /\ Exported(c).configs = c.configs
           /\ c.sequential \in BOOLEAN
<1>1. /\ c \in [type : {"chains"}, configs : Seq(Chain), sequential : BOOLEAN]
    BY DEF Component
<1>2. /\ c.configs \in Seq(Chain) /\ c.sequential \in BOOLEAN
      /\ "configs" \in DOMAIN c
    BY <1>1
<1>3. IsSeq(c.configs) /\ ToSet(c.configs) \subseteq Chain
    BY <1>2, SeqOfSet
<1>4. ASSUME NEW i \in 1..Len(c.configs) PROVE ValidConfig(c.configs[i])
    <2> DEFINE k == c.configs[i]
    <2>1. k \in Chain /\ i \in DOMAIN c.configs
        BY <1>2, <1>3, SeqFacts
    <2>2. k.nodes \in Seq(SandboxNode)
        BY <2>1 DEF Chain
    <2>3. IsSeq(k.nodes)
        BY <2>2, SeqOfSet
    <2>4. k.nodes # <<>> /\ \A n \in ToSet(k.nodes) : n.type \in {"anvil", "aptos"}
        BY <2>1 DEF Valid
    <2> HIDE DEF k
    <2>5. Len(k.nodes) >= 1
        BY <2>3, <2>4, TailFacts
    <2>6. \A j \in 1..Len(k.nodes) : k.nodes[j] \in ToSet(k.nodes)
        BY <2>3, SeqFacts
    <2> QED
        BY <2>3, <2>4, <2>5, <2>6 DEF ValidConfig, k
<1>5. Exported(c).configs = c.configs
    BY <1>2 DEF Exported, Unexported
<1> QED
    BY <1>2, <1>3, <1>4, <1>5 DEF ValidChains

LEMMA ChainIdsApart ==
    ASSUME NEW c, ValidChains(c), ~HasTwins(c), NEW i \in 1..Len(c.configs)
    PROVE  LET k == c.configs[i] IN
           /\ \A j, l \in 1..Len(k.nodes) : j # l => PartIds(k, j) \cap PartIds(k, l) = {}
           /\ \A m \in 1..Len(c.configs) :
                  i # m => ConfigIds(k, i) \cap ConfigIds(c.configs[m], m) = {}
<1>1. /\ \A n, m : SandboxNodeId(n) = SandboxNodeId(m) => n = m
      /\ \A e, f : ExplorerId(e) = ExplorerId(f) => e = f
      /\ \A n, m, a, b : NetworkId(n, a) = NetworkId(m, b) => a = b
      /\ \A n, e : SandboxNodeId(n) # ExplorerId(e)
      /\ \A n, m, a : SandboxNodeId(n) # NetworkId(m, a)
      /\ \A e, m, a : ExplorerId(e) # NetworkId(m, a)
    BY DEF SandboxNodeId, ExplorerId, NetworkId, ResourceID
<1>2. /\ DOMAIN c.configs = 1..Len(c.configs)
      /\ \A m \in 1..Len(c.configs) :
             DOMAIN c.configs[m].nodes = 1..Len(c.configs[m].nodes)
    BY SeqFacts DEF ValidChains, ValidConfig
<1>3. ASSUME NEW m \in 1..Len(c.configs), NEW j \in 1..Len(c.configs[i].nodes),
             NEW l \in 1..Len(c.configs[m].nodes),
             c.configs[i].nodes[j] = c.configs[m].nodes[l]
      PROVE  i = m /\ j = l
    <2>1. <<i, j>> = <<m, l>>
        BY <1>2, <1>3 DEF HasTwins, ValidChains
    <2> QED
        BY <2>1
<1>4. ASSUME NEW m \in 1..Len(c.configs), c.configs[i].explorer # <<>>,
             c.configs[m].explorer # <<>>,
             c.configs[i].explorer[1] = c.configs[m].explorer[1]
      PROVE  i = m
    BY <1>2, <1>4 DEF HasTwins, ValidChains
<1>5. ASSUME NEW j \in 1..Len(c.configs[i].nodes), NEW l \in 1..Len(c.configs[i].nodes), j # l
      PROVE  PartIds(c.configs[i], j) \cap PartIds(c.configs[i], l) = {}
    <2>1. SandboxNodeId(c.configs[i].nodes[j]) # SandboxNodeId(c.configs[i].nodes[l])
        BY <1>1, <1>3, <1>5
    <2>2. ~(Explored(c.configs[i], j) /\ Explored(c.configs[i], l))
        BY <1>5 DEF Explored
    <2> QED
        BY <1>1, <2>1, <2>2 DEF PartIds
<1>6. ASSUME NEW m \in 1..Len(c.configs), NEW x \in ConfigIds(c.configs[i], i),
             x \in ConfigIds(c.configs[m], m)
      PROVE  i = m
    <2>1. \A a \in 1..Len(c.configs) : \A y \in ConfigIds(c.configs[a], a) :
              \/ y = NetworkId(c.configs[a].nodes[1], a)
              \/ \E j \in 1..Len(c.configs[a].nodes) : y = SandboxNodeId(c.configs[a].nodes[j])
              \/ c.configs[a].explorer # <<>> /\ y = ExplorerId(c.configs[a].explorer[1])
        BY DEF ConfigIds, PartIds, Explored
    <2>2. /\ \/ x = NetworkId(c.configs[i].nodes[1], i)
             \/ \E j \in 1..Len(c.configs[i].nodes) : x = SandboxNodeId(c.configs[i].nodes[j])
             \/ c.configs[i].explorer # <<>> /\ x = ExplorerId(c.configs[i].explorer[1])
          /\ \/ x = NetworkId(c.configs[m].nodes[1], m)
             \/ \E j \in 1..Len(c.configs[m].nodes) : x = SandboxNodeId(c.configs[m].nodes[j])
             \/ c.configs[m].explorer # <<>> /\ x = ExplorerId(c.configs[m].explorer[1])
        BY <1>6, <2>1
    <2> QED
        BY <1>1, <1>3, <1>4, <2>2
<1> QED
    BY <1>5, <1>6

LEMMA ChartsInLine ==
    ASSUME NEW q, NEW c, NEW apart \in BOOLEAN, IsSeq(q), ValidChains(c), apart => ~HasTwins(c)
    PROVE  /\ Line(q, ChainsIds(c), ChainCharts(q, c), apart)
           /\ \A i \in 1..Len(c.configs) : c.configs[i].explorer # <<>> =>
                  \E m \in 1..Len(ChainCharts(q, c)) - 1 :
                      /\ ChainCharts(q, c)[m] = SandboxChart(q, c.configs[i].nodes[1])
                      /\ ChainCharts(q, c)[m + 1] = ExplorerPath(q, c.configs[i].explorer[1])
<1> DEFINE n == Len(c.configs)
           parts(k) == [j \in 1..Len(k.nodes) |-> PartCharts(q, k, j)]
           map(k, i) == NetworkMap(q, k.nodes[1], i)
           line(k, i) == FlattenSeq(parts(k)) \o <<map(k, i)>>
           lines == [i \in 1..n |-> line(c.configs[i], i)]
           all == FlattenSeq(lines)
<1>1. n \in Nat /\ DOMAIN c.configs = 1..n
    BY SeqFacts DEF ValidChains
<1>2. ChainCharts(q, c) = all
    <2>1. ASSUME NEW i \in 1..n PROVE ConfigCharts(q, c.configs[i], i) = line(c.configs[i], i)
        <3>1. DOMAIN c.configs[i].nodes = 1..Len(c.configs[i].nodes)
            BY SeqFacts DEF ValidChains, ValidConfig
        <3> QED
            BY <3>1 DEF ConfigCharts, PartCharts, Explored, NetworkMap
    <2> HIDE DEF line, n
    <2>2. [i \in DOMAIN c.configs |-> ConfigCharts(q, c.configs[i], i)] = lines
        BY <1>1, <2>1
    <2> QED
        BY <2>2 DEF ChainCharts
<1>3. ASSUME NEW k, NEW j \in 1..Len(k.nodes), ValidConfig(k)
      PROVE  Line(q, PartIds(k, j), PartCharts(q, k, j), apart)
    <2> DEFINE node == SandboxChart(q, k.nodes[j])
               id == SandboxNodeId(k.nodes[j])
               e == k.explorer[1]
    <2>1. Begins(node, q, id)
        BY <1>3, SandboxNodeSound DEF ValidConfig
    <2>2. Line(q, {id}, <<node>>, apart)
        <3> HIDE DEF node, id
        <3> QED
            BY <2>1, SingleLine
    <2>3. CASE Explored(k, j)
        <3> DEFINE path == ExplorerPath(q, e)
                   id2 == ExplorerId(e)
        <3>1. path = Append(q, id2)
            BY DEF ExplorerPath, ExplorerId
        <3>2. id # id2
            BY DEF SandboxNodeId, ExplorerId, ResourceID
        <3>3. PartCharts(q, k, j) = <<node>> \o <<path>> /\ PartIds(k, j) = {id} \cup {id2}
            BY <2>3 DEF PartCharts, PartIds
        <3> HIDE DEF node, id, e, path, id2
        <3>4. Line(q, {id2}, <<path>>, apart)
            BY <3>1, BeginsAppend, SingleLine
        <3>5. Line(q, {id} \cup {id2}, <<node>> \o <<path>>, apart)
            BY <2>2, <3>2, <3>4, JoinLines
        <3> QED
            BY <3>3, <3>5
    <2>4. CASE ~Explored(k, j)
        <3>1. PartCharts(q, k, j) = <<node>> \o <<>> /\ PartIds(k, j) = {id} \cup {}
            BY <2>4 DEF PartCharts, PartIds
        <3> HIDE DEF node, id
        <3>2. Line(q, {id} \cup {}, <<node>> \o <<>>, apart)
            BY <2>2, NoLine, JoinLines
        <3> QED
            BY <3>1, <3>2
    <2> QED
        BY <2>3, <2>4
<1>4. ASSUME NEW i \in 1..n
      PROVE  LET k == c.configs[i] IN
             /\ IsSeq(parts(k)) /\ Len(parts(k)) = Len(k.nodes)
             /\ \A j \in 1..Len(k.nodes) : /\ parts(k)[j] = PartCharts(q, k, j)
                                           /\ Line(q, PartIds(k, j), parts(k)[j], apart)
             /\ Line(q, ConfigIds(k, i), line(k, i), apart)
    <2> DEFINE k == c.configs[i]
               l == Len(k.nodes)
               f == [j \in 1..l |-> PartCharts(q, k, j)]
               ids == [j \in 1..l |-> PartIds(k, j)]
               X == UNION {PartIds(k, j) : j \in 1..l}
               id == NetworkId(k.nodes[1], i)
    <2>1. ValidConfig(k) /\ l \in Nat
        BY SeqFacts DEF ValidChains, ValidConfig
    <2>2. apart => \A j, m \in 1..l : j # m => PartIds(k, j) \cap PartIds(k, m) = {}
        BY ChainIdsApart
    <2>3. Begins(map(k, i), q, id)
        BY NetworkSound
    <2>4. id \notin X
        BY DEF PartIds, SandboxNodeId, ExplorerId, NetworkId, ResourceID
    <2>5. ConfigIds(k, i) = X \cup {id}
        BY DEF ConfigIds
    <2> HIDE DEF k
    <2>6. \A j \in 1..l : Line(q, PartIds(k, j), PartCharts(q, k, j), apart)
        BY <1>3, <2>1
    <2> HIDE DEF l
    <2>7. /\ IsSeq(f) /\ Len(f) = l
          /\ \A j \in 1..l : f[j] = PartCharts(q, k, j) /\ ids[j] = PartIds(k, j)
        <3> HIDE DEF k
        <3>1. \A j \in 1..l : f[j] = PartCharts(q, k, j) /\ ids[j] = PartIds(k, j)
            OBVIOUS
        <3>2. f = [j \in 1..l |-> f[j]]
            OBVIOUS
        <3> HIDE DEF f
        <3> QED
            BY <2>1, <3>1, <3>2, LoopSeq
    <2>8. parts(k) = f
        BY DEF l
    <2> HIDE DEF f, ids
    <2>9. Line(q, UNION {ids[j] : j \in 1..Len(f)}, FlattenSeq(f), apart)
        <3>1. /\ \A j \in 1..Len(f) : Line(q, ids[j], f[j], apart)
              /\ apart => \A j, m \in 1..Len(f) : j # m => ids[j] \cap ids[m] = {}
            BY <2>2, <2>6, <2>7
        <3> QED
            BY <2>7, <3>1, FlattenLine
    <2>10. UNION {ids[j] : j \in 1..Len(f)} = X
        BY <2>7
    <2>11. Line(q, {id}, <<map(k, i)>>, apart)
        <3> HIDE DEF map, id
        <3> QED
            BY <2>3, SingleLine
    <2> HIDE DEF X, id, map
    <2>12. Line(q, X \cup {id}, FlattenSeq(f) \o <<map(k, i)>>, apart)
        BY <2>4, <2>9, <2>10, <2>11, JoinLines
    <2> QED
        BY <2>5, <2>6, <2>7, <2>8, <2>12 DEF k, l
<1> DEFINE ids == [i \in 1..n |-> ConfigIds(c.configs[i], i)]
<1>5. apart => \A i, m \in 1..n : i # m => ids[i] \cap ids[m] = {}
    BY ChainIdsApart
<1>6. /\ \A i \in 1..n : lines[i] = line(c.configs[i], i) /\ ids[i] = ConfigIds(c.configs[i], i)
      /\ lines = [i \in 1..n |-> lines[i]]
    <2> HIDE DEF line
    <2> QED
        OBVIOUS
<1>7. UNION {ids[i] : i \in 1..n} = ChainsIds(c)
    BY DEF ChainsIds
<1> HIDE DEF lines, ids, n
<1>8. IsSeq(lines) /\ Len(lines) = n
    BY <1>1, <1>6, LoopSeq
<1>9. \A i \in 1..n : Line(q, ids[i], lines[i], apart)
    BY <1>4, <1>6
<1>10. Line(q, ChainsIds(c), all, apart)
    <2>1. /\ \A i \in 1..Len(lines) : Line(q, ids[i], lines[i], apart)
          /\ apart => \A i, m \in 1..Len(lines) : i # m => ids[i] \cap ids[m] = {}
        BY <1>5, <1>8, <1>9
    <2>2. Line(q, UNION {ids[i] : i \in 1..Len(lines)}, all, apart)
        BY <1>8, <2>1, FlattenLine
    <2> QED
        BY <1>7, <1>8, <2>2
<1>11. ASSUME NEW i \in 1..n, c.configs[i].explorer # <<>>
       PROVE  \E m \in 1..Len(all) - 1 :
                  /\ all[m] = SandboxChart(q, c.configs[i].nodes[1])
                  /\ all[m + 1] = ExplorerPath(q, c.configs[i].explorer[1])
    <2> DEFINE k == c.configs[i]
               f == parts(k)
               s == FlattenSeq(f)
               chart == SandboxChart(q, k.nodes[1])
               path == ExplorerPath(q, k.explorer[1])
    <2>1. /\ IsSeq(f) /\ Len(f) = Len(k.nodes) /\ 1 \in 1..Len(f)
          /\ \A j \in 1..Len(f) : IsSeq(f[j])
          /\ f[1] = PartCharts(q, k, 1)
        <3>1. ValidConfig(k)
            BY DEF ValidChains, n
        <3>2. Len(k.nodes) \in Nat /\ Len(k.nodes) >= 1
            BY <3>1, SeqFacts DEF ValidConfig
        <3>3. 1 \in 1..Len(k.nodes)
            BY <3>2
        <3> HIDE DEF k, f
        <3>4. /\ IsSeq(f) /\ Len(f) = Len(k.nodes)
              /\ \A j \in 1..Len(k.nodes) : /\ f[j] = PartCharts(q, k, j)
                                            /\ Line(q, PartIds(k, j), f[j], apart)
            BY <1>4 DEF k, f
        <3> QED
            BY <3>3, <3>4 DEF Line
    <2>2. f[1] = <<chart>> \o <<path>>
        BY <1>11, <2>1 DEF PartCharts, Explored
    <2> HIDE DEF f, chart, path
    <2>3. Len(f[1]) = 2 /\ f[1][1] = chart /\ f[1][2] = path
        BY <2>2
    <2>4. IsSeq(s) /\ \E place : IsPlacement(place, Len(f), f, s)
        BY <2>1, FlattenFacts
    <2>5. PICK place : IsPlacement(place, Len(f), f, s)
        BY <2>4
    <2> DEFINE a == place[1]
    <2> HIDE DEF s
    <2>6. a \in Nat /\ a + 2 <= Len(s) /\ s[a + 1] = chart /\ s[a + 2] = path
        <3>1. 1 \in 1..2 /\ 2 \in 1..2
            OBVIOUS
        <3>2. /\ place[1] \in Nat /\ place[1] + Len(f[1]) <= Len(s)
              /\ \A j \in 1..Len(f[1]) : s[place[1] + j] = f[1][j]
            BY <2>1, <2>5 DEF IsPlacement
        <3> QED
            BY <3>1, <3>2, <2>3
    <2> HIDE DEF a
    <2>7. lines[i] = s \o <<map(k, i)>>
        BY <1>6 DEF s, f
    <2> HIDE DEF k, map
    <2>8. /\ Len(lines[i]) = Len(s) + 1 /\ Len(s) \in Nat
          /\ \A j \in 1..Len(s) : lines[i][j] = s[j]
        BY <2>4, <2>7, ConcatFacts, SingleFacts, SeqFacts DEF s
    <2>9. /\ IsSeq(all) /\ \E place2 : IsPlacement(place2, n, lines, all)
        <3>1. \A j \in 1..Len(lines) : IsSeq(lines[j])
            BY <1>8, <1>9 DEF Line
        <3> QED
            BY <1>8, <3>1, FlattenFacts
    <2>10. PICK place2 : IsPlacement(place2, n, lines, all)
        BY <2>9
    <2> DEFINE b == place2[i]
    <2>11. /\ b \in Nat /\ b + Len(lines[i]) <= Len(all) /\ Len(all) \in Nat
           /\ \A j \in 1..Len(lines[i]) : all[b + j] = lines[i][j]
        BY <2>9, <2>10, SeqFacts DEF IsPlacement
    <2> HIDE DEF all, b
    <2>12. /\ a + 1 \in 1..Len(s) /\ a + 2 \in 1..Len(s)
           /\ a + 1 \in 1..Len(lines[i]) /\ a + 2 \in 1..Len(lines[i])
        BY <2>6, <2>8
    <2>13. all[b + (a + 1)] = chart /\ all[b + (a + 2)] = path
        BY <2>6, <2>8, <2>11, <2>12
    <2> DEFINE m == b + (a + 1)
    <2>14. m \in 1..Len(all) - 1 /\ m + 1 = b + (a + 2)
        BY <2>6, <2>8, <2>11
    <2> HIDE DEF m
    <2>15. all[m] = chart /\ all[m + 1] = path
        BY <2>13, <2>14 DEF m
    <2> QED
        BY <2>14, <2>15 DEF chart, path, k
<1> QED
    BY <1>2, <1>10, <1>11 DEF n

(* The order of the loop is the order of the charts' places.               *)
LEMMA ChartsInOrder ==
    ASSUME NEW c \in Component, c.type = "chains", Valid(c), ~HasTwins(c)
    PROVE  LET q == Append(Root, ChainsPlace(c))
               all == ChainCharts(q, c)
           IN  /\ \A m \in 1..Len(all) - 1 : Later(all[m + 1], all[m])
               /\ \A i \in 1..Len(c.configs) : c.configs[i].explorer # <<>> =>
                      Later(ExplorerPath(q, c.configs[i].explorer[1]),
                            SandboxChart(q, c.configs[i].nodes[1]))
<1> DEFINE place == ChainsPlace(c)
           q == Append(Root, place)
           all == ChainCharts(q, c)
           X == ChainsIds(c)
<1>1. /\ IsSeq(Root) /\ Len(Root) = 1
    BY SingleFacts DEF Root
<1>2. IsSeq(q) /\ Len(q) = 2 /\ q[2] = place
    <2> HIDE DEF place
    <2>1. IsSeq(q) /\ Len(q) = Len(Root) + 1 /\ q[Len(Root) + 1] = place
        BY <1>1, AppendFacts
    <2> HIDE DEF q
    <2> QED
        BY <1>1, <2>1
<1>3. ValidChains(c) /\ Exported(c).configs = c.configs
    BY ValidChainsFacts
<1>4. place[1] = "sdk.Blockchains" /\ place[2] = Exported(c)
    BY DEF ResourceID, ChainsPlace
<1> HIDE DEF q
<1>5. /\ Line(q, X, all, TRUE)
      /\ \A i \in 1..Len(c.configs) : c.configs[i].explorer # <<>> =>
             \E m \in 1..Len(all) - 1 :
                 /\ all[m] = SandboxChart(q, c.configs[i].nodes[1])
                 /\ all[m + 1] = ExplorerPath(q, c.configs[i].explorer[1])
    <2> DEFINE apart == TRUE
    <2>1. apart \in BOOLEAN /\ (apart => ~HasTwins(c))
        OBVIOUS
    <2> HIDE DEF apart
    <2>2. /\ Line(q, X, all, apart)
          /\ \A i \in 1..Len(c.configs) : c.configs[i].explorer # <<>> =>
                 \E m \in 1..Len(all) - 1 :
                     /\ all[m] = SandboxChart(q, c.configs[i].nodes[1])
                     /\ all[m + 1] = ExplorerPath(q, c.configs[i].explorer[1])
        BY <1>2, <1>3, <2>1, ChartsInLine
    <2> QED
        BY <2>2 DEF apart
<1>6. ChainCharts(q, Exported(c)) = all
    BY <1>3 DEF ChainCharts
<1> HIDE DEF all, place
<1>7. ASSUME NEW m \in 1..Len(all)
      PROVE  Begins(all[m], q, all[m][3]) /\ Rank(place, all[m][3]) = m
    <2>1. Begins(all[m], q, all[m][3])
        BY <1>2, <1>5 DEF Line, Begins
    <2>2. \A l \in 1..Len(all) : all[l][3] = all[m][3] => l = m
        BY <1>2, <1>5 DEF Line
    <2>3. PlaceOf(place, all[m][3]) = m
        <3>1. PlaceOf(place, all[m][3]) = CHOOSE l \in 1..Len(all) : all[l][3] = all[m][3]
            BY <1>4, <1>6 DEF PlaceOf, q
        <3> QED
            BY <2>2, <3>1
    <2>4. Rank(place, all[m][3]) = PlaceOf(place, all[m][3])
        BY <1>4 DEF Rank
    <2> QED
        BY <2>1, <2>3, <2>4
<1>8. Len(all) \in Nat
    BY <1>5, SeqFacts DEF Line
<1>9. ASSUME NEW m \in 1..Len(all) - 1 PROVE Later(all[m + 1], all[m])
    <2> DEFINE a == all[m + 1]
               b == all[m]
               x == a[3]
               y == b[3]
    <2>1. m \in 1..Len(all) /\ m + 1 \in 1..Len(all) /\ m \in Nat /\ m + 1 \in Nat /\ m < m + 1
        BY <1>8
    <2>2. /\ Begins(a, q, x) /\ Rank(place, x) = m + 1
          /\ Begins(b, q, y) /\ Rank(place, y) = m
        BY <1>7, <2>1
    <2>3. q[Len(q)] = place /\ Len(q) >= 1
        BY <1>2
    <2> HIDE DEF a, b, x, y
    <2>4. Later(a, b)
        BY <1>2, <2>1, <2>2, <2>3, SiblingFirst
    <2> QED
        BY <2>4 DEF a, b
<1> QED
    BY <1>5, <1>9 DEF q, place, all

(* The steps of one config, for the order of its explorer.                 *)
PartOwes(k, j) == IF Explored(k, j) THEN {k.explorer[1].target} ELSE {}

LEMMA PartSound ==
    ASSUME NEW q, NEW k, NEW j \in 1..Len(k.nodes), NEW apart \in BOOLEAN, IsSeq(q),
           ValidConfig(k),
           apart /\ k.explorer # <<>> =>
               Later(ExplorerPath(q, k.explorer[1]), SandboxChart(q, k.nodes[1]))
    PROVE  /\ Block(q, PartIds(k, j), PartSteps(q, k, j), apart)
           /\ apart => Sound(PartSteps(q, k, j), PartOwes(k, j))
           /\ \E x \in Makes(PartSteps(q, k, j)) : x.path = SandboxNodePath(q, k.nodes[j])
           /\ Explored(k, j) => \E x \in Makes(PartSteps(q, k, j)) :
                                    x.path = ExplorerPath(q, k.explorer[1])
           /\ <<SandboxChart(q, k.nodes[j]),
                Endpoint(k.nodes[j].ns, k.nodes[j].service, k.nodes[j].ports)>>
                  \in Offers(PartSteps(q, k, j))
<1> DEFINE n == k.nodes[j]
           e == k.explorer[1]
           id == SandboxNodeId(n)
           id2 == ExplorerId(e)
           first == SandboxChart(q, k.nodes[1])
           path == ExplorerPath(q, e)
           endpoint == <<SandboxChart(q, n), Endpoint(n.ns, n.service, n.ports)>>
           s1 == blockchainNode(q, n)
           s2 == blockchainExplorer(q, e)
           s3 == AddDependency(path, first)
           t == PartSteps(q, k, j)
<1>1. n.type \in {"anvil", "aptos"}
    BY DEF ValidConfig
<1>2. /\ Block(q, {id}, s1, apart) /\ Sound(s1, {}) /\ endpoint \in Offers(s1)
      /\ \E x \in Makes(s1) : x.path = SandboxNodePath(q, n)
    <2> HIDE DEF n
    <2> QED
        BY <1>1, SandboxNodeSound
<1>3. /\ Block(q, {id2}, s2, apart) /\ Sound(s2, {e.target})
      /\ \E x \in Makes(s2) : x.path = path
    <2> HIDE DEF e
    <2> QED
        BY ExplorerSound
<1>4. Block(q, {}, s3, apart) /\ Acts(s3, {}, {}, {}, {<<path, first>>})
    <2> HIDE DEF path, first
    <2> QED
        BY DependBlock
<1>5. id # id2
    BY DEF SandboxNodeId, ExplorerId, ResourceID
<1>6. ASSUME apart, k.explorer # <<>> PROVE Sound(s3, {})
    <2>1. Later(path, first)
        BY <1>6
    <2> HIDE DEF path, first, s3
    <2>2. \A d \in {<<path, first>>} : Later(d[1], d[2])
        BY <2>1
    <2> QED
        BY <1>4, <2>2, SoundActs
<1>7. CASE Explored(k, j)
    <2>1. /\ t = s1 \o (s2 \o s3) /\ PartIds(k, j) = {id} \cup ({id2} \cup {})
          /\ PartOwes(k, j) = {} \cup ({e.target} \cup {}) /\ k.explorer # <<>>
        BY <1>7 DEF PartSteps, PartIds, PartOwes, Explored
    <2> DEFINE target == {e.target}
    <2> HIDE DEF n, e, id, id2, first, path, endpoint, s1, s2, s3, t, target
    <2>2. Block(q, {id2} \cup {}, s2 \o s3, apart)
        BY <1>3, <1>4, JoinBlocks
    <2>3. Block(q, {id} \cup ({id2} \cup {}), s1 \o (s2 \o s3), apart)
        BY <1>2, <1>5, <2>2, JoinBlocks
    <2>4. IsSeq(s1) /\ IsSeq(s2) /\ IsSeq(s3)
        BY <1>2, <1>3, <1>4 DEF Block
    <2>5. /\ IsSeq(s2 \o s3) /\ Makes(s2 \o s3) = Makes(s2) \cup Makes(s3)
        BY <2>4, JoinActs
    <2>6. /\ Makes(s1 \o (s2 \o s3)) = Makes(s1) \cup Makes(s2 \o s3)
          /\ Offers(s1 \o (s2 \o s3)) = Offers(s1) \cup Offers(s2 \o s3)
        BY <2>4, <2>5, JoinActs
    <2>7. ASSUME apart PROVE Sound(s1 \o (s2 \o s3), {} \cup (target \cup {}))
        <3>1. Sound(s2 \o s3, target \cup {})
            BY <1>3, <1>6, <2>1, <2>4, <2>7, JoinSound DEF target
        <3> DEFINE owed == target \cup {}
        <3> HIDE DEF owed
        <3> QED
            BY <1>2, <2>4, <2>5, <3>1, JoinSound DEF owed
    <2> QED
        BY <1>2, <1>3, <2>1, <2>3, <2>5, <2>6, <2>7 DEF n, e, path, endpoint, t, target
<1>8. CASE ~Explored(k, j)
    <2>1. t = s1 \o <<>> /\ PartIds(k, j) = {id} \cup {} /\ PartOwes(k, j) = {} \cup {}
        BY <1>8 DEF PartSteps, PartIds, PartOwes
    <2>2. Block(q, {}, <<>>, apart) /\ IsSeq(<<>>)
        BY NoneBlock, NoneFacts
    <2>3. Sound(<<>>, {})
        <3>1. Acts(<<>>, {}, {}, {}, {})
            BY NoneBlock
        <3> QED
            BY <3>1, SoundActs
    <2> HIDE DEF n, id, endpoint, s1, t
    <2>4. IsSeq(s1)
        BY <1>2 DEF Block
    <2>5. Block(q, {id} \cup {}, s1 \o <<>>, apart)
        BY <1>2, <2>2, JoinBlocks
    <2>6. Sound(s1 \o <<>>, {} \cup {})
        BY <1>2, <2>2, <2>3, <2>4, JoinSound
    <2>7. /\ Makes(s1 \o <<>>) = Makes(s1) \cup Makes(<<>>)
          /\ Offers(s1 \o <<>>) = Offers(s1) \cup Offers(<<>>)
        BY <2>2, <2>4, JoinActs
    <2> QED
        BY <1>2, <1>8, <2>1, <2>5, <2>6, <2>7 DEF n, endpoint, t
<1> QED
    BY <1>7, <1>8

(* What a config leaves to others: its explorer's endpoint, and that of an *)
(* Aptos node, which no chart provides.                                    *)
ConfigOwes(k) ==
    (IF k.explorer # <<>> THEN {k.explorer[1].target} ELSE {})
        \cup IF k.nodes[1].type = "anvil" THEN {} ELSE {NetworkNeeds(k.nodes[1])}

PartsApart(k) ==
    \A j, l \in 1..Len(k.nodes) : j # l => PartIds(k, j) \cap PartIds(k, l) = {}

ExplorerLater(q, k) ==
    k.explorer # <<>> => Later(ExplorerPath(q, k.explorer[1]), SandboxChart(q, k.nodes[1]))

Listens(k) ==
    k.nodes[1].type = "anvil" =>
        k.nodes[1].service = k.nodes[1].release /\ 8545 \in k.nodes[1].ports

LEMMA ConfigSound ==
    ASSUME NEW q, NEW k, NEW i, NEW apart \in BOOLEAN, IsSeq(q), ValidConfig(k),
           apart => PartsApart(k) /\ ExplorerLater(q, k)
    PROVE  LET s == ConfigSteps(q, k, i) IN
           /\ Block(q, ConfigIds(k, i), s, apart)
           /\ apart => \E brought : Sound(s, brought)
           /\ apart /\ Listens(k) => Sound(s, ConfigOwes(k))
           /\ \A j \in 1..Len(k.nodes) :
                  \E x \in Makes(s) : x.path = SandboxNodePath(q, k.nodes[j])
           /\ k.explorer # <<>> => \E x \in Makes(s) : x.path = ExplorerPath(q, k.explorer[1])
           /\ (\E j, l \in 1..Len(k.nodes) : j # l /\ k.nodes[j] = k.nodes[l]) => ~Apart(s)
<1> DEFINE size == Len(k.nodes)
           n == k.nodes[1]
           parts == [j \in 1..size |-> PartSteps(q, k, j)]
           ids == [j \in 1..size |-> PartIds(k, j)]
           owes == [j \in 1..size |-> PartOwes(k, j)]
           X == UNION {PartIds(k, j) : j \in 1..size}
           id == NetworkId(n, i)
           s1 == FlattenSeq(parts)
           s2 == networkInfo(q, n, i)
           s == s1 \o s2
<1>1. size \in Nat /\ DOMAIN k.nodes = 1..size /\ 1 \in 1..size
    BY SeqFacts DEF ValidConfig
<1>2. ConfigSteps(q, k, i) = s
    BY <1>1 DEF ConfigSteps, PartSteps, Explored
<1>3. ConfigIds(k, i) = X \cup {id}
    BY DEF ConfigIds
<1>4. id \notin X
    BY DEF PartIds, SandboxNodeId, ExplorerId, NetworkId, ResourceID
<1>5. \A j \in 1..size :
          /\ Block(q, PartIds(k, j), PartSteps(q, k, j), apart)
          /\ apart => Sound(PartSteps(q, k, j), PartOwes(k, j))
          /\ \E x \in Makes(PartSteps(q, k, j)) : x.path = SandboxNodePath(q, k.nodes[j])
          /\ Explored(k, j) => \E x \in Makes(PartSteps(q, k, j)) :
                                   x.path = ExplorerPath(q, k.explorer[1])
          /\ <<SandboxChart(q, k.nodes[j]),
               Endpoint(k.nodes[j].ns, k.nodes[j].service, k.nodes[j].ports)>>
                 \in Offers(PartSteps(q, k, j))
    BY PartSound DEF ExplorerLater
<1>6. Block(q, {id}, s2, apart) /\ Sound(s2, {NetworkNeeds(n)})
    <2> HIDE DEF n
    <2> QED
        BY NetworkSound
<1>7. /\ \A j \in 1..size : /\ parts[j] = PartSteps(q, k, j) /\ ids[j] = PartIds(k, j)
                         /\ owes[j] = PartOwes(k, j)
    <2> HIDE DEF size
    <2> QED
        OBVIOUS
<1>7a. parts = [j \in 1..size |-> parts[j]]
    <2> HIDE DEF size
    <2> QED
        OBVIOUS
<1> HIDE DEF size, parts, ids, owes, s2
<1>8. IsSeq(parts) /\ Len(parts) = size /\ \A j \in 1..size : IsSeq(parts[j])
    BY <1>1, <1>5, <1>7, <1>7a, LoopSeq DEF Block
<1>9. Block(q, X, s1, apart)
    <2>1. /\ \A j \in 1..Len(parts) : Block(q, ids[j], parts[j], apart)
          /\ apart => \A j, m \in 1..Len(parts) : j # m => ids[j] \cap ids[m] = {}
        BY <1>5, <1>7, <1>8 DEF size, PartsApart
    <2>2. Block(q, UNION {ids[j] : j \in 1..Len(parts)}, s1, apart)
        BY <1>8, <2>1, FlattenBlock
    <2>3. UNION {ids[j] : j \in 1..Len(parts)} = X
        BY <1>7, <1>8
    <2> HIDE DEF X
    <2> QED
        BY <2>2, <2>3
<1> DEFINE Y == UNION {owes[j] : j \in 1..size}
<1>10. apart => Sound(s1, Y)
    <2>1. apart => \A j \in 1..Len(parts) : IsSeq(parts[j]) /\ Sound(parts[j], owes[j])
        BY <1>5, <1>7, <1>8
    <2>2. apart => Sound(s1, UNION {owes[j] : j \in 1..Len(parts)})
        BY <1>8, <2>1, FlattenSound
    <2> QED
        BY <1>8, <2>2
<1>11. /\ IsSeq(s1) /\ Makes(s1) = UNION {Makes(parts[j]) : j \in 1..size}
       /\ Offers(s1) = UNION {Offers(parts[j]) : j \in 1..size}
    BY <1>8, FlattenActs
<1>12. \A need \in Y : k.explorer # <<>> /\ need = k.explorer[1].target
    BY <1>7 DEF PartOwes, Explored
<1>13. (\E j, m \in 1..size : j # m /\ k.nodes[j] = k.nodes[m]) => ~Apart(s1)
    <2> SUFFICES ASSUME NEW j \in 1..size, NEW m \in 1..size, j # m, k.nodes[j] = k.nodes[m]
                 PROVE  ~Apart(s1)
        OBVIOUS
    <2>1. PICK x \in Makes(parts[j]) : x.path = SandboxNodePath(q, k.nodes[j])
        BY <1>5, <1>7
    <2>2. PICK y \in Makes(parts[m]) : y.path = SandboxNodePath(q, k.nodes[m])
        BY <1>5, <1>7
    <2>3. \E a, b \in 1..Len(parts) :
              a # b /\ \E u \in Makes(parts[a]), v \in Makes(parts[b]) : u.path = v.path
        BY <1>8, <2>1, <2>2
    <2> QED
        BY <1>8, <2>3, ClashFlatten
<1>14. /\ \A j \in 1..size : \E x \in Makes(s1) : x.path = SandboxNodePath(q, k.nodes[j])
       /\ k.explorer # <<>> => \E x \in Makes(s1) : x.path = ExplorerPath(q, k.explorer[1])
       /\ <<SandboxChart(q, n), Endpoint(n.ns, n.service, n.ports)>> \in Offers(s1)
    <2>1. ASSUME NEW j \in 1..size
          PROVE  \E x \in Makes(s1) : x.path = SandboxNodePath(q, k.nodes[j])
        <3>1. PICK x \in Makes(parts[j]) : x.path = SandboxNodePath(q, k.nodes[j])
            BY <1>5, <1>7
        <3> QED
            BY <1>11, <3>1
    <2>2. ASSUME k.explorer # <<>>
          PROVE  \E x \in Makes(s1) : x.path = ExplorerPath(q, k.explorer[1])
        <3>1. PICK x \in Makes(parts[1]) : x.path = ExplorerPath(q, k.explorer[1])
            BY <1>1, <1>5, <1>7, <2>2 DEF Explored
        <3> QED
            BY <1>1, <1>11, <3>1
    <2>3. <<SandboxChart(q, n), Endpoint(n.ns, n.service, n.ports)>> \in Offers(s1)
        <3> DEFINE o == <<SandboxChart(q, n), Endpoint(n.ns, n.service, n.ports)>>
        <3>1. o \in Offers(parts[1])
            BY <1>1, <1>5, <1>7
        <3> HIDE DEF o
        <3>2. o \in Offers(s1)
            BY <1>1, <1>11, <3>1
        <3> QED
            BY <3>2 DEF o
    <2> QED
        BY <2>1, <2>2, <2>3
<1>15. Listens(k) /\ n.type = "anvil" => Meets(Endpoint(n.ns, n.service, n.ports), NetworkNeeds(n))
    BY DEF Listens, Meets, Endpoint, NetworkNeeds
<1> HIDE DEF X, Y, id, s1
<1>16. Block(q, X \cup {id}, s, apart)
    BY <1>4, <1>6, <1>9, JoinBlocks
<1>17. IsSeq(s2)
    BY <1>6 DEF Block
<1>18. Makes(s) = Makes(s1) \cup Makes(s2) /\ Offers(s) = Offers(s1) \cup Offers(s2)
    BY <1>11, <1>17, JoinActs
<1> DEFINE Z == {NetworkNeeds(n)}
<1>21. apart => Sound(s, Y \cup Z)
    <2>1. Sound(s2, Z)
        BY <1>6
    <2> HIDE DEF Z
    <2> QED
        BY <1>10, <1>11, <1>17, <2>1, JoinSound
<1>19. ASSUME apart, Listens(k) PROVE Sound(s, ConfigOwes(k))
    <2>1. Sound(s, Y \cup Z)
        BY <1>19, <1>21
    <2>2. \A need \in Y \cup Z : need \in ConfigOwes(k) \/ Answers(s, need)
        <3>1. \A need \in Y : need \in ConfigOwes(k)
            BY <1>12 DEF ConfigOwes
        <3>2. n.type = "anvil" => Answers(s, NetworkNeeds(n))
            <4> DEFINE o == <<SandboxChart(q, n), Endpoint(n.ns, n.service, n.ports)>>
            <4>1. o \in Offers(s) /\ o[2] = Endpoint(n.ns, n.service, n.ports)
                BY <1>14, <1>18
            <4> HIDE DEF o
            <4> QED
                BY <1>15, <1>19, <4>1 DEF Answers
        <3>3. n.type # "anvil" => NetworkNeeds(n) \in ConfigOwes(k)
            BY DEF ConfigOwes
        <3> QED
            BY <3>1, <3>2, <3>3
    <2> DEFINE W == Y \cup Z
    <2> HIDE DEF W
    <2> QED
        BY <2>1, <2>2, SettleSound DEF W
<1>20. ~Apart(s1) => ~Apart(s)
    BY <1>11, <1>17, ClashJoin
<1> HIDE DEF s, n, Z
<1> QED
    BY <1>2, <1>3, <1>13, <1>14, <1>16, <1>18, <1>19, <1>20, <1>21 DEF size

ChainsOwe(c) == UNION {ConfigOwes(c.configs[i]) : i \in 1..Len(c.configs)}

LEMMA SequenceOrder ==
    ASSUME NEW q, NEW all, NEW apart \in BOOLEAN, NEW sequential \in BOOLEAN, IsSeq(all)
    PROVE  LET s == IF sequential
                    THEN FlattenSeq([i \in 1..(Len(all) - 1) |-> AddDependency(all[i + 1], all[i])])
                    ELSE <<>>
           IN  /\ Block(q, {}, s, apart)
               /\ (\A m \in 1..Len(all) - 1 : Later(all[m + 1], all[m])) => Sound(s, {})
<1> DEFINE f == [i \in 1..(Len(all) - 1) |-> AddDependency(all[i + 1], all[i])]
           from == [i \in 1..(Len(all) - 1) |-> all[i + 1]]
           on == [i \in 1..(Len(all) - 1) |-> all[i]]
           s == FlattenSeq(f)
<1>1. Block(q, {}, <<>>, apart) /\ Sound(<<>>, {})
    <2>1. Block(q, {}, <<>>, apart) /\ Acts(<<>>, {}, {}, {}, {})
        BY NoneBlock
    <2> QED
        BY <2>1, SoundActs
<1>2. \E n \in Nat : 1..(Len(all) - 1) = 1..n
    <2>1. Len(all) \in Nat
        BY SeqFacts
    <2>2. CASE Len(all) = 0
        <3>1. 1..(Len(all) - 1) = 1..0 /\ 0 \in Nat
            BY <2>2
        <3> QED
            BY <3>1
    <2>3. CASE Len(all) # 0
        <3>1. Len(all) - 1 \in Nat
            BY <2>1, <2>3
        <3> QED
            BY <3>1
    <2> QED
        BY <2>2, <2>3
<1>3. PICK n \in Nat : 1..(Len(all) - 1) = 1..n
    BY <1>2
<1>4. \A i \in 1..n : f[i] = AddDependency(from[i], on[i]) /\ from[i] = all[i + 1] /\ on[i] = all[i]
    BY <1>3
<1>5. f = [i \in 1..n |-> f[i]]
    BY <1>3
<1> HIDE DEF f, from, on
<1>6. IsSeq(f) /\ Len(f) = n
    BY <1>5, LoopSeq
<1>7. DependEach(f, from, on)
    BY <1>4, <1>6 DEF DependEach
<1>8. /\ Block(q, {}, s, apart)
      /\ Acts(s, {}, {}, {}, {<<from[i], on[i]>> : i \in 1..Len(f)})
    BY <1>7, DependLoop
<1> HIDE DEF s
<1>9. ASSUME \A m \in 1..Len(all) - 1 : Later(all[m + 1], all[m]) PROVE Sound(s, {})
    <2> DEFINE D == {<<from[i], on[i]>> : i \in 1..Len(f)}
    <2>1. \A e \in D : Later(e[1], e[2])
        BY <1>3, <1>4, <1>6, <1>9
    <2> HIDE DEF D
    <2>2. Acts(s, {}, {}, {}, D)
        BY <1>8 DEF D
    <2> QED
        BY <2>1, <2>2, SoundActs
<1> QED
    BY <1>1, <1>8, <1>9 DEF s, f

LEMMA ChainsSound ==
    ASSUME NEW c \in Component, c.type = "chains", Valid(c),
           NEW apart \in BOOLEAN, apart => ~HasTwins(c)
    PROVE  LET s == blockchains(Root, c) IN
           /\ Block(Root, {ChainsPlace(c)}, s, apart)
           /\ apart => \E brought : Sound(s, brought)
           /\ apart /\ Coherent(c) => Sound(s, ChainsOwe(c))
           /\ HasTwins(c) => ~Apart(s)
<1> DEFINE place == ChainsPlace(c)
           q == Append(Root, place)
           all == ChainCharts(q, c)
           n == Len(c.configs)
           parts == [i \in 1..n |-> ConfigSteps(q, c.configs[i], i)]
           ids == [i \in 1..n |-> ConfigIds(c.configs[i], i)]
           owes == [i \in 1..n |-> ConfigOwes(c.configs[i])]
           X == UNION {ids[i] : i \in 1..n}
           s0 == NewChart(q)
           s1 == FlattenSeq(parts)
           s2 == IF c.sequential
                 THEN FlattenSeq([i \in 1..(Len(all) - 1) |-> AddDependency(all[i + 1], all[i])])
                 ELSE <<>>
           s == s0 \o s1 \o s2
<1>1. IsSeq(Root) /\ IsSeq(q)
    <2>1. IsSeq(Root)
        BY SingleFacts DEF Root
    <2> QED
        BY <2>1, AppendFacts
<1>2. ValidChains(c) /\ c.sequential \in BOOLEAN
    BY ValidChainsFacts
<1>3. n \in Nat /\ DOMAIN c.configs = 1..n
    BY <1>2, SeqFacts DEF ValidChains
<1>4. blockchains(Root, c) = s
    BY <1>3 DEF blockchains, ChainsPlace, ChainCharts
<1>5. IsSeq(all)
    <2>1. Line(q, ChainsIds(c), all, apart)
        BY <1>1, <1>2, ChartsInLine
    <2> QED
        BY <2>1 DEF Line
<1>6. apart => /\ \A m \in 1..Len(all) - 1 : Later(all[m + 1], all[m])
               /\ \A i \in 1..n : ExplorerLater(q, c.configs[i])
    BY ChartsInOrder DEF ExplorerLater
<1>7. Block(q, {Self}, s0, apart) /\ Sound(s0, {})
    <2> HIDE DEF q
    <2>1. Block(q, {Self}, s0, apart) /\ Acts(s0, {}, {}, {}, {})
        BY <1>1, NewChartBlock
    <2> HIDE DEF s0
    <2> QED
        BY <2>1, SoundActs
<1>8. Block(q, {}, s2, apart) /\ (apart => Sound(s2, {}))
    <2> DEFINE sequential == c.sequential
    <2> HIDE DEF all, q, sequential
    <2> QED
        BY <1>2, <1>5, <1>6, SequenceOrder DEF sequential
<1>9. apart => \A i, m \in 1..n : i # m =>
          ConfigIds(c.configs[i], i) \cap ConfigIds(c.configs[m], m) = {}
    BY <1>2, ChainIdsApart
<1>10. apart => \A i \in 1..n : PartsApart(c.configs[i])
    BY <1>2, ChainIdsApart DEF PartsApart
<1>11. ASSUME NEW i \in 1..n
       PROVE  LET k == c.configs[i]
                  t == ConfigSteps(q, k, i)
              IN  /\ Block(q, ConfigIds(k, i), t, apart)
                  /\ apart => \E brought : Sound(t, brought)
                  /\ apart /\ Listens(k) => Sound(t, ConfigOwes(k))
                  /\ \A j \in 1..Len(k.nodes) :
                         \E x \in Makes(t) : x.path = SandboxNodePath(q, k.nodes[j])
                  /\ k.explorer # <<>> =>
                         \E x \in Makes(t) : x.path = ExplorerPath(q, k.explorer[1])
                  /\ (\E j, l \in 1..Len(k.nodes) : j # l /\ k.nodes[j] = k.nodes[l]) => ~Apart(t)
    <2>1. ValidConfig(c.configs[i])
        BY <1>2 DEF ValidChains
    <2> DEFINE k == c.configs[i]
    <2>2. ValidConfig(k) /\ (apart => PartsApart(k) /\ ExplorerLater(q, k))
        BY <1>6, <1>10, <2>1
    <2> DEFINE t == ConfigSteps(q, k, i)
    <2> HIDE DEF k, q
    <2>3. /\ Block(q, ConfigIds(k, i), t, apart)
          /\ apart => \E brought : Sound(t, brought)
          /\ apart /\ Listens(k) => Sound(t, ConfigOwes(k))
          /\ \A j \in 1..Len(k.nodes) :
                 \E x \in Makes(t) : x.path = SandboxNodePath(q, k.nodes[j])
          /\ k.explorer # <<>> => \E x \in Makes(t) : x.path = ExplorerPath(q, k.explorer[1])
          /\ (\E j, l \in 1..Len(k.nodes) : j # l /\ k.nodes[j] = k.nodes[l]) => ~Apart(t)
        BY <1>1, <2>2, ConfigSound
    <2> QED
        BY <2>3 DEF k
<1>12. Coherent(c) => \A i \in 1..n : Listens(c.configs[i])
    <2> SUFFICES ASSUME Coherent(c), NEW i \in 1..n PROVE Listens(c.configs[i])
        OBVIOUS
    <2>1. c.configs[i] \in ToSet(c.configs) /\ c.configs[i].nodes # <<>>
        <3>1. ValidConfig(c.configs[i])
            BY <1>2 DEF ValidChains
        <3>2. Len(c.configs[i].nodes) # 0
            BY <3>1 DEF ValidConfig
        <3>3. c.configs[i].nodes # <<>>
            BY <3>2, NoneFacts
        <3> QED
            BY <1>2, <3>3, SeqFacts DEF ValidChains
    <2> QED
        BY <2>1 DEF Coherent, Listens
<1>13. /\ \A i \in 1..n : /\ parts[i] = ConfigSteps(q, c.configs[i], i)
                          /\ ids[i] = ConfigIds(c.configs[i], i)
                          /\ owes[i] = ConfigOwes(c.configs[i])
    <2> HIDE DEF n
    <2> QED
        OBVIOUS
<1>14. parts = [i \in 1..n |-> parts[i]]
    <2> HIDE DEF n
    <2> QED
        OBVIOUS
<1>15. \A i \in 1..n : Self \notin ids[i]
    BY <1>13 DEF ConfigIds, PartIds, SandboxNodeId, ExplorerId, NetworkId, ResourceID, Self
<1>16. UNION {owes[i] : i \in 1..n} = ChainsOwe(c)
    BY <1>13 DEF ChainsOwe
<1> HIDE DEF q, all, parts, ids, owes, s0, s2
<1>17. IsSeq(parts) /\ Len(parts) = n /\ \A i \in 1..n : IsSeq(parts[i])
    <2>1. IsSeq(parts) /\ Len(parts) = n
        BY <1>3, <1>14, LoopSeq
    <2> QED
        BY <2>1, <1>11, <1>13 DEF Block
<1>18. /\ \A i \in 1..n : Block(q, ids[i], parts[i], apart)
       /\ apart => \A i, m \in 1..n : i # m => ids[i] \cap ids[m] = {}
    BY <1>9, <1>11, <1>13
<1>19. \A i \in 1..n : apart /\ Coherent(c) => Sound(parts[i], owes[i])
    BY <1>11, <1>12, <1>13
<1> HIDE DEF n
<1>20. Block(q, X, s1, apart)
    <2>1. /\ \A i \in 1..Len(parts) : Block(q, ids[i], parts[i], apart)
          /\ apart => \A i, m \in 1..Len(parts) : i # m => ids[i] \cap ids[m] = {}
        BY <1>17, <1>18
    <2>2. Block(q, UNION {ids[i] : i \in 1..Len(parts)}, s1, apart)
        BY <1>17, <2>1, FlattenBlock
    <2> QED
        BY <1>17, <2>2
<1>21. apart /\ Coherent(c) => Sound(s1, ChainsOwe(c))
    <2> SUFFICES ASSUME apart, Coherent(c) PROVE Sound(s1, ChainsOwe(c))
        OBVIOUS
    <2>1. \A i \in 1..Len(parts) : IsSeq(parts[i]) /\ Sound(parts[i], owes[i])
        BY <1>17, <1>19
    <2>2. Sound(s1, UNION {owes[i] : i \in 1..Len(parts)})
        BY <1>17, <2>1, FlattenSound
    <2> QED
        BY <1>16, <1>17, <2>2
<1>30. apart => \E brought : Sound(s1, brought)
    <2> SUFFICES ASSUME apart PROVE \E brought : Sound(s1, brought)
        OBVIOUS
    <2> DEFINE any == [i \in 1..Len(parts) |-> CHOOSE brought : Sound(parts[i], brought)]
    <2>1. \A i \in 1..Len(parts) : IsSeq(parts[i]) /\ \E brought : Sound(parts[i], brought)
        BY <1>11, <1>13, <1>17
    <2>2. \A i \in 1..Len(parts) : IsSeq(parts[i]) /\ Sound(parts[i], any[i])
        BY <2>1
    <2> HIDE DEF any
    <2>3. Sound(s1, UNION {any[i] : i \in 1..Len(parts)})
        BY <1>17, <2>2, FlattenSound
    <2> QED
        BY <2>3
<1>22. HasTwins(c) => ~Apart(s1)
    <2> SUFFICES ASSUME HasTwins(c) PROVE ~Apart(s1)
        OBVIOUS
    <2>1. \A i \in 1..n : DOMAIN c.configs[i].nodes = 1..Len(c.configs[i].nodes)
        BY <1>2, SeqFacts DEF ValidChains, ValidConfig, n
    <2>2. \E i, k \in 1..n :
              \/ /\ i # k /\ c.configs[i].explorer # <<>> /\ c.configs[k].explorer # <<>>
                 /\ c.configs[i].explorer[1] = c.configs[k].explorer[1]
              \/ \E j \in DOMAIN c.configs[i].nodes, l \in DOMAIN c.configs[k].nodes :
                    <<i, j>> # <<k, l>> /\ c.configs[i].nodes[j] = c.configs[k].nodes[l]
        BY <1>3 DEF HasTwins
    <2>3. PICK i, k \in 1..n :
              \/ /\ i # k /\ c.configs[i].explorer # <<>> /\ c.configs[k].explorer # <<>>
                 /\ c.configs[i].explorer[1] = c.configs[k].explorer[1]
              \/ \E j \in DOMAIN c.configs[i].nodes, l \in DOMAIN c.configs[k].nodes :
                    <<i, j>> # <<k, l>> /\ c.configs[i].nodes[j] = c.configs[k].nodes[l]
        BY <2>2
    <2>4. ASSUME i # k, NEW x \in Makes(parts[i]), NEW y \in Makes(parts[k]), x.path = y.path
          PROVE  ~Apart(s1)
        <3>1. \E a, b \in 1..Len(parts) :
                  a # b /\ \E u \in Makes(parts[a]), v \in Makes(parts[b]) : u.path = v.path
            BY <1>17, <2>4
        <3> QED
            BY <1>17, <3>1, ClashFlatten
    <2>5. CASE /\ i # k /\ c.configs[i].explorer # <<>> /\ c.configs[k].explorer # <<>>
               /\ c.configs[i].explorer[1] = c.configs[k].explorer[1]
        <3>1. PICK x \in Makes(parts[i]) : x.path = ExplorerPath(q, c.configs[i].explorer[1])
            BY <1>11, <1>13, <2>5
        <3>2. PICK y \in Makes(parts[k]) : y.path = ExplorerPath(q, c.configs[k].explorer[1])
            BY <1>11, <1>13, <2>5
        <3> QED
            BY <2>4, <2>5, <3>1, <3>2
    <2>6. ASSUME NEW j \in 1..Len(c.configs[i].nodes), NEW l \in 1..Len(c.configs[k].nodes),
                 <<i, j>> # <<k, l>>, c.configs[i].nodes[j] = c.configs[k].nodes[l]
          PROVE  ~Apart(s1)
        <3>1. CASE i # k
            <4>1. PICK x \in Makes(parts[i]) : x.path = SandboxNodePath(q, c.configs[i].nodes[j])
                BY <1>11, <1>13
            <4>2. PICK y \in Makes(parts[k]) : y.path = SandboxNodePath(q, c.configs[k].nodes[l])
                BY <1>11, <1>13
            <4> QED
                BY <2>4, <2>6, <3>1, <4>1, <4>2
        <3>2. CASE i = k
            <4>1. j # l
                BY <2>6, <3>2
            <4>2. ~Apart(parts[i])
                BY <1>11, <1>13, <2>6, <3>2, <4>1
            <4>3. \E a \in 1..Len(parts) : ~Apart(parts[a])
                BY <1>17, <4>2
            <4> QED
                BY <1>17, <4>3, ClashFlatten
        <3> QED
            BY <3>1, <3>2
    <2> QED
        BY <2>1, <2>3, <2>5, <2>6, ZenonT(60)
<1>23. Self \notin X
    BY <1>15
<1> HIDE DEF X, s1
<1>24. Block(q, {Self} \cup X, s0 \o s1, apart)
    BY <1>7, <1>20, <1>23, JoinBlocks
<1>25. Block(q, ({Self} \cup X) \cup {}, s, apart)
    BY <1>8, <1>24, JoinBlocks
<1>26. Block(Root, {place}, s, apart)
    <2> HIDE DEF place, s
    <2> QED
        BY <1>1, <1>25, LiftBlock DEF q
<1>27. IsSeq(s0) /\ IsSeq(s1) /\ IsSeq(s2) /\ IsSeq(s0 \o s1)
    BY <1>7, <1>8, <1>20, <1>24 DEF Block
<1>28. apart /\ Coherent(c) => Sound(s, ChainsOwe(c))
    <2> SUFFICES ASSUME apart, Coherent(c) PROVE Sound(s, ChainsOwe(c))
        OBVIOUS
    <2>1. Sound(s0 \o s1, {} \cup ChainsOwe(c))
        BY <1>7, <1>21, <1>27, JoinSound
    <2>2. Sound(s, ({} \cup ChainsOwe(c)) \cup {})
        BY <1>8, <1>27, <2>1, JoinSound
    <2>3. ({} \cup ChainsOwe(c)) \cup {} = ChainsOwe(c)
        OBVIOUS
    <2> QED
        BY <2>2, <2>3
<1>31. apart => \E brought : Sound(s, brought)
    <2> SUFFICES ASSUME apart PROVE \E brought : Sound(s, brought)
        OBVIOUS
    <2>1. PICK brought : Sound(s1, brought)
        BY <1>30
    <2>2. Sound(s0 \o s1, {} \cup brought)
        BY <1>7, <1>27, <2>1, JoinSound
    <2>3. Sound(s, ({} \cup brought) \cup {})
        BY <1>8, <1>27, <2>2, JoinSound
    <2> QED
        BY <2>3
<1>29. HasTwins(c) => ~Apart(s)
    <2> SUFFICES ASSUME HasTwins(c) PROVE ~Apart(s)
        OBVIOUS
    <2>1. ~Apart(s0 \o s1)
        BY <1>22, <1>27, ClashJoin
    <2> QED
        BY <1>27, <2>1, ClashJoin
<1> QED
    BY <1>4, <1>26, <1>28, <1>29, <1>31

----------------------------------------------------------------------------
(* The components of a plan: the ids their functions use in the App, and   *)
(* what they owe.                                                          *)
LEMMA RootFacts ==
    IsSeq(Root) /\ Len(Root) = 1 /\ Root[Len(Root)][1] # "sdk.Blockchains"
<1> DEFINE x == <<"root", "">>
<1>1. x[1] # "sdk.Blockchains"
    OBVIOUS
<1> HIDE DEF x
<1>2. IsSeq(<<x>>) /\ Len(<<x>>) = 1 /\ <<x>>[1] = x
    BY SingleFacts
<1>3. Root = <<x>>
    BY DEF Root, x
<1> QED
    BY <1>1, <1>2, <1>3

Commanding == {"aws", "kind", "kindCluster"}

Types == {"node", "nodeset", "jd", "anvil", "fake", "telepresence", "nginx", "aws", "kind",
          "kindCluster", "chains", "sandboxJD", "postgres", "configmap"}

LEMMA TypeFacts ==
    ASSUME NEW c \in Component
    PROVE  /\ c.type \in Types
           /\ c.type = "nodeset" => c.nodes \in Seq(STRING)
           /\ c.type = "fake" => c.ports \in Seq(STRING \X Nat)
           /\ c.type = "chains" => c.configs \in Seq(Chain)
BY DEF Component, Types

Place(c) ==
    CASE c.type = "node"         -> NodeId(c)
      [] c.type = "nodeset"      -> SetPlace(c)
      [] c.type = "jd"           -> JDPlace(c)
      [] c.type = "anvil"        -> AnvilPlace(c)
      [] c.type = "fake"         -> FakePlace(c)
      [] c.type = "telepresence" -> TelepresencePlace(c)
      [] c.type = "nginx"        -> NginxPlace
      [] c.type = "chains"       -> ChainsPlace(c)
      [] c.type = "sandboxJD"    -> JDPlace(c)
      [] c.type = "postgres"     -> PostgresPlace(c)
      [] c.type = "configmap"    -> ConfigMapPlace(c)

Ids(c) == IF c.type \in Commanding THEN {CommandId(k) : k \in Commands(c)} ELSE {Place(c)}

Owes(c) == IF c.type = "chains" THEN ChainsOwe(c) ELSE Brought(c)

LEMMA NoTwinsInside ==
    ASSUME NEW c, c.type # "chains", c.type # "fake"
    PROVE  ~HasTwins(c)
BY DEF HasTwins

LEMMA BringsNothing ==
    ASSUME NEW c, c.type # "chains", c.type # "node"
    PROVE  Owes(c) = {}
BY DEF Owes, Brought

LEMMA StepsSound ==
    ASSUME NEW c \in Component, Valid(c)
    PROVE  LET s == Steps(Root, c) IN
           /\ Block(Root, Ids(c), s, ~HasTwins(c))
           /\ Coherent(c) /\ Apart(s) => Sound(s, Owes(c))
<1> DEFINE s == Steps(Root, c)
           apart == ~HasTwins(c)
<1>1. IsSeq(Root) /\ Len(Root) >= 1 /\ Root[Len(Root)][1] # "sdk.Blockchains"
    BY RootFacts
<1>2. apart \in BOOLEAN /\ (apart => ~HasTwins(c))
    OBVIOUS
<1> HIDE DEF apart
<1>3. CASE c.type = "node"
    <2>1. s = chainlinkNode(Root, c) /\ Ids(c) = {NodeId(c)}
        BY <1>3 DEF Steps, Ids, Place, Commanding
    <2>2. Owes(c) = IF c.url = <<>> THEN {} ELSE {NodeNeeds(c)}
        BY <1>3 DEF Owes, Brought, NodeNeeds, NodeURL
    <2>3. /\ Block(Root, {NodeId(c)}, chainlinkNode(Root, c), apart)
          /\ Sound(chainlinkNode(Root, c), IF c.url = <<>> THEN {} ELSE {NodeNeeds(c)})
        <3> HIDE DEF s
        <3> QED
            BY <1>1, <1>2, NodeSound
    <2> HIDE DEF s
    <2> QED
        BY <2>1, <2>2, <2>3 DEF s, apart
<1>4. CASE c.type = "nodeset"
    <2>1. s = nodeSet(Root, c) /\ Ids(c) = {SetPlace(c)}
        BY <1>4 DEF Steps, Ids, Place, Commanding
    <2>2. Owes(c) = {} /\ c.nodes \in Seq(STRING) /\ c.nodes # <<>>
        BY <1>4, BringsNothing, TypeFacts DEF Valid
    <2> HIDE DEF s
    <2> QED
        BY <1>1, <1>2, <2>1, <2>2, NodeSetSound DEF s, apart
<1>5. CASE c.type = "jd"
    <2>1. s = jdComposite(Root, c) /\ Ids(c) = {JDPlace(c)}
        BY <1>5 DEF Steps, Ids, Place, Commanding
    <2>2. Owes(c) = {}
        BY <1>5, BringsNothing
    <2> HIDE DEF s
    <2> QED
        BY <1>1, <1>2, <2>1, <2>2, JDSound DEF s, apart
<1>6. CASE c.type = "anvil"
    <2>1. s = blockchain(Root, c) /\ Ids(c) = {AnvilPlace(c)}
        BY <1>6 DEF Steps, Ids, Place, Commanding
    <2>2. Owes(c) = {}
        BY <1>6, BringsNothing
    <2> HIDE DEF s
    <2> QED
        BY <1>1, <1>2, <2>1, <2>2, AnvilSound DEF s, apart
<1>7. CASE c.type = "fake"
    <2>1. s = fake(Root, c) /\ Ids(c) = {FakePlace(c)}
        BY <1>7 DEF Steps, Ids, Place, Commanding
    <2>2. Owes(c) = {} /\ IsSeq(c.ports)
        BY <1>7, BringsNothing, TypeFacts, SeqOfSet
    <2> HIDE DEF s
    <2> QED
        BY <1>1, <1>2, <1>7, <2>1, <2>2, FakeSound DEF s, apart
<1>8. CASE c.type = "telepresence"
    <2>1. s = telepresenceComposite(Root, c) /\ Ids(c) = {TelepresencePlace(c)}
        BY <1>8 DEF Steps, Ids, Place, Commanding
    <2>2. Owes(c) = {}
        BY <1>8, BringsNothing
    <2> HIDE DEF s
    <2> QED
        BY <1>1, <1>2, <2>1, <2>2, TelepresenceSound DEF s, apart
<1>9. CASE c.type = "nginx"
    <2>1. s = nginxController(Root) /\ Ids(c) = {NginxPlace}
        BY <1>9 DEF Steps, Ids, Place, Commanding
    <2>2. Owes(c) = {}
        BY <1>9, BringsNothing
    <2> HIDE DEF s
    <2> QED
        BY <1>1, <1>2, <2>1, <2>2, NginxSound DEF s, apart
<1>10. CASE c.type = "aws"
    <2>1. s = awsComposite(Root, c) /\ Ids(c) = {CommandId(k) : k \in Commands(c)}
        BY <1>10 DEF Steps, Ids, Commanding
    <2>2. Owes(c) = {}
        BY <1>10, BringsNothing
    <2> HIDE DEF s
    <2> QED
        BY <1>1, <1>2, <1>10, <2>1, <2>2, AwsSound DEF s, apart
<1>11. CASE c.type = "kind"
    <2>1. s = kindComposite(Root, c) /\ Ids(c) = {CommandId(k) : k \in Commands(c)}
        BY <1>11 DEF Steps, Ids, Commanding
    <2>2. Owes(c) = {}
        BY <1>11, BringsNothing
    <2> HIDE DEF s
    <2> QED
        BY <1>1, <1>2, <1>11, <2>1, <2>2, KindSound DEF s, apart
<1>12. CASE c.type = "kindCluster"
    <2>1. s = kindCluster(Root, c.name, {}) /\ Ids(c) = {CommandId(k) : k \in Commands(c)}
        BY <1>12 DEF Steps, Ids, Commanding
    <2>2. Owes(c) = {}
        BY <1>12, BringsNothing
    <2> HIDE DEF s
    <2> QED
        BY <1>1, <1>2, <1>12, <2>1, <2>2, KindClusterSound DEF s, apart
<1>13. CASE c.type = "chains"
    <2>1. s = blockchains(Root, c) /\ Ids(c) = {ChainsPlace(c)}
        BY <1>13 DEF Steps, Ids, Place, Commanding
    <2>2. Owes(c) = ChainsOwe(c)
        BY <1>13 DEF Owes
    <2> HIDE DEF s
    <2>3. /\ Block(Root, {ChainsPlace(c)}, s, apart)
          /\ apart => \E brought : Sound(s, brought)
          /\ apart /\ Coherent(c) => Sound(s, ChainsOwe(c))
          /\ HasTwins(c) => ~Apart(s)
        BY <1>2, <1>13, <2>1, ChainsSound
    <2> QED
        BY <2>1, <2>2, <2>3 DEF s, apart
<1>14. CASE c.type = "sandboxJD"
    <2>1. s = sandboxJD(Root, c) /\ Ids(c) = {JDPlace(c)}
        BY <1>14 DEF Steps, Ids, Place, Commanding
    <2>2. Owes(c) = {}
        BY <1>14, BringsNothing
    <2> HIDE DEF s
    <2> QED
        BY <1>1, <1>2, <1>14, <2>1, <2>2, SandboxJDSound DEF s, apart
<1>15. CASE c.type = "postgres"
    <2>1. s = Postgres(Root, c.ns, c.release, c.release, c.users) /\ Ids(c) = {PostgresPlace(c)}
        BY <1>15 DEF Steps, Ids, Place, Commanding
    <2>2. Owes(c) = {}
        BY <1>15, BringsNothing
    <2> HIDE DEF s
    <2> QED
        BY <1>1, <1>2, <2>1, <2>2, PostgresSound DEF s, apart
<1>16. CASE c.type = "configmap"
    <2>1. /\ s = ConfigMap(Root, c.ns, c.name, c.files, c.loader, {})
          /\ Ids(c) = {ConfigMapPlace(c)}
        BY <1>16 DEF Steps, Ids, Place, Commanding
    <2>2. Owes(c) = {}
        BY <1>16, BringsNothing
    <2> HIDE DEF s
    <2> QED
        BY <1>1, <1>2, <2>1, <2>2, ConfigMapSound DEF s, apart
<1> QED
    BY TypeFacts, <1>3, <1>4, <1>5, <1>6, <1>7, <1>8, <1>9, <1>10, <1>11, <1>12, <1>13, <1>14,
       <1>15, <1>16 DEF Types

(* Dependencies agree with the order, and commands wait for what is made,  *)
(* whatever the props say; but for the sandbox's job distributor, which    *)
(* may be away from its database.                                          *)
LEMMA StepsInOrder ==
    ASSUME NEW c \in Component, Valid(c), Apart(Steps(Root, c))
    PROVE  /\ Ordered(Steps(Root, c))
           /\ c.type # "sandboxJD" \/ Coherent(c) => AwaitsMet(Steps(Root, c))
<1> DEFINE s == Steps(Root, c)
<1>1. CASE c.type = "chains"
    <2> DEFINE apart == ~HasTwins(c)
    <2>1. s = blockchains(Root, c)
        BY <1>1 DEF Steps
    <2>2. apart \in BOOLEAN /\ (apart => ~HasTwins(c))
        OBVIOUS
    <2> HIDE DEF apart, s
    <2>3. /\ apart => \E brought : Sound(s, brought)
          /\ HasTwins(c) => ~Apart(s)
        BY <1>1, <2>1, <2>2, ChainsSound
    <2> QED
        BY <2>3 DEF Sound, apart, s
<1>2. CASE c.type = "sandboxJD"
    <2>1. s = sandboxJD(Root, c)
        BY <1>2 DEF Steps
    <2>2. TRUE \in BOOLEAN /\ IsSeq(Root) /\ Len(Root) >= 1
        BY RootFacts
    <2> HIDE DEF s
    <2>3. Ordered(s) /\ (Coherent(c) => Sound(s, {}))
        BY <1>2, <2>1, <2>2, SandboxJDSound
    <2> QED
        BY <1>2, <2>3 DEF Sound, s
<1>3. CASE c.type \notin {"chains", "sandboxJD"}
    <2>1. Coherent(c)
        BY <1>3 DEF Coherent
    <2> HIDE DEF s
    <2>2. Sound(s, Owes(c))
        BY <2>1, StepsSound DEF s
    <2> QED
        BY <2>2 DEF Sound, s
<1> QED
    BY <1>1, <1>2, <1>3

----------------------------------------------------------------------------
(* The ids tell components apart that are not twins, before and after a    *)
(* call has changed their props.                                           *)
PlainTypes == {"node", "nodeset", "nginx", "postgres", "configmap"}

LEMMA PlainExported ==
    ASSUME NEW c \in Component
    PROVE  /\ Exported(c).type = c.type
           /\ c.type \in PlainTypes => Exported(c) = c
<1>1. "type" \in DOMAIN c
    BY DEF Component
<1>2. Exported(c).type = c.type
    BY <1>1 DEF Exported, Unexported
<1>3. ASSUME c.type \in PlainTypes PROVE DOMAIN c \cap Unexported = {} /\ c = [f \in DOMAIN c |-> c[f]]
    <2>1. CASE c.type = "node"
        BY <2>1 DEF Component, Unexported
    <2>2. CASE c.type = "nodeset"
        BY <2>2 DEF Component, Unexported
    <2>3. CASE c.type = "nginx"
        BY <2>3 DEF Component, Unexported
    <2>4. CASE c.type = "postgres"
        BY <2>4 DEF Component, Unexported
    <2>5. CASE c.type = "configmap"
        BY <2>5 DEF Component, Unexported
    <2> QED
        BY <1>3, <2>1, <2>2, <2>3, <2>4, <2>5 DEF PlainTypes
<1>4. ASSUME c.type \in PlainTypes PROVE Exported(c) = c
    <2>1. DOMAIN c \ Unexported = DOMAIN c
        BY <1>3, <1>4
    <2> QED
        BY <1>3, <1>4, <2>1 DEF Exported
<1> QED
    BY <1>2, <1>4

LEMMA ChangedAlike ==
    ASSUME NEW c \in Component, NEW d \in Component, Exported(c) = Exported(d)
    PROVE  Exported(Changed(c)) = Exported(Changed(d))
<1>1. c.type = d.type
    BY PlainExported
<1>2. CASE c.type \in PlainTypes
    <2>1. c = d
        BY <1>1, <1>2, PlainExported
    <2> QED
        BY <2>1
<1>3. CASE c.type \notin PlainTypes
    BY <1>1, <1>3 DEF Changed, PlainTypes
<1> QED
    BY <1>2, <1>3

LEMMA ChangedCommands ==
    ASSUME NEW c, c.type \in Commanding
    PROVE  Changed(c) = c
BY DEF Changed, Commanding

(* The place of a component is a prefix and a key.                         *)
KeyPrefix ==
    [node |-> "sdk.composite.chainlink.node.v1", nodeset |-> "sdk.composite.chainlink.nodeset.v1",
     jd |-> "sdk.composite.chainlink.jd.v1", anvil |-> "sdk.composite.blockchain.anvil.v1",
     fake |-> "sdk.composite.fake.v1", telepresence |-> "sdk.composite.telepresence.v1",
     chains |-> "sdk.Blockchains", sandboxJD |-> "sdk.composite.chainlink.jd.v1",
     nginx |-> "sdk.NginxController", postgres |-> "sdk.HelmChart#postgres",
     configmap |-> "sdk.ConfigMapV1"]

Placed == {"node", "nodeset", "jd", "anvil", "fake", "telepresence", "chains", "sandboxJD",
           "nginx", "postgres", "configmap"}

Key(c) ==
    CASE c.type = "nginx"     -> ""
      [] c.type = "postgres"  -> <<c.ns, c.release, <<c.release, c.users>>>>
      [] c.type = "configmap" -> <<c.ns, c.name, <<c.files, c.loader>>>>
      [] OTHER -> Exported(c)

LEMMA PlaceForms ==
    /\ \A c : c.type \in Placed => Place(c) = <<KeyPrefix[c.type], Key(c)>>
    /\ \A t \in Placed : KeyPrefix[t] # "sdk.ClientSideApply"
    /\ \A t, u \in Placed :
           KeyPrefix[t] = KeyPrefix[u] => t = u \/ {t, u} \subseteq {"jd", "sandboxJD"}
<1>1. ASSUME NEW c, c.type \in Placed PROVE Place(c) = <<KeyPrefix[c.type], Key(c)>>
    <2>1. CASE c.type = "node"
        BY <2>1 DEF Place, Key, KeyPrefix, ResourceID, NodeId
    <2>2. CASE c.type = "nodeset"
        BY <2>2 DEF Place, Key, KeyPrefix, ResourceID, SetPlace
    <2>3. CASE c.type = "jd"
        BY <2>3 DEF Place, Key, KeyPrefix, ResourceID, JDPlace
    <2>4. CASE c.type = "anvil"
        BY <2>4 DEF Place, Key, KeyPrefix, ResourceID, AnvilPlace
    <2>5. CASE c.type = "fake"
        BY <2>5 DEF Place, Key, KeyPrefix, ResourceID, FakePlace
    <2>6. CASE c.type = "telepresence"
        BY <2>6 DEF Place, Key, KeyPrefix, ResourceID, TelepresencePlace
    <2>7. CASE c.type = "chains"
        BY <2>7 DEF Place, Key, KeyPrefix, ResourceID, ChainsPlace
    <2>8. CASE c.type = "sandboxJD"
        BY <2>8 DEF Place, Key, KeyPrefix, ResourceID, JDPlace
    <2>9. CASE c.type = "nginx"
        <3>1. Key(c) = ""
            BY <2>9 DEF Key
        <3>2. Place(c) = NginxPlace
            BY <2>9 DEF Place
        <3>3. KeyPrefix[c.type] = "sdk.NginxController"
            BY <2>9 DEF KeyPrefix
        <3> QED
            BY <3>1, <3>2, <3>3 DEF NginxPlace, ResourceID
    <2>10. CASE c.type = "postgres"
        BY <2>10 DEF Place, Key, KeyPrefix, ResourceID, PostgresPlace
    <2>11. CASE c.type = "configmap"
        BY <2>11 DEF Place, Key, KeyPrefix, ResourceID, ConfigMapPlace
    <2> QED
        BY <1>1, <2>1, <2>2, <2>3, <2>4, <2>5, <2>6, <2>7, <2>8, <2>9, <2>10, <2>11 DEF Placed
<1>2. \A t \in Placed : KeyPrefix[t] # "sdk.ClientSideApply"
    BY DEF Placed, KeyPrefix
<1>3. \A t, u \in Placed :
          KeyPrefix[t] = KeyPrefix[u] => t = u \/ {t, u} \subseteq {"jd", "sandboxJD"}
    BY DEF Placed, KeyPrefix
<1> QED
    BY <1>1, <1>2, <1>3

LEMMA PlacesTell ==
    ASSUME NEW c \in Component, NEW d \in Component, c.type \in Placed, d.type \in Placed,
           Place(c) = Place(d)
    PROVE  Exported(Changed(c)) = Exported(Changed(d))
<1>1. KeyPrefix[c.type] = KeyPrefix[d.type] /\ Key(c) = Key(d)
    BY PlaceForms
<1>2. c.type = d.type \/ {c.type, d.type} \subseteq {"jd", "sandboxJD"}
    BY <1>1, PlaceForms
<1>3. CASE c.type \notin {"nginx", "postgres", "configmap"}
    <2>1. d.type \notin {"nginx", "postgres", "configmap"}
        BY <1>2, <1>3
    <2>2. Exported(c) = Exported(d)
        BY <1>1, <1>3, <2>1 DEF Key
    <2> QED
        BY <2>2, ChangedAlike
<1>4. CASE c.type = "nginx"
    <2>1. c \in [type : {"nginx"}] /\ d \in [type : {"nginx"}]
        BY <1>2, <1>4 DEF Component
    <2>2. c = d
        BY <2>1
    <2> QED
        BY <2>2
<1>5. CASE c.type = "postgres"
    <2> DEFINE S == [type : {"postgres"}, ns : STRING, release : STRING,
                     users : SUBSET (STRING \X STRING)]
    <2>1. c \in S /\ d \in S
        BY <1>2, <1>5 DEF Component
    <2>2. c.ns = d.ns /\ c.release = d.release /\ c.users = d.users
        BY <1>1, <1>2, <1>5 DEF Key
    <2>3. c = d
        BY <2>1, <2>2
    <2> QED
        BY <2>3
<1>6. CASE c.type = "configmap"
    <2> DEFINE S == [type : {"configmap"}, ns : STRING, name : STRING, files : SUBSET STRING,
                     loader : BOOLEAN, loaded : BOOLEAN]
    <2>1. c \in S /\ d \in S /\ d.type = "configmap"
        BY <1>2, <1>6 DEF Component
    <2>2. c.ns = d.ns /\ c.name = d.name /\ c.files = d.files /\ c.loader = d.loader
        BY <1>1, <1>6, <2>1 DEF Key
    <2>3. [c EXCEPT !.loaded = TRUE] = [d EXCEPT !.loaded = TRUE]
        BY <2>1, <2>2
    <2>4. Changed(c) = Changed(d)
        BY <1>6, <2>1, <2>3 DEF Changed
    <2> QED
        BY <2>4
<1> QED
    BY <1>3, <1>4, <1>5, <1>6

LEMMA IdsTell ==
    ASSUME NEW c \in Component, NEW d \in Component, Ids(c) \cap Ids(d) # {}
    PROVE  Twins(Changed(c), Changed(d))
<1>1. PICK x : x \in Ids(c) /\ x \in Ids(d)
    OBVIOUS
<1>2. /\ c.type \in Commanding \/ c.type \in Placed
      /\ d.type \in Commanding \/ d.type \in Placed
      /\ Commanding \cap Placed = {}
    BY TypeFacts DEF Types, Commanding, Placed
<1>3. \A k, l : CommandId(k) = CommandId(l) => k = l
    BY DEF CommandId, ResourceID
<1>4. CASE c.type \in Commanding /\ d.type \in Commanding
    <2>1. Commands(c) \cap Commands(d) # {}
        BY <1>1, <1>3, <1>4 DEF Ids
    <2> QED
        BY <1>4, <2>1, ChangedCommands DEF Twins
<1>5. ASSUME NEW a, a.type \in Placed, NEW k PROVE Place(a) # CommandId(k)
    <2>1. Place(a) = <<KeyPrefix[a.type], Key(a)>> /\ KeyPrefix[a.type] # "sdk.ClientSideApply"
        BY <1>5, PlaceForms
    <2> QED
        BY <2>1 DEF CommandId, ResourceID
<1>6. CASE c.type \in Placed /\ d.type \in Placed
    <2>1. Place(c) = Place(d)
        BY <1>1, <1>2, <1>6 DEF Ids
    <2> QED
        BY <1>6, <2>1, PlacesTell DEF Twins, Alike
<1> QED
    BY <1>1, <1>2, <1>4, <1>5, <1>6 DEF Ids

----------------------------------------------------------------------------
(* What a call leaves of the props is the same component to everyone else. *)
LEMMA ChangedFacts ==
    ASSUME NEW c \in Component
    PROVE  /\ Changed(c) \in Component
           /\ Changed(c).type = c.type
           /\ Changed(Changed(c)) = Changed(c)
           /\ HasTwins(Changed(c)) <=> HasTwins(c)
           /\ OneShot(Changed(c)) <=> OneShot(c)
           /\ Coherent(Changed(c)) <=> Coherent(c)
           /\ Brought(Changed(c)) = Brought(c)
           /\ Owes(Changed(c)) = Owes(c)
           /\ Valid(c) /\ ~OneShot(c) => Valid(Changed(c))
<1>1. CASE c.type = "node"
    <2> DEFINE d == [c EXCEPT !.ports = NodePorts(c)]
               S == [type : {"node"}, ns : STRING, app : STRING, ports : SUBSET Nat,
                     configs : SUBSET STRING, secrets : SUBSET STRING, args : BOOLEAN,
                     url : {<<>>} \cup (STRING \X STRING \X STRING)]
    <2>1. c \in S
        BY <1>1 DEF Component
    <2>2. NodePorts(c) \in SUBSET Nat /\ NodePorts(c) # {}
        BY <2>1 DEF NodePorts, DefaultPorts
    <2>3. /\ d \in S /\ d.type = "node" /\ d.ports = NodePorts(c) /\ d.ns = c.ns /\ d.url = c.url
          /\ [d EXCEPT !.ports = NodePorts(c)] = d
        BY <2>1, <2>2
    <2>4. S \subseteq Component
        BY DEF Component
    <2>5. Changed(c) = d
        BY <1>1 DEF Changed
    <2> HIDE DEF S, d
    <2>6. NodePorts(d) = NodePorts(c)
        BY <2>2, <2>3 DEF NodePorts
    <2>7. Changed(d) = d
        BY <2>3, <2>6 DEF Changed
    <2>8. ~HasTwins(c) /\ ~HasTwins(d)
        BY <1>1, <2>3, NoTwinsInside
    <2>9. ~OneShot(c) /\ ~OneShot(d) /\ Coherent(c) /\ Coherent(d) /\ Valid(d)
        BY <1>1, <2>3 DEF OneShot, Coherent, Valid
    <2>10. Brought(d) = Brought(c)
        BY <1>1, <2>3 DEF Brought
    <2>11. Owes(d) = Owes(c)
        BY <1>1, <2>3, <2>10 DEF Owes
    <2> QED
        BY <1>1, <2>3, <2>4, <2>5, <2>7, <2>8, <2>9, <2>10, <2>11
<1>2. CASE c.type = "nodeset"
    <2> DEFINE d == [c EXCEPT !.named = TRUE]
               S == [type : {"nodeset"}, ns : STRING, release : STRING, nodes : Seq(STRING),
                     named : BOOLEAN]
    <2>1. c \in S
        BY <1>2 DEF Component
    <2>3. d \in S /\ d.type = "nodeset" /\ [d EXCEPT !.named = TRUE] = d
        BY <2>1
    <2>4. S \subseteq Component
        BY DEF Component
    <2>5. Changed(c) = d
        BY <1>2 DEF Changed
    <2> HIDE DEF S, d
    <2>7. Changed(d) = d
        BY <2>3 DEF Changed
    <2>8. ~HasTwins(c) /\ ~HasTwins(d)
        BY <1>2, <2>3, NoTwinsInside
    <2>9. OneShot(c) /\ OneShot(d) /\ Coherent(c) /\ Coherent(d)
        BY <1>2, <2>3 DEF OneShot, Coherent
    <2>10. Brought(d) = Brought(c)
        BY <1>2, <2>3 DEF Brought
    <2>11. Owes(d) = Owes(c)
        BY <1>2, <2>3, <2>10 DEF Owes
    <2> QED
        BY <1>2, <2>3, <2>4, <2>5, <2>7, <2>8, <2>9, <2>10, <2>11
<1>3. CASE c.type = "configmap"
    <2> DEFINE d == [c EXCEPT !.loaded = TRUE]
               S == [type : {"configmap"}, ns : STRING, name : STRING, files : SUBSET STRING,
                     loader : BOOLEAN, loaded : BOOLEAN]
    <2>1. c \in S
        BY <1>3 DEF Component
    <2>3. d \in S /\ d.type = "configmap" /\ d.loader = c.loader /\ [d EXCEPT !.loaded = TRUE] = d
        BY <2>1
    <2>4. S \subseteq Component
        BY DEF Component
    <2>5. Changed(c) = d
        BY <1>3 DEF Changed
    <2> HIDE DEF S, d
    <2>7. Changed(d) = d
        BY <2>3 DEF Changed
    <2>8. ~HasTwins(c) /\ ~HasTwins(d)
        BY <1>3, <2>3, NoTwinsInside
    <2>9. (OneShot(c) <=> OneShot(d)) /\ Coherent(c) /\ Coherent(d) /\ (~OneShot(c) => Valid(d))
        BY <1>3, <2>3 DEF OneShot, Coherent, Valid
    <2>10. Brought(d) = Brought(c)
        BY <1>3, <2>3 DEF Brought
    <2>11. Owes(d) = Owes(c)
        BY <1>3, <2>3, <2>10 DEF Owes
    <2> QED
        BY <1>3, <2>3, <2>4, <2>5, <2>7, <2>8, <2>9, <2>10, <2>11
<1>4. CASE c.type \notin {"node", "nodeset", "configmap"}
    <2>1. Changed(c) = c
        BY <1>4 DEF Changed
    <2> QED
        BY <2>1
<1> QED
    BY <1>1, <1>2, <1>3, <1>4

----------------------------------------------------------------------------
(* What a preview shows of the steps: the objects, not where they are.     *)
Shown(s) ==
    {[what |-> x.what, gives |-> x.gives, refs |-> x.refs, awaits |-> x.awaits] : x \in Makes(s)}

LEMMA JoinShown ==
    \A s, t : IsSeq(s) /\ IsSeq(t) => /\ IsSeq(s \o t)
                                      /\ Shown(s \o t) = Shown(s) \cup Shown(t)
<1> SUFFICES ASSUME NEW s, NEW t, IsSeq(s), IsSeq(t)
             PROVE  IsSeq(s \o t) /\ Shown(s \o t) = Shown(s) \cup Shown(t)
    OBVIOUS
<1>1. IsSeq(s \o t) /\ Makes(s \o t) = Makes(s) \cup Makes(t)
    BY JoinActs
<1> QED
    BY <1>1 DEF Shown

(* Steps that show the same.                                               *)
Same(s, t) == IsSeq(s) /\ IsSeq(t) /\ Shown(s) = Shown(t)

LEMMA JoinSame ==
    \A s1, t1, s2, t2 : Same(s1, t1) /\ Same(s2, t2) => Same(s1 \o s2, t1 \o t2)
<1> SUFFICES ASSUME NEW s1, NEW t1, NEW s2, NEW t2, Same(s1, t1), Same(s2, t2)
             PROVE  Same(s1 \o s2, t1 \o t2)
    OBVIOUS
<1>1. /\ IsSeq(s1) /\ IsSeq(t1) /\ Shown(s1) = Shown(t1)
      /\ IsSeq(s2) /\ IsSeq(t2) /\ Shown(s2) = Shown(t2)
    BY DEF Same
<1>2. IsSeq(s1 \o s2) /\ Shown(s1 \o s2) = Shown(s1) \cup Shown(s2)
    BY <1>1, JoinShown
<1>3. IsSeq(t1 \o t2) /\ Shown(t1 \o t2) = Shown(t1) \cup Shown(t2)
    BY <1>1, JoinShown
<1> QED
    BY <1>1, <1>2, <1>3 DEF Same

LEMMA SameSteps ==
    /\ \A p1, p2, c1, c2, what, gives, refs, awaits :
           Same(Make(p1, c1, what, gives, refs, awaits), Make(p2, c2, what, gives, refs, awaits))
    /\ \A a1, b1, a2, b2 : Same(AddDependency(a1, b1), AddDependency(a2, b2))
    /\ Same(<<>>, <<>>)
<1>1. ASSUME NEW p1, NEW p2, NEW c1, NEW c2, NEW what, NEW gives, NEW refs, NEW awaits
      PROVE  Same(Make(p1, c1, what, gives, refs, awaits), Make(p2, c2, what, gives, refs, awaits))
    <2> DEFINE x(p, c) == [op |-> "make", path |-> p, chart |-> c, what |-> what,
                           gives |-> gives, refs |-> refs, awaits |-> awaits]
               y == [what |-> what, gives |-> gives, refs |-> refs, awaits |-> awaits]
    <2>1. ASSUME NEW p, NEW c
          PROVE  LET s == Make(p, c, what, gives, refs, awaits) IN IsSeq(s) /\ Shown(s) = {y}
        <3> DEFINE s == Make(p, c, what, gives, refs, awaits)
        <3>1. IsSeq(s) /\ ToSet(s) = {x(p, c)}
            BY SingleFacts DEF Make
        <3>2. /\ x(p, c).op = "make" /\ x(p, c).what = what /\ x(p, c).gives = gives
              /\ x(p, c).refs = refs /\ x(p, c).awaits = awaits
            OBVIOUS
        <3> HIDE DEF x, s
        <3>3. Makes(s) = {x(p, c)}
            BY <3>1, <3>2 DEF Makes
        <3>4. Shown(s) = {y}
            BY <3>2, <3>3 DEF Shown
        <3> QED
            BY <3>1, <3>4 DEF s
    <2> HIDE DEF y
    <2> QED
        BY <2>1 DEF Same
<1>2. ASSUME NEW a1, NEW b1, NEW a2, NEW b2 PROVE Same(AddDependency(a1, b1), AddDependency(a2, b2))
    <2>1. ASSUME NEW a, NEW b
          PROVE  LET s == AddDependency(a, b) IN IsSeq(s) /\ Shown(s) = {}
        <3> DEFINE x == [op |-> "depend", from |-> a, on |-> b]
                   s == AddDependency(a, b)
        <3>1. IsSeq(s) /\ ToSet(s) = {x}
            BY SingleFacts DEF AddDependency
        <3>2. x.op # "make"
            OBVIOUS
        <3> HIDE DEF x, s
        <3>3. Shown(s) = {}
            BY <3>1, <3>2 DEF Shown, Makes
        <3> QED
            BY <3>1, <3>3 DEF s
    <2> QED
        BY <2>1 DEF Same
<1>3. Same(<<>>, <<>>)
    BY NoneFacts DEF Same
<1> QED
    BY <1>1, <1>2, <1>3

LEMMA SameLibrary ==
    ASSUME NEW p, NEW q
    PROVE  /\ Same(NewChart(p), NewChart(q))
           /\ \A ns, release, host, users :
                  Same(Postgres(p, ns, release, host, users), Postgres(q, ns, release, host, users))
           /\ \A ns, name, files : Same(Secret(p, ns, name, files), Secret(q, ns, name, files))
           /\ \A ns, name, files, loader, refs :
                  Same(ConfigMap(p, ns, name, files, loader, refs),
                       ConfigMap(q, ns, name, files, loader, refs))
           /\ \A ns, name, selector, ports, named :
                  Same(Service(p, ns, name, selector, ports, named),
                       Service(q, ns, name, selector, ports, named))
<1>1. \A a, b : Same(NewChart(a), NewChart(b))
    BY SameSteps DEF NewChart
<1>2. \A a, b, prefix, kind, ns, name, key, gives, refs :
          Same(Scalar(a, prefix, kind, ns, name, key, gives, refs),
               Scalar(b, prefix, kind, ns, name, key, gives, refs))
    BY SameSteps DEF Scalar
<1>3. \A a, b, ns : Same(Namespace(a, ns), Namespace(b, ns))
    BY <1>2 DEF Namespace
<1>4. ASSUME NEW a, NEW b, NEW chart, NEW ns, NEW release, NEW gives, NEW refs
      PROVE  Same(HelmNew(a, chart, ns, release, gives, refs),
                  HelmNew(b, chart, ns, release, gives, refs))
    <2> DEFINE make(x) == Make(Append(x, ResourceID(chart, release)), x,
                               <<"HelmRelease", ns, release>>, gives, refs, {})
               depend(x) == AddDependency(x, NamespacePath(x, ns))
    <2>1. Same(make(a), make(b)) /\ Same(depend(a), depend(b))
        BY SameSteps
    <2>2. /\ HelmNew(a, chart, ns, release, gives, refs) =
                 NewChart(a) \o make(a) \o Namespace(a, ns) \o depend(a)
          /\ HelmNew(b, chart, ns, release, gives, refs) =
                 NewChart(b) \o make(b) \o Namespace(b, ns) \o depend(b)
        BY DEF HelmNew
    <2> HIDE DEF make, depend
    <2>3. Same(NewChart(a) \o make(a), NewChart(b) \o make(b))
        BY <1>1, <2>1, JoinSame
    <2>4. Same(NewChart(a) \o make(a) \o Namespace(a, ns), NewChart(b) \o make(b) \o Namespace(b, ns))
        BY <1>3, <2>3, JoinSame
    <2>5. Same(NewChart(a) \o make(a) \o Namespace(a, ns) \o depend(a),
               NewChart(b) \o make(b) \o Namespace(b, ns) \o depend(b))
        BY <2>1, <2>4, JoinSame
    <2> QED
        BY <2>2, <2>5
<1>5. ASSUME NEW ns, NEW release, NEW host, NEW users
      PROVE  Same(Postgres(p, ns, release, host, users), Postgres(q, ns, release, host, users))
    <2> DEFINE values == <<host, users>>
               gives == {Pod(ns, PodNumber0(host)), <<"database", ns, host, users>>}
               outer(x) == ChartOuter(x, "postgres", ns, release, values)
               inner(x) == ChartPath(x, "postgres", ns, release, values)
    <2>1. \A x : Postgres(x, ns, release, host, users) =
                     NewChart(outer(x)) \o HelmNew(inner(x), "postgres", ns, release, gives, {})
        BY DEF Postgres, ChartScalar
    <2> HIDE DEF outer, inner, gives, values
    <2>2. Same(NewChart(outer(p)), NewChart(outer(q)))
        BY <1>1
    <2>3. Same(HelmNew(inner(p), "postgres", ns, release, gives, {}),
               HelmNew(inner(q), "postgres", ns, release, gives, {}))
        BY <1>4
    <2> QED
        BY <2>1, <2>2, <2>3, JoinSame
<1>6. \A ns, name, files : Same(Secret(p, ns, name, files), Secret(q, ns, name, files))
    BY <1>2 DEF Secret
<1>7. \A ns, name, files, loader, refs :
          Same(ConfigMap(p, ns, name, files, loader, refs),
               ConfigMap(q, ns, name, files, loader, refs))
    BY <1>2 DEF ConfigMap
<1>8. \A ns, name, selector, ports, named :
          Same(Service(p, ns, name, selector, ports, named),
               Service(q, ns, name, selector, ports, named))
    BY <1>2 DEF Service
<1> QED
    BY <1>1, <1>5, <1>6, <1>7, <1>8

(* The node's own changes show nowhere: it is the same node to the objects *)
(* it makes, under another id.                                             *)
LEMMA NodeAgain ==
    ASSUME NEW c \in Component, c.type = "node"
    PROVE  Shown(Steps(Root, Changed(c))) = Shown(Steps(Root, c))
<1> DEFINE d == Changed(c)
           q(x) == NodePath(Root, x)
<1>1. /\ d.type = "node" /\ d.ns = c.ns /\ d.app = c.app /\ d.url = c.url
      /\ d.configs = c.configs /\ d.secrets = c.secrets /\ d.args = c.args
      /\ d.ports = NodePorts(c)
    BY DEF Component, Changed
<1>2. NodePorts(c) # {}
    BY DEF NodePorts
<1> HIDE DEF d
<1>3. NodePorts(d) = NodePorts(c)
    BY <1>1, <1>2 DEF NodePorts
<1>4. NodeURL(d) = NodeURL(c) /\ NodeArgs(d) = NodeArgs(c)
    BY <1>1 DEF NodeURL, NodeArgs
<1> HIDE DEF q
<1>5. Same(NewChart(q(d)), NewChart(q(c)))
    BY SameLibrary
<1>6. Same(NodePostgres(q(d), d), NodePostgres(q(c), c))
    <2>1. CASE c.url = <<>>
        <3> DEFINE name == c.app \o "-postgres"
                   users == {<<c.app, c.app>>}
        <3>1. /\ NodePostgres(q(c), c) = Postgres(q(c), c.ns, name, name, users)
              /\ NodePostgres(q(d), d) = Postgres(q(d), c.ns, name, name, users)
            BY <1>1, <2>1 DEF NodePostgres
        <3> HIDE DEF name, users
        <3> QED
            BY <3>1, SameLibrary
    <2>2. CASE c.url # <<>>
        <3>1. NodePostgres(q(c), c) = <<>> /\ NodePostgres(q(d), d) = <<>>
            BY <1>1, <2>2 DEF NodePostgres
        <3> QED
            BY <3>1, SameSteps
    <2> QED
        BY <2>1, <2>2
<1>7. Same(NodeFiles(q(d), d), NodeFiles(q(c), c))
    <2> DEFINE secret == c.app \o "-file"
               files == {"secrets.toml", "apicredentials"} \cup c.secrets
               config == c.app \o "-config"
               configs == {"config.toml"} \cup c.configs
    <2>1. /\ NodeFiles(q(c), c) = Secret(q(c), c.ns, secret, files)
                                      \o ConfigMap(q(c), c.ns, config, configs, FALSE, {})
          /\ NodeFiles(q(d), d) = Secret(q(d), c.ns, secret, files)
                                      \o ConfigMap(q(d), c.ns, config, configs, FALSE, {})
        BY <1>1 DEF NodeFiles
    <2> HIDE DEF secret, files, config, configs
    <2>2. /\ Same(Secret(q(d), c.ns, secret, files), Secret(q(c), c.ns, secret, files))
          /\ Same(ConfigMap(q(d), c.ns, config, configs, FALSE, {}),
                  ConfigMap(q(c), c.ns, config, configs, FALSE, {}))
        BY SameLibrary
    <2> QED
        BY <2>1, <2>2, JoinSame
<1>8. Same(NodeDeployment(q(d), d), NodeDeployment(q(c), c))
    <2> DEFINE what == <<"Deployment", c.ns, c.app>>
               gives == {Pod(c.ns, Labels("chainlink", c.app) \cup Ports(NodePorts(c)))}
               refs == NodeArgs(c) \cup
                           {<<"database", c.ns, NodeURL(c)[1], {<<NodeURL(c)[2], NodeURL(c)[3]>>}>>}
               place(x) == Append(x, <<"chainlink-deployment">>)
    <2>1. /\ NodeDeployment(q(c), c) = Make(place(q(c)), q(c), what, gives, refs, {})
          /\ NodeDeployment(q(d), d) = Make(place(q(d)), q(d), what, gives, refs, {})
        BY <1>1, <1>3, <1>4 DEF NodeDeployment
    <2> HIDE DEF what, gives, refs, place
    <2> QED
        BY <2>1, SameSteps
<1> DEFINE service(x) == Service(q(x), c.ns, c.app, Labels("chainlink", c.app), NodePorts(c),
                                 NodePorts(c))
<1>9. Same(service(d), service(c))
    BY SameLibrary
<1>10. /\ Steps(Root, c) = NewChart(q(c)) \o NodePostgres(q(c), c) \o NodeFiles(q(c), c)
                               \o NodeDeployment(q(c), c) \o service(c)
       /\ Steps(Root, d) = NewChart(q(d)) \o NodePostgres(q(d), d) \o NodeFiles(q(d), d)
                               \o NodeDeployment(q(d), d) \o service(d)
    BY <1>1, <1>3 DEF Steps, chainlinkNode, q
<1> HIDE DEF service
<1>11. Same(NewChart(q(d)) \o NodePostgres(q(d), d), NewChart(q(c)) \o NodePostgres(q(c), c))
    BY <1>5, <1>6, JoinSame
<1>12. Same(NewChart(q(d)) \o NodePostgres(q(d), d) \o NodeFiles(q(d), d),
            NewChart(q(c)) \o NodePostgres(q(c), c) \o NodeFiles(q(c), c))
    BY <1>7, <1>11, JoinSame
<1>13. Same(NewChart(q(d)) \o NodePostgres(q(d), d) \o NodeFiles(q(d), d) \o NodeDeployment(q(d), d),
            NewChart(q(c)) \o NodePostgres(q(c), c) \o NodeFiles(q(c), c) \o NodeDeployment(q(c), c))
    BY <1>8, <1>12, JoinSame
<1>14. Same(Steps(Root, d), Steps(Root, c))
    BY <1>9, <1>10, <1>13, JoinSame
<1> QED
    BY <1>14 DEF Same, d

LEMMA ShownAgain ==
    ASSUME NEW c \in Component, ~OneShot(c)
    PROVE  Shown(Steps(Root, Changed(c))) = Shown(Steps(Root, c))
<1>1. CASE c.type = "node"
    BY <1>1, NodeAgain
<1>2. CASE c.type = "configmap"
    <2> DEFINE d == Changed(c)
    <2>1. /\ d.type = "configmap" /\ d.ns = c.ns /\ d.name = c.name /\ d.files = c.files
          /\ d.loader = c.loader
        BY <1>2 DEF Component, Changed
    <2> HIDE DEF d
    <2>2. Steps(Root, d) = Steps(Root, c)
        BY <1>2, <2>1 DEF Steps
    <2> QED
        BY <2>2 DEF d
<1>3. CASE c.type \notin {"node", "configmap"}
    <2>1. Changed(c) = c
        BY <1>3 DEF Changed, OneShot
    <2> QED
        BY <2>1
<1> QED
    BY <1>1, <1>2, <1>3

----------------------------------------------------------------------------
(* The run of a plan.  While no call panics and no creation fails, the App *)
(* holds what the functions called so far have made, of the props the      *)
(* plan had when they were called; what a running call has made and what   *)
(* it has still to do are its steps.                                       *)
Arg(plan, i) == IF app \in {"create", "created"} THEN plan[i] ELSE Changed(plan[i])
StepsOf(plan, i) == Steps(Root, Arg(plan, i))

Results == {"ok", "error", "helm", "unimplemented"}

(* Steps with an explorer nobody implemented: they are never all taken.    *)
Unimplemented(s) == \E x \in Makes(s) : x.what[1] = "Blockscout"

(* The constructs of steps of the i-th component.                          *)
Built(x, i) ==
    [path |-> x.path, chart |-> x.chart, what |-> x.what, gives |-> x.gives,
     refs |-> x.refs, awaits |-> x.awaits, of |-> i]
Builds(s, i) == {Built(x, i) : x \in Makes(s)}

Counts(plan) ==
    /\ plan \in Plans
    /\ props \in Seq(Component) /\ Len(props) = Len(plan)
    /\ at \in 1..(Len(plan) + 1)
    /\ results \in Seq(Results) /\ Len(results) = at - 1
    /\ calling \in BOOLEAN /\ (calling => at <= Len(plan))
    /\ IsSeq(todo)

(* A function that ran has left its changes in the props.                  *)
PropsFollow(plan) ==
    \A i \in 1..Len(plan) :
        /\ app = "create" /\ (i > at \/ (i = at /\ ~calling)) => props[i] = plan[i]
        /\ \/ app # "create" \/ (i = at /\ calling)
           \/ (i < at /\ results[i] # "error")
           => props[i] = Changed(plan[i])

(* Every construct comes from a step of its component.                     *)
MadeFollow(plan) ==
    \A o \in made :
        /\ o.of \in 1..Len(plan) /\ o.of <= at
        /\ o.of = at => calling
        /\ o.of < at => results[o.of] # "error"
        /\ Valid(Arg(plan, o.of))
        /\ o \in Builds(StepsOf(plan, o.of), o.of)
        /\ o.what[1] # "Blockscout"

(* A call that returned has done all of its steps, or its props were not   *)
(* valid, or helm failed, or it came to what is not implemented.           *)
Whole(plan, i) ==
    /\ Valid(Arg(plan, i))
    /\ Apart(StepsOf(plan, i))
    /\ Builds(StepsOf(plan, i), i) \subseteq made
    /\ Depends(StepsOf(plan, i)) \subseteq deps

DoneFollow(plan) ==
    \A i \in 1..(at - 1) :
        /\ results[i] = "error" => ~Valid(Arg(plan, i))
        /\ results[i] = "unimplemented" => Unimplemented(StepsOf(plan, i))
        /\ results[i] = "ok" => Whole(plan, i)

Progress(plan, done) ==
    /\ IsSeq(done)
    /\ StepsOf(plan, at) = done \o todo
    /\ Apart(done)
    /\ Builds(done, at) \subseteq made
    /\ \A o \in made : o.of = at => o \in Builds(done, at)
    /\ Depends(done) \subseteq deps

CallFollows(plan) ==
    calling => Valid(Arg(plan, at)) /\ \E done : Progress(plan, done)

DepsFollow(plan) ==
    \A e \in deps : \E i \in 1..Len(plan) :
        Valid(Arg(plan, i)) /\ e \in Depends(StepsOf(plan, i))

(* What CreatePlan's App holds in the end.                                 *)
Complete(plan) == UNION {Builds(Steps(Root, plan[i]), i) : i \in 1..Len(plan)}

CreatedFollows(plan) ==
    /\ app \in {"created", "preview", "previewed"} =>
           /\ created = Complete(plan)
           /\ \A i \in 1..Len(plan) :
                  Valid(plan[i]) /\ ~Unimplemented(Steps(Root, plan[i]))
    /\ app \in {"created", "previewed"} => ~calling /\ at = Len(plan) + 1
    /\ app = "created" => \A i \in 1..Len(plan) : results[i] = "ok"

Follows(plan) ==
    /\ Counts(plan) /\ PropsFollow(plan) /\ MadeFollow(plan) /\ DoneFollow(plan)
    /\ CallFollows(plan) /\ DepsFollow(plan) /\ CreatedFollows(plan)

Running == app \in {"create", "created", "preview", "previewed"}

RunInv ==
    /\ app \in {"create", "created", "preview", "previewed", "panic", "offline", "failed"}
    /\ Running => \E plan \in Plans : Follows(plan)
    /\ PanicsOnlyOnTwins

----------------------------------------------------------------------------
(* One step of a call.                                                     *)
LEMMA AdvanceFacts ==
    ASSUME NEW done, NEW rest, IsSeq(done), IsSeq(rest), rest # <<>>
    PROVE  LET x == Head(rest)
               d == Append(done, x)
           IN  /\ IsSeq(d) /\ IsSeq(Tail(rest))
               /\ d \o Tail(rest) = done \o rest
               /\ ToSet(d) = ToSet(done) \cup {x}
               /\ x \in ToSet(done \o rest)
               /\ Apart(done) /\ (x.op = "make" => \A y \in Makes(done) : y.path # x.path)
                  => Apart(d)
               /\ x.op = "make" /\ (\E y \in Makes(done) : y.path = x.path)
                  => ~Apart(done \o rest)
<1> DEFINE x == Head(rest)
           d == Append(done, x)
           S == ToSet(done) \cup ToSet(rest)
           n == Len(done)
<1>1. /\ IsSeq(Tail(rest)) /\ Len(Tail(rest)) + 1 = Len(rest) /\ rest[1] = x /\ Len(rest) >= 1
      /\ ToSet(rest) = {x} \cup ToSet(Tail(rest)) /\ Len(rest) \in Nat
    BY TailFacts, SeqFacts
<1>2. /\ IsSeq(d) /\ Len(d) = n + 1 /\ n \in Nat
      /\ (\A i \in 1..n : d[i] = done[i]) /\ d[n + 1] = x
    BY AppendFacts, SeqFacts
<1>3. ToSet(d) = ToSet(done) \cup {x}
    <2>1. /\ ToSet(d) = {d[i] : i \in 1..n+1} /\ ToSet(done) = {done[i] : i \in 1..n}
        BY <1>2, SeqFacts
    <2>2. 1..n+1 = 1..n \cup {n + 1}
        BY <1>2
    <2> HIDE DEF d, n, x
    <2> QED
        BY <1>2, <2>1, <2>2
<1>4. d \o Tail(rest) = done \o rest
    <2>1. done \in Seq(S) /\ rest \in Seq(S) /\ Tail(rest) \in Seq(S) /\ x \in S
        BY <1>1, SeqMonotonic DEF IsSeq
    <2>2. d = done \o <<x>>
        BY <2>1, AppendIsConcat
    <2>3. rest = <<x>> \o Tail(rest)
        BY <2>1
    <2> HIDE DEF d, x, S
    <2>4. (done \o <<x>>) \o Tail(rest) = done \o (<<x>> \o Tail(rest))
        BY <2>1, ConcatAssociative
    <2> QED
        BY <2>2, <2>3, <2>4
<1>5. x \in ToSet(done \o rest)
    BY <1>1, ConcatFacts
<1>6. ASSUME Apart(done), x.op = "make" => \A y \in Makes(done) : y.path # x.path
      PROVE  Apart(d)
    <2> SUFFICES ASSUME NEW i \in 1..Len(d), NEW j \in 1..Len(d),
                        d[i].op = "make", d[j].op = "make", d[i].path = d[j].path
                 PROVE  i = j
        BY DEF Apart
    <2>1. \A k \in 1..n : done[k] \in ToSet(done)
        BY SeqFacts
    <2>2. /\ i \in 1..n \/ i = n + 1
          /\ j \in 1..n \/ j = n + 1
        BY <1>2
    <2>3. CASE i \in 1..n /\ j \in 1..n
        BY <1>2, <1>6, <2>3 DEF Apart
    <2>4. ASSUME NEW k \in 1..n, done[k].op = "make", x.op = "make" PROVE done[k].path # x.path
        BY <1>6, <2>1, <2>4 DEF Makes
    <2> HIDE DEF d, x, n
    <2> QED
        BY <1>2, <2>2, <2>3, <2>4
<1>7. ASSUME x.op = "make", NEW y \in Makes(done), y.path = x.path PROVE ~Apart(done \o rest)
    <2> DEFINE s == done \o rest
    <2>1. PICK i \in 1..n : done[i] = y
        BY SeqFacts DEF Makes
    <2>2. /\ Len(s) = n + Len(rest) /\ s[i] = y /\ s[n + 1] = x
        BY <1>1, <2>1, ConcatFacts
    <2>3. i \in 1..Len(s) /\ n + 1 \in 1..Len(s) /\ i # n + 1
        BY <1>1, <1>2, <2>1, <2>2
    <2> HIDE DEF s, x, n
    <2> QED
        BY <1>7, <2>2, <2>3 DEF Apart, Makes, s
<1> QED
    BY <1>1, <1>2, <1>3, <1>4, <1>5, <1>6, <1>7

(* The steps of the components of a plan are those of valid components.    *)
LEMMA ArgFacts ==
    ASSUME NEW plan \in Plans, NEW i \in 1..Len(plan)
    PROVE  /\ plan[i] \in Component /\ Arg(plan, i) \in Component
           /\ Changed(Arg(plan, i)) = Changed(plan[i])
           /\ Valid(Arg(plan, i)) =>
                  Block(Root, Ids(Arg(plan, i)), StepsOf(plan, i), ~HasTwins(Arg(plan, i)))
<1>1. plan \in Seq(Component)
    BY PlansAssumption
<1>2. plan[i] \in Component
    BY <1>1, ElementOfSeq
<1>3. Arg(plan, i) \in Component
    BY <1>2, ChangedFacts DEF Arg
<1>4. Changed(Arg(plan, i)) = Changed(plan[i])
    BY <1>2, ChangedFacts DEF Arg
<1>5. ASSUME Valid(Arg(plan, i))
      PROVE  Block(Root, Ids(Arg(plan, i)), StepsOf(plan, i), ~HasTwins(Arg(plan, i)))
    <2> DEFINE c == Arg(plan, i)
    <2>1. c \in Component /\ Valid(c)
        BY <1>3, <1>5
    <2> HIDE DEF c
    <2>2. Block(Root, Ids(c), Steps(Root, c), ~HasTwins(c))
        BY <2>1, StepsSound
    <2> QED
        BY <2>2 DEF c, StepsOf
<1> QED
    BY <1>2, <1>3, <1>4, <1>5

(* The actions, one after the other.                                       *)
LEMMA CallStep ==
    ASSUME NEW plan, Follows(plan), Call
    PROVE  Follows(plan)'
<1> USE DEF Follows
<1>1. /\ app \in {"create", "preview"} /\ ~calling /\ at <= Len(props) /\ Valid(props[at])
      /\ calling' = TRUE /\ todo' = Steps(Root, props[at])
      /\ props' = [props EXCEPT ![at] = Changed(props[at])]
      /\ app' = app /\ at' = at /\ made' = made /\ deps' = deps /\ results' = results
      /\ created' = created
    BY DEF Call, InApp
<1>2. /\ plan \in Plans /\ props \in Seq(Component) /\ Len(props) = Len(plan)
      /\ at \in 1..Len(plan) /\ results \in Seq(Results) /\ Len(results) = at - 1
    BY <1>1 DEF Counts
<1>3. Arg(plan, at) = props[at]
    BY <1>1, <1>2 DEF PropsFollow, Arg
<1>4. /\ \A i : Arg(plan, i)' = Arg(plan, i) /\ StepsOf(plan, i)' = StepsOf(plan, i)
    BY <1>1 DEF Arg, StepsOf
<1>5. /\ props[at] \in Component /\ Changed(props[at]) \in Component
      /\ Changed(props[at]) = Changed(plan[at])
    BY <1>2, <1>3, ArgFacts, ChangedFacts
<1>6. /\ props' \in Seq(Component) /\ Len(props') = Len(props) /\ props'[at] = Changed(plan[at])
      /\ \A i \in 1..Len(plan) : i # at => props'[i] = props[i]
    BY <1>1, <1>2, <1>5, ExceptSeq
<1>7. IsSeq(todo')
    BY <1>1, <1>2, <1>3, ArgFacts DEF Block, StepsOf
<1>8. Counts(plan)'
    BY <1>1, <1>2, <1>6, <1>7 DEF Counts
<1>9. PropsFollow(plan)'
    BY <1>1, <1>2, <1>6 DEF PropsFollow
<1>10. MadeFollow(plan)'
    BY <1>1, <1>2, <1>4 DEF MadeFollow
<1>11. DoneFollow(plan)'
    BY <1>1, <1>4 DEF DoneFollow, Whole
<1>12. CallFollows(plan)'
    <2>1. /\ IsSeq(<<>>) /\ Makes(<<>>) = {} /\ Depends(<<>>) = {} /\ Apart(<<>>)
        BY NoneFacts DEF Makes, Depends, Apart
    <2>2. <<>> \o todo' = todo'
        BY <1>7, ConcatEmptySeq DEF IsSeq
    <2>3. \A o \in made : o.of # at
        BY <1>1 DEF MadeFollow
    <2>4. StepsOf(plan, at) = todo'
        BY <1>1, <1>3 DEF StepsOf
    <2>5. Progress(plan, <<>>)'
        BY <1>1, <1>4, <2>1, <2>2, <2>3, <2>4 DEF Progress, Builds
    <2> QED
        BY <1>1, <1>3, <1>4, <2>5 DEF CallFollows
<1>13. DepsFollow(plan)'
    BY <1>1, <1>4 DEF DepsFollow
<1>14. CreatedFollows(plan)'
    BY <1>1 DEF CreatedFollows, Complete
<1> QED
    BY <1>8, <1>9, <1>10, <1>11, <1>12, <1>13, <1>14

LEMMA ReturnStep ==
    ASSUME NEW plan, NEW result \in Results, Follows(plan), InApp,
           at <= Len(plan), Return(result), UNCHANGED <<props, app, made, deps, created>>,
           result = "error" => ~calling /\ ~Valid(Arg(plan, at)),
           result # "error" => calling,
           result = "unimplemented" => Unimplemented(StepsOf(plan, at)),
           result = "ok" => Whole(plan, at)
    PROVE  Follows(plan)'
<1> USE DEF Follows
<1>1. /\ app \in {"create", "preview"} /\ results' = Append(results, result) /\ at' = at + 1
      /\ calling' = FALSE /\ todo' = <<>>
      /\ props' = props /\ app' = app /\ made' = made /\ deps' = deps /\ created' = created
    BY DEF Return, InApp
<1>2. /\ plan \in Plans /\ props \in Seq(Component) /\ Len(props) = Len(plan)
      /\ at \in 1..Len(plan) /\ results \in Seq(Results) /\ Len(results) = at - 1
    BY DEF Counts
<1>3. /\ results' \in Seq(Results) /\ Len(results') = at
      /\ results'[at] = result /\ \A i \in 1..(at - 1) : results'[i] = results[i]
    BY <1>1, <1>2, AppendProperties
<1>4. /\ \A i : Arg(plan, i)' = Arg(plan, i) /\ StepsOf(plan, i)' = StepsOf(plan, i)
    BY <1>1 DEF Arg, StepsOf
<1>5. Len(plan) \in Nat
    BY <1>2, LenProperties
<1>6. Counts(plan)'
    <2>1. at + 1 \in 1..(Len(plan) + 1) /\ Len(results') = at + 1 - 1
        BY <1>2, <1>3, <1>5
    <2>2. IsSeq(<<>>)
        BY NoneFacts
    <2>3. /\ plan \in Plans /\ props' \in Seq(Component) /\ Len(props') = Len(plan)
          /\ at' \in 1..(Len(plan) + 1)
        BY <1>1, <1>2, <2>1
    <2>4. results' \in Seq(Results) /\ Len(results') = at' - 1
        BY <1>1, <1>3, <2>1
    <2>5. calling' \in BOOLEAN /\ (calling' => at' <= Len(plan)) /\ IsSeq(todo')
        BY <1>1, <2>2
    <2> QED
        BY <2>3, <2>4, <2>5 DEF Counts
<1>7. PropsFollow(plan)'
    BY <1>1, <1>2, <1>3, <1>5 DEF PropsFollow
<1>8. MadeFollow(plan)'
    BY <1>1, <1>2, <1>3, <1>4, <1>5 DEF MadeFollow
<1>9. DoneFollow(plan)'
    <2> SUFFICES ASSUME NEW i \in 1..at
                 PROVE  /\ results'[i] = "error" => ~Valid(Arg(plan, i))
                        /\ results'[i] = "unimplemented" => Unimplemented(StepsOf(plan, i))
                        /\ results'[i] = "ok" => Whole(plan, i)
        BY <1>1, <1>2, <1>4 DEF DoneFollow, Whole
    <2>1. CASE i = at
        BY <1>3, <2>1
    <2>2. CASE i # at
        <3>1. i \in 1..(at - 1)
            BY <1>2, <2>2
        <3> QED
            BY <1>3, <3>1 DEF DoneFollow
    <2> QED
        BY <2>1, <2>2
<1>10. CallFollows(plan)'
    BY <1>1 DEF CallFollows
<1>11. DepsFollow(plan)'
    BY <1>1, <1>4 DEF DepsFollow
<1>12. CreatedFollows(plan)'
    BY <1>1 DEF CreatedFollows, Complete
<1> QED
    BY <1>6, <1>7, <1>8, <1>9, <1>10, <1>11, <1>12

LEMMA CallInvalidStep ==
    ASSUME NEW plan, Follows(plan), CallInvalid
    PROVE  Follows(plan)'
<1>1. /\ InApp /\ ~calling /\ at <= Len(props) /\ ~Valid(props[at]) /\ Return("error")
      /\ UNCHANGED <<props, app, made, deps, created>>
    BY DEF CallInvalid
<1>2. Len(props) = Len(plan) /\ at \in 1..Len(plan)
    BY <1>1 DEF Follows, Counts
<1>3. Arg(plan, at) = props[at]
    BY <1>1, <1>2 DEF Follows, PropsFollow, Arg, InApp
<1>4. "error" \in Results
    BY DEF Results
<1> QED
    BY <1>1, <1>2, <1>3, <1>4, ReturnStep

LEMMA FetchFailsStep ==
    ASSUME NEW plan, Follows(plan), FetchFails
    PROVE  Follows(plan)'
<1>1. /\ InApp /\ calling /\ Return("helm") /\ UNCHANGED <<props, app, made, deps, created>>
    BY DEF FetchFails, NextIs
<1>2. at <= Len(plan) /\ "helm" \in Results
    BY <1>1 DEF Follows, Counts, Results
<1> QED
    BY <1>1, <1>2, ReturnStep

LEMMA CallReturnsStep ==
    ASSUME NEW plan, Follows(plan), CallReturns
    PROVE  Follows(plan)'
<1>1. /\ InApp /\ calling /\ todo = <<>> /\ Return("ok")
      /\ UNCHANGED <<props, app, made, deps, created>>
    BY DEF CallReturns
<1>2. at <= Len(plan)
    BY <1>1 DEF Follows, Counts
<1>3. Valid(Arg(plan, at))
    BY <1>1 DEF Follows, CallFollows
<1>4. PICK done : Progress(plan, done)
    BY <1>1 DEF Follows, CallFollows
<1>5. done \o <<>> = done
    BY <1>4, ConcatEmptySeq DEF Progress, IsSeq
<1>6. StepsOf(plan, at) = done
    BY <1>1, <1>4, <1>5 DEF Progress
<1>7. Whole(plan, at)
    BY <1>3, <1>4, <1>6 DEF Whole, Progress
<1>8. "ok" \in Results
    BY DEF Results
<1> QED
    BY <1>1, <1>2, <1>7, <1>8, ReturnStep

(* What both kinds of step of a call have in common: done grows by the     *)
(* head of todo.                                                           *)
LEMMA ProgressStep ==
    ASSUME NEW plan, Follows(plan), calling, todo # <<>>
    PROVE  /\ Valid(Arg(plan, at)) /\ at \in 1..Len(plan) /\ plan \in Plans
           /\ \E done :
                 /\ Progress(plan, done)
                 /\ IsSeq(Append(done, Head(todo))) /\ IsSeq(Tail(todo))
                 /\ StepsOf(plan, at) = Append(done, Head(todo)) \o Tail(todo)
                 /\ ToSet(Append(done, Head(todo))) = ToSet(done) \cup {Head(todo)}
                 /\ Head(todo) \in ToSet(StepsOf(plan, at))
                 /\ (Head(todo).op = "make" => \A y \in Makes(done) : y.path # Head(todo).path)
                    => Apart(Append(done, Head(todo)))
                 /\ Head(todo).op = "make" /\ (\E y \in Makes(done) : y.path = Head(todo).path)
                    => ~Apart(StepsOf(plan, at))
<1>1. Valid(Arg(plan, at)) /\ at \in 1..Len(plan) /\ plan \in Plans /\ IsSeq(todo)
    BY DEF Follows, Counts, CallFollows
<1>2. PICK done : Progress(plan, done)
    BY DEF Follows, CallFollows
<1>3. /\ IsSeq(done) /\ StepsOf(plan, at) = done \o todo /\ Apart(done)
    BY <1>2 DEF Progress
<1>4. /\ IsSeq(Append(done, Head(todo))) /\ IsSeq(Tail(todo))
      /\ StepsOf(plan, at) = Append(done, Head(todo)) \o Tail(todo)
      /\ ToSet(Append(done, Head(todo))) = ToSet(done) \cup {Head(todo)}
      /\ Head(todo) \in ToSet(StepsOf(plan, at))
    BY <1>1, <1>3, AdvanceFacts
<1>5. /\ (Head(todo).op = "make" => \A y \in Makes(done) : y.path # Head(todo).path)
         => Apart(Append(done, Head(todo)))
      /\ Head(todo).op = "make" /\ (\E y \in Makes(done) : y.path = Head(todo).path)
         => ~Apart(StepsOf(plan, at))
    BY <1>1, <1>3, AdvanceFacts
<1> QED
    BY <1>1, <1>2, <1>4, <1>5

LEMMA NotImplementedStep ==
    ASSUME NEW plan, Follows(plan), NotImplemented
    PROVE  Follows(plan)'
<1>1. /\ InApp /\ calling /\ todo # <<>> /\ Head(todo).op = "make"
      /\ Head(todo).what[1] = "Blockscout" /\ Return("unimplemented")
      /\ UNCHANGED <<props, app, made, deps, created>>
    BY DEF NotImplemented, NextIs
<1>2. at <= Len(plan) /\ "unimplemented" \in Results
    BY <1>1 DEF Follows, Counts, Results
<1>3. Head(todo) \in ToSet(StepsOf(plan, at))
    BY <1>1, ProgressStep
<1>4. Unimplemented(StepsOf(plan, at))
    BY <1>1, <1>3 DEF Unimplemented, Makes
<1> QED
    BY <1>1, <1>2, <1>4, ReturnStep

LEMMA MakeStep ==
    ASSUME NEW plan, Follows(plan), MakeConstruct
    PROVE  Follows(plan)'
<1> DEFINE x == Head(todo)
<1>1. /\ app \in {"create", "preview"} /\ calling /\ todo # <<>> /\ x.op = "make"
      /\ \A o \in made : o.path # x.path
      /\ x.what[1] # "Blockscout"
      /\ made' = made \cup {Construct(x)} /\ todo' = Tail(todo)
      /\ props' = props /\ app' = app /\ at' = at /\ calling' = calling /\ deps' = deps
      /\ results' = results /\ created' = created
    BY DEF MakeConstruct, NextIs, Taken, InApp
<1>3. Construct(x) = Built(x, at)
    BY DEF Construct, Built
<1>4. \A i : Arg(plan, i)' = Arg(plan, i) /\ StepsOf(plan, i)' = StepsOf(plan, i)
    BY <1>1 DEF Arg, StepsOf
<1>5. Valid(Arg(plan, at)) /\ at \in 1..Len(plan) /\ plan \in Plans
    BY <1>1, ProgressStep
<1>6. PICK done :
         /\ Progress(plan, done)
         /\ IsSeq(Append(done, x)) /\ IsSeq(Tail(todo))
         /\ StepsOf(plan, at) = Append(done, x) \o Tail(todo)
         /\ ToSet(Append(done, x)) = ToSet(done) \cup {x}
         /\ x \in ToSet(StepsOf(plan, at))
         /\ (x.op = "make" => \A y \in Makes(done) : y.path # x.path) => Apart(Append(done, x))
    BY <1>1, ProgressStep
<1> DEFINE b == Built(x, at)
<1>7. b.path = x.path /\ b.of = at /\ b.what = x.what
    BY DEF Built
<1>8. x \in Makes(StepsOf(plan, at))
    BY <1>1, <1>6 DEF Makes
<1>9. b \in Builds(StepsOf(plan, at), at)
    BY <1>8 DEF Builds
<1>10. Counts(plan)'
    BY <1>1, <1>6 DEF Follows, Counts
<1>11. PropsFollow(plan)'
    BY <1>1 DEF Follows, PropsFollow
<1>12. MadeFollow(plan)'
    <2> SUFFICES ASSUME NEW o \in made'
                 PROVE  /\ o.of \in 1..Len(plan) /\ o.of <= at
                        /\ o.of = at => calling
                        /\ o.of < at => results[o.of] # "error"
                        /\ Valid(Arg(plan, o.of))
                        /\ o \in Builds(StepsOf(plan, o.of), o.of)
                        /\ o.what[1] # "Blockscout"
        BY <1>1, <1>4 DEF MadeFollow
    <2> HIDE DEF x, b
    <2>1. CASE o \in made
        BY <2>1 DEF Follows, MadeFollow
    <2>2. CASE o = b
        BY <1>1, <1>5, <1>7, <1>9, <2>2
    <2> QED
        BY <1>1, <1>3, <2>1, <2>2 DEF b
<1>13. DoneFollow(plan)'
    BY <1>1, <1>4 DEF Follows, DoneFollow, Whole
<1>14. CallFollows(plan)'
    <2>0. PICK d : d = Append(done, x)
        OBVIOUS
    <2>1. Makes(d) = Makes(done) \cup {x}
        BY <1>1, <1>6, <2>0 DEF Makes
    <2>2. Depends(d) = Depends(done)
        BY <1>1, <1>6, <2>0 DEF Depends
    <2>3. /\ Apart(done) /\ Builds(done, at) \subseteq made /\ Depends(done) \subseteq deps
          /\ \A o \in made : o.of = at => o \in Builds(done, at)
        BY <1>6 DEF Progress
    <2>4. Apart(d)
        <3> SUFFICES ASSUME NEW y \in Makes(done) PROVE y.path # x.path
            BY <1>6, <2>0
        <3>1. Built(y, at) \in made
            BY <2>3 DEF Builds
        <3>2. Built(y, at).path = y.path
            BY DEF Built
        <3> QED
            BY <1>1, <3>1, <3>2
    <2>5. Builds(d, at) = Builds(done, at) \cup {b}
        BY <2>1 DEF Builds
    <2>6. IsSeq(d) /\ StepsOf(plan, at) = d \o Tail(todo)
        BY <1>6, <2>0
    <2>7. made' = made \cup {b}
        BY <1>1, <1>3
    <2> HIDE DEF b, x
    <2>8. /\ Builds(d, at) \subseteq made' /\ Depends(d) \subseteq deps
          /\ \A o \in made' : o.of = at => o \in Builds(d, at)
        BY <2>2, <2>3, <2>5, <2>7
    <2>9. Progress(plan, d)'
        BY <1>1, <1>4, <2>4, <2>6, <2>8 DEF Progress, x
    <2> QED
        BY <1>1, <1>4, <1>5, <2>9 DEF CallFollows
<1>15. DepsFollow(plan)'
    BY <1>1, <1>4 DEF Follows, DepsFollow
<1>16. CreatedFollows(plan)'
    BY <1>1 DEF Follows, CreatedFollows, Complete
<1> QED
    BY <1>10, <1>11, <1>12, <1>13, <1>14, <1>15, <1>16 DEF Follows

LEMMA DependStep ==
    ASSUME NEW plan, Follows(plan), Depend
    PROVE  Follows(plan)'
<1> DEFINE x == Head(todo)
           e == <<x.from, x.on>>
<1>1. /\ app \in {"create", "preview"} /\ calling /\ todo # <<>> /\ x.op = "depend"
      /\ deps' = deps \cup {e} /\ todo' = Tail(todo)
      /\ props' = props /\ app' = app /\ at' = at /\ calling' = calling /\ made' = made
      /\ results' = results /\ created' = created
    BY DEF Depend, NextIs, InApp
<1>4. \A i : Arg(plan, i)' = Arg(plan, i) /\ StepsOf(plan, i)' = StepsOf(plan, i)
    BY <1>1 DEF Arg, StepsOf
<1>5. Valid(Arg(plan, at)) /\ at \in 1..Len(plan) /\ plan \in Plans
    BY <1>1, ProgressStep
<1>6. PICK done :
         /\ Progress(plan, done)
         /\ IsSeq(Append(done, x)) /\ IsSeq(Tail(todo))
         /\ StepsOf(plan, at) = Append(done, x) \o Tail(todo)
         /\ ToSet(Append(done, x)) = ToSet(done) \cup {x}
         /\ x \in ToSet(StepsOf(plan, at))
         /\ (x.op = "make" => \A y \in Makes(done) : y.path # x.path) => Apart(Append(done, x))
    BY <1>1, ProgressStep
<1>9. e \in Depends(StepsOf(plan, at))
    BY <1>1, <1>6 DEF Depends
<1>10. Counts(plan)'
    BY <1>1, <1>6 DEF Follows, Counts
<1>11. PropsFollow(plan)'
    BY <1>1 DEF Follows, PropsFollow
<1>12. MadeFollow(plan)'
    BY <1>1, <1>4 DEF Follows, MadeFollow
<1>13. DoneFollow(plan)'
    BY <1>1, <1>4 DEF Follows, DoneFollow, Whole
<1>14. CallFollows(plan)'
    <2>0. PICK d : d = Append(done, x)
        OBVIOUS
    <2>1. Makes(d) = Makes(done)
        BY <1>1, <1>6, <2>0 DEF Makes
    <2>2. Depends(d) = Depends(done) \cup {e}
        <3>1. \A y : y \in ToSet(d) /\ y.op = "depend" <=>
                         (y \in ToSet(done) /\ y.op = "depend") \/ y = x
            BY <1>1, <1>6, <2>0
        <3> HIDE DEF x
        <3> QED
            BY <3>1 DEF Depends
    <2>3. /\ Apart(done) /\ Builds(done, at) \subseteq made /\ Depends(done) \subseteq deps
          /\ \A o \in made : o.of = at => o \in Builds(done, at)
        BY <1>6 DEF Progress
    <2>4. Apart(d)
        BY <1>1, <1>6, <2>0
    <2>5. Builds(d, at) = Builds(done, at)
        BY <2>1 DEF Builds
    <2>6. IsSeq(d) /\ StepsOf(plan, at) = d \o Tail(todo)
        BY <1>6, <2>0
    <2> HIDE DEF e, x
    <2>8. /\ Builds(d, at) \subseteq made /\ Depends(d) \subseteq deps'
          /\ \A o \in made : o.of = at => o \in Builds(d, at)
        BY <1>1, <2>2, <2>3, <2>5
    <2>9. Progress(plan, d)'
        BY <1>1, <1>4, <2>4, <2>6, <2>8 DEF Progress, x
    <2> QED
        BY <1>1, <1>4, <1>5, <2>9 DEF CallFollows
<1>15. DepsFollow(plan)'
    <2> SUFFICES ASSUME NEW f \in deps'
                 PROVE  \E i \in 1..Len(plan) :
                            Valid(Arg(plan, i)) /\ f \in Depends(StepsOf(plan, i))
        BY <1>1, <1>4 DEF DepsFollow
    <2> HIDE DEF e, x
    <2> QED
        BY <1>1, <1>5, <1>9 DEF Follows, DepsFollow
<1>16. CreatedFollows(plan)'
    BY <1>1 DEF Follows, CreatedFollows, Complete
<1> QED
    BY <1>10, <1>11, <1>12, <1>13, <1>14, <1>15, <1>16 DEF Follows

LEMMA EndCreateStep ==
    ASSUME NEW plan, Follows(plan), EndCreate, app' = "created"
    PROVE  Follows(plan)'
<1>1. /\ app = "create" /\ ~calling /\ at > Len(props) /\ created' = made
      /\ ToSet(results) \subseteq {"ok"}
      /\ props' = props /\ at' = at /\ todo' = todo /\ calling' = calling /\ made' = made
      /\ deps' = deps /\ results' = results
    BY DEF EndCreate
<1>2. /\ plan \in Plans /\ Len(props) = Len(plan) /\ at \in 1..(Len(plan) + 1)
      /\ results \in Seq(Results) /\ Len(results) = at - 1
    BY DEF Follows, Counts
<1>3. Len(plan) \in Nat
    BY <1>2, PlansAssumption, LenProperties
<1>4. at = Len(plan) + 1 /\ Len(results) = Len(plan)
    BY <1>1, <1>2, <1>3
<1>5. \A i \in 1..Len(plan) : results[i] = "ok"
    <2>1. IsSeq(results)
        BY <1>2, SeqOfSet
    <2> QED
        BY <1>1, <1>4, <2>1, SeqFacts
<1>6. /\ \A i : Arg(plan, i) = plan[i] /\ StepsOf(plan, i) = Steps(Root, plan[i])
      /\ \A i : Arg(plan, i)' = Arg(plan, i) /\ StepsOf(plan, i)' = StepsOf(plan, i)
    BY <1>1 DEF Arg, StepsOf
<1>7. \A i \in 1..Len(plan) : Whole(plan, i)
    BY <1>3, <1>4, <1>5 DEF Follows, DoneFollow
<1>8. made = Complete(plan)
    <2>1. ASSUME NEW o \in made PROVE o \in Complete(plan)
        BY <1>6, <2>1 DEF Follows, MadeFollow, Complete
    <2>2. ASSUME NEW i \in 1..Len(plan) PROVE Builds(Steps(Root, plan[i]), i) \subseteq made
        BY <1>6, <1>7 DEF Whole
    <2> QED
        BY <2>1, <2>2 DEF Complete
<1>9. Counts(plan)'
    BY <1>1 DEF Follows, Counts
<1>10. PropsFollow(plan)'
    BY <1>1, <1>3, <1>4, <1>5 DEF Follows, PropsFollow
<1>11. MadeFollow(plan)'
    BY <1>1, <1>6 DEF Follows, MadeFollow
<1>12. DoneFollow(plan)'
    BY <1>1, <1>6 DEF Follows, DoneFollow, Whole
<1>13. CallFollows(plan)'
    BY <1>1 DEF CallFollows
<1>14. DepsFollow(plan)'
    BY <1>1, <1>6 DEF Follows, DepsFollow
<1>15. CreatedFollows(plan)'
    <2>1. \A i \in 1..Len(plan) : Valid(plan[i])
        BY <1>6, <1>7 DEF Whole
    <2>2. ASSUME NEW i \in 1..Len(plan) PROVE ~Unimplemented(Steps(Root, plan[i]))
        <3> SUFFICES ASSUME NEW x \in Makes(Steps(Root, plan[i])) PROVE x.what[1] # "Blockscout"
            BY DEF Unimplemented
        <3>1. Built(x, i) \in made
            BY <1>6, <1>7 DEF Whole, Builds
        <3>2. Built(x, i).what = x.what
            BY DEF Built
        <3> QED
            BY <3>1, <3>2 DEF Follows, MadeFollow
    <2> QED
        BY <1>1, <1>4, <1>5, <1>8, <2>1, <2>2 DEF CreatedFollows, Complete
<1> QED
    BY <1>9, <1>10, <1>11, <1>12, <1>13, <1>14, <1>15 DEF Follows

LEMMA BeginPreviewStep ==
    ASSUME NEW plan, Follows(plan), BeginPreview
    PROVE  Follows(plan)'
<1>1. /\ app = "created" /\ app' = "preview" /\ at' = 1 /\ made' = {} /\ deps' = {}
      /\ results' = <<>> /\ props' = props /\ todo' = todo /\ calling' = calling
      /\ created' = created
    BY DEF BeginPreview
<1>2. /\ ~calling /\ created = Complete(plan)
      /\ \A i \in 1..Len(plan) : Valid(plan[i]) /\ ~Unimplemented(Steps(Root, plan[i]))
    BY <1>1 DEF Follows, CreatedFollows
<1>3. /\ plan \in Plans /\ props \in Seq(Component) /\ Len(props) = Len(plan) /\ IsSeq(todo)
      /\ Len(plan) \in Nat
    BY PlansAssumption, LenProperties DEF Follows, Counts
<1>4. Counts(plan)'
    <2>1. 1 \in 1..(Len(plan) + 1) /\ <<>> \in Seq(Results) /\ Len(<<>>) = 1 - 1
        BY <1>3
    <2>2. calling' = FALSE
        BY <1>1, <1>2 DEF Follows, Counts
    <2>3. /\ at' \in 1..(Len(plan) + 1) /\ results' \in Seq(Results)
          /\ Len(results') = at' - 1
        BY <1>1, <2>1
    <2>4. /\ plan \in Plans /\ props' \in Seq(Component) /\ Len(props') = Len(plan) /\ IsSeq(todo')
        BY <1>1, <1>3
    <2>5. calling' \in BOOLEAN /\ (calling' => at' <= Len(plan))
        BY <2>2
    <2> QED
        BY <2>3, <2>4, <2>5 DEF Counts
<1>5. PropsFollow(plan)'
    BY <1>1 DEF Follows, PropsFollow
<1>6. MadeFollow(plan)' /\ DepsFollow(plan)' /\ CallFollows(plan)'
    BY <1>1, <1>2 DEF MadeFollow, DepsFollow, CallFollows
<1>7. DoneFollow(plan)'
    BY <1>1 DEF DoneFollow
<1>8. CreatedFollows(plan)'
    BY <1>1, <1>2 DEF CreatedFollows, Complete
<1> QED
    BY <1>4, <1>5, <1>6, <1>7, <1>8 DEF Follows

LEMMA EndPreviewStep ==
    ASSUME NEW plan, Follows(plan), EndPreview
    PROVE  Follows(plan)'
<1>1. /\ app = "preview" /\ app' = "previewed" /\ ~calling /\ at > Len(props)
      /\ props' = props /\ at' = at /\ todo' = todo /\ calling' = calling /\ made' = made
      /\ deps' = deps /\ results' = results /\ created' = created
    BY DEF EndPreview
<1>2. at = Len(plan) + 1
    <2>1. /\ plan \in Plans /\ Len(props) = Len(plan) /\ at \in 1..(Len(plan) + 1)
        BY DEF Follows, Counts
    <2>2. Len(plan) \in Nat
        BY <2>1, PlansAssumption, LenProperties
    <2> QED
        BY <1>1, <2>1, <2>2
<1>3. \A i : Arg(plan, i)' = Arg(plan, i) /\ StepsOf(plan, i)' = StepsOf(plan, i)
    BY <1>1 DEF Arg, StepsOf
<1>4. Counts(plan)' /\ PropsFollow(plan)'
    BY <1>1 DEF Follows, Counts, PropsFollow
<1>5. MadeFollow(plan)' /\ DoneFollow(plan)' /\ DepsFollow(plan)'
    BY <1>1, <1>3 DEF Follows, MadeFollow, DoneFollow, DepsFollow, Whole
<1>6. CallFollows(plan)' /\ CreatedFollows(plan)'
    BY <1>1, <1>2 DEF Follows, CallFollows, CreatedFollows, Complete
<1> QED
    BY <1>4, <1>5, <1>6 DEF Follows

(* A path that is taken is taken by a twin.                                *)
LEMMA PathTaken ==
    ASSUME NEW s, NEW t, NEW X, NEW Y, NEW a, NEW b, NEW x \in Makes(s), NEW y \in Makes(t),
           Block(Root, X, s, a), Block(Root, Y, t, b), x.path = y.path
    PROVE  X \cap Y # {}
BY DEF Block, Under

LEMMA IdTakenStep ==
    ASSUME NEW plan, Follows(plan), IdTaken
    PROVE  PanicsOnlyOnTwins'
<1> DEFINE x == Head(todo)
<1>1. /\ app \in {"create", "preview"} /\ calling /\ todo # <<>> /\ x.op = "make"
      /\ \E o \in made : o.path = x.path
      /\ props' = props /\ at' = at
    BY DEF IdTaken, NextIs, Taken, InApp
<1>2. Valid(Arg(plan, at)) /\ at \in 1..Len(plan) /\ plan \in Plans
    BY <1>1, ProgressStep
<1>3. PICK done :
         /\ Progress(plan, done)
         /\ x \in ToSet(StepsOf(plan, at))
         /\ x.op = "make" /\ (\E y \in Makes(done) : y.path = x.path)
            => ~Apart(StepsOf(plan, at))
    BY <1>1, ProgressStep
<1>4. PICK o \in made : o.path = x.path
    BY <1>1
<1>5. /\ o.of \in 1..Len(plan) /\ o.of <= at /\ (o.of < at => results[o.of] # "error")
      /\ Valid(Arg(plan, o.of)) /\ o \in Builds(StepsOf(plan, o.of), o.of)
    BY DEF Follows, MadeFollow
<1>6. x \in Makes(StepsOf(plan, at))
    BY <1>1, <1>3 DEF Makes
<1>7. props[at] = Changed(plan[at]) /\ Changed(Arg(plan, at)) = Changed(plan[at])
    BY <1>1, <1>2, ArgFacts DEF Follows, PropsFollow
<1> HIDE DEF x
<1>8. CASE o.of = at
    <2>1. o \in Builds(done, at)
        BY <1>3, <1>8 DEF Progress
    <2>2. \E y \in Makes(done) : y.path = o.path
        BY <2>1 DEF Builds, Built
    <2>3. ~Apart(StepsOf(plan, at))
        BY <1>1, <1>3, <1>4, <2>2
    <2>4. HasTwins(Arg(plan, at))
        BY <1>2, <2>3, ArgFacts DEF Block
    <2>5. Arg(plan, at) \in Component
        BY <1>2, ArgFacts
    <2>6. HasTwins(props[at])
        BY <1>7, <2>4, <2>5, ChangedFacts
    <2> QED
        BY <1>1, <2>6 DEF PanicsOnlyOnTwins
<1>9. CASE o.of # at
    <2> DEFINE i == o.of
               c == Arg(plan, i)
               d == Arg(plan, at)
    <2>1. i \in 1..(at - 1) /\ results[i] # "error"
        BY <1>2, <1>5, <1>9
    <2>2. PICK y \in Makes(StepsOf(plan, i)) : o = Built(y, i)
        BY <1>5 DEF Builds
    <2>3. y.path = x.path
        BY <1>4, <2>2 DEF Built
    <2>4. c \in Component /\ d \in Component /\ Valid(c) /\ Valid(d)
        BY <1>2, <1>5, ArgFacts
    <2>5. /\ Block(Root, Ids(c), StepsOf(plan, i), ~HasTwins(c))
          /\ Block(Root, Ids(d), StepsOf(plan, at), ~HasTwins(d))
        BY <1>2, <1>5, ArgFacts
    <2>6. props[i] = Changed(plan[i]) /\ Changed(c) = Changed(plan[i])
        BY <1>1, <1>2, <1>5, <2>1, ArgFacts DEF Follows, PropsFollow
    <2> HIDE DEF c, d, i
    <2>7. Ids(c) \cap Ids(d) # {}
        BY <1>6, <2>3, <2>5, PathTaken
    <2>8. Twins(Changed(c), Changed(d))
        BY <2>4, <2>7, IdsTell
    <2>9. Twins(props[i], props[at])
        BY <1>7, <2>6, <2>8 DEF d
    <2> QED
        BY <1>1, <2>1, <2>9 DEF PanicsOnlyOnTwins
<1> QED
    BY <1>8, <1>9

----------------------------------------------------------------------------
LEMMA InitFollows ==
    ASSUME Init
    PROVE  Follows(props)
<1>1. /\ props \in Plans /\ app = "create" /\ at = 1 /\ todo = <<>> /\ calling = FALSE
      /\ made = {} /\ deps = {} /\ results = <<>>
    BY DEF Init
<1>2. props \in Seq(Component) /\ Len(props) \in Nat
    BY <1>1, PlansAssumption, LenProperties
<1>3. Counts(props)
    <2>1. at \in 1..(Len(props) + 1)
        BY <1>1, <1>2
    <2>2. results \in Seq(Results) /\ Len(results) = at - 1
        BY <1>1
    <2>3. IsSeq(todo)
        BY <1>1, NoneFacts
    <2>4. calling \in BOOLEAN /\ (calling => at <= Len(props))
        BY <1>1
    <2> QED
        BY <1>1, <1>2, <2>1, <2>2, <2>3, <2>4 DEF Counts
<1>4. PropsFollow(props) /\ MadeFollow(props) /\ DepsFollow(props) /\ CallFollows(props)
    BY <1>1, <1>2 DEF PropsFollow, MadeFollow, DepsFollow, CallFollows
<1>5. DoneFollow(props) /\ CreatedFollows(props)
    BY <1>1 DEF DoneFollow, CreatedFollows
<1> QED
    BY <1>3, <1>4, <1>5 DEF Follows

LEMMA StutterFollows ==
    ASSUME NEW plan, Follows(plan), UNCHANGED vars
    PROVE  Follows(plan)'
<1>1. /\ props' = props /\ app' = app /\ at' = at /\ todo' = todo /\ calling' = calling
      /\ made' = made /\ deps' = deps /\ results' = results /\ created' = created
    BY DEF vars
<1>2. \A i : Arg(plan, i)' = Arg(plan, i) /\ StepsOf(plan, i)' = StepsOf(plan, i)
    BY <1>1 DEF Arg, StepsOf
<1>3. Counts(plan)' /\ PropsFollow(plan)'
    BY <1>1 DEF Follows, Counts, PropsFollow
<1>4. MadeFollow(plan)' /\ DoneFollow(plan)' /\ DepsFollow(plan)'
    BY <1>1, <1>2 DEF Follows, MadeFollow, DoneFollow, DepsFollow, Whole
<1>5. CallFollows(plan)'
    BY <1>1, <1>2 DEF Follows, CallFollows, Progress
<1>6. CreatedFollows(plan)'
    BY <1>1 DEF Follows, CreatedFollows, Complete
<1> QED
    BY <1>3, <1>4, <1>5, <1>6 DEF Follows

(* While nothing panics, the App holds what the functions called so far    *)
(* have made of the plan's props, and a panic is over twins.               *)
THEOREM RunFollowsPlan == Spec => []RunInv
<1>1. Init => RunInv
    <2> SUFFICES ASSUME Init PROVE RunInv
        OBVIOUS
    <2>1. Follows(props) /\ props \in Plans /\ app = "create"
        BY InitFollows DEF Init
    <2> QED
        BY <2>1 DEF RunInv, PanicsOnlyOnTwins
<1>2. RunInv /\ [Next]_vars => RunInv'
    <2> SUFFICES ASSUME RunInv, [Next]_vars PROVE RunInv'
        OBVIOUS
    <2>1. ASSUME Running, app' # "panic",
                 app' \in {"create", "created", "preview", "previewed", "offline", "failed"},
                 \A plan \in Plans : Follows(plan) => (Running' => Follows(plan)')
          PROVE  RunInv'
        BY <2>1 DEF RunInv, PanicsOnlyOnTwins
    <2>2. CASE Call
        <3>1. app \in {"create", "preview"} /\ app' = app
            BY <2>2 DEF Call, InApp
        <3> QED
            BY <2>1, <2>2, <3>1, CallStep DEF Running
    <2>3. CASE CallInvalid
        <3>1. app \in {"create", "preview"} /\ app' = app
            BY <2>3 DEF CallInvalid, InApp
        <3> QED
            BY <2>1, <2>3, <3>1, CallInvalidStep DEF Running
    <2>4. CASE MakeConstruct
        <3>1. app \in {"create", "preview"} /\ app' = app
            BY <2>4 DEF MakeConstruct, NextIs, InApp
        <3> QED
            BY <2>1, <2>4, <3>1, MakeStep DEF Running
    <2>5. CASE IdTaken
        <3>1. app \in {"create", "preview"} /\ app' = "panic"
            BY <2>5 DEF IdTaken, NextIs, InApp
        <3>2. PanicsOnlyOnTwins'
            BY <2>5, <3>1, IdTakenStep DEF RunInv, Running
        <3> QED
            BY <3>1, <3>2 DEF RunInv, Running
    <2>6. CASE DownloadPanics
        <3>1. app \in {"create", "preview"} /\ app' = "offline"
            BY <2>6 DEF DownloadPanics, NextIs, InApp
        <3> QED
            BY <3>1 DEF RunInv, Running, PanicsOnlyOnTwins
    <2>7. CASE FetchFails
        <3>1. app \in {"create", "preview"} /\ app' = app
            BY <2>7 DEF FetchFails, NextIs, InApp
        <3> QED
            BY <2>1, <2>7, <3>1, FetchFailsStep DEF Running
    <2>14. CASE NotImplemented
        <3>1. app \in {"create", "preview"} /\ app' = app
            BY <2>14 DEF NotImplemented, NextIs, InApp
        <3> QED
            BY <2>1, <2>14, <3>1, NotImplementedStep DEF Running
    <2>8. CASE Depend
        <3>1. app \in {"create", "preview"} /\ app' = app
            BY <2>8 DEF Depend, NextIs, InApp
        <3> QED
            BY <2>1, <2>8, <3>1, DependStep DEF Running
    <2>9. CASE CallReturns
        <3>1. app \in {"create", "preview"} /\ app' = app
            BY <2>9 DEF CallReturns, InApp
        <3> QED
            BY <2>1, <2>9, <3>1, CallReturnsStep DEF Running
    <2>10. CASE EndCreate
        <3>1. app = "create" /\ app' \in {"created", "failed"}
            BY <2>10 DEF EndCreate
        <3> QED
            BY <2>1, <2>10, <3>1, EndCreateStep DEF Running
    <2>11. CASE BeginPreview
        <3>1. app = "created" /\ app' = "preview"
            BY <2>11 DEF BeginPreview
        <3> QED
            BY <2>1, <2>11, <3>1, BeginPreviewStep DEF Running
    <2>12. CASE EndPreview
        <3>1. app = "preview" /\ app' = "previewed"
            BY <2>12 DEF EndPreview
        <3> QED
            BY <2>1, <2>12, <3>1, EndPreviewStep DEF Running
    <2>13. CASE UNCHANGED vars
        <3>1. app' = app /\ at' = at /\ props' = props
            BY <2>13 DEF vars
        <3>2. PanicsOnlyOnTwins'
            BY <3>1 DEF RunInv, PanicsOnlyOnTwins
        <3>3. Running' => \E plan \in Plans : Follows(plan)'
            BY <2>13, <3>1, StutterFollows DEF RunInv, Running
        <3> QED
            BY <3>1, <3>2, <3>3 DEF RunInv
    <2> QED
        BY <2>2, <2>3, <2>4, <2>5, <2>6, <2>7, <2>8, <2>9, <2>10, <2>11, <2>12, <2>13,
           <2>14 DEF Next
<1> QED
    BY <1>1, <1>2, PTL DEF Spec

(* A panic of jsii over a path that is taken means twins: components with  *)
(* the same exported props, or the same command, or parts of one component *)
(* that are the same (crib.ResourceID).                                    *)
THEOREM ConstructsNeverClash == Spec => []PanicsOnlyOnTwins
<1>1. RunInv => PanicsOnlyOnTwins
    BY DEF RunInv
<1> QED
    BY <1>1, RunFollowsPlan, PTL

----------------------------------------------------------------------------
LEMMA MadeOfPlan ==
    ASSUME NEW plan, Follows(plan), app \in {"created", "previewed"}, NEW i \in 1..Len(plan),
           results[i] = "ok"
    PROVE  {o \in made : o.of = i} = Builds(StepsOf(plan, i), i)
<1>1. at = Len(plan) + 1 /\ Len(plan) \in Nat
    BY PlansAssumption, LenProperties DEF Follows, CreatedFollows, Counts
<1>2. Builds(StepsOf(plan, i), i) \subseteq made
    BY <1>1 DEF Follows, DoneFollow, Whole
<1>3. ASSUME NEW o \in Builds(StepsOf(plan, i), i) PROVE o.of = i
    BY DEF Builds, Built
<1>4. ASSUME NEW o \in made, o.of = i PROVE o \in Builds(StepsOf(plan, i), i)
    BY <1>4 DEF Follows, MadeFollow
<1> QED
    BY <1>2, <1>3, <1>4

LEMMA BuildsShow ==
    ASSUME NEW s, NEW i
    PROVE  {[what |-> o.what, gives |-> o.gives, refs |-> o.refs, awaits |-> o.awaits] :
                o \in Builds(s, i)} = Shown(s)
<1>1. \A x : /\ Built(x, i).what = x.what /\ Built(x, i).gives = x.gives
             /\ Built(x, i).refs = x.refs /\ Built(x, i).awaits = x.awaits
    BY DEF Built
<1> QED
    BY <1>1 DEF Builds, Shown

LEMMA UnimplementedShown ==
    ASSUME NEW s, NEW t, Shown(s) = Shown(t), Unimplemented(s)
    PROVE  Unimplemented(t)
<1>1. PICK x \in Makes(s) : x.what[1] = "Blockscout"
    BY DEF Unimplemented
<1>2. [what |-> x.what, gives |-> x.gives, refs |-> x.refs, awaits |-> x.awaits] \in Shown(t)
    BY DEF Shown
<1>3. PICK y \in Makes(t) :
          [what |-> x.what, gives |-> x.gives, refs |-> x.refs, awaits |-> x.awaits]
              = [what |-> y.what, gives |-> y.gives, refs |-> y.refs, awaits |-> y.awaits]
    BY <1>2 DEF Shown
<1>4. y.what = x.what
    BY <1>3
<1> QED
    BY <1>1, <1>4 DEF Unimplemented

LEMMA CompleteOfPlan ==
    ASSUME NEW plan, NEW i \in 1..Len(plan)
    PROVE  {o \in Complete(plan) : o.of = i} = Builds(Steps(Root, plan[i]), i)
<1>1. \A j : \A o \in Builds(Steps(Root, plan[j]), j) : o.of = j
    BY DEF Builds, Built
<1> QED
    BY <1>1 DEF Complete

(* A preview shows every component as it was created, unless helm fails or *)
(* the function rejects the props it changed itself (AppPlan.Preview).     *)
THEOREM PreviewRepeats == Spec => []RepeatsAlike
<1>1. RunInv => RepeatsAlike
    <2> SUFFICES ASSUME RunInv, app = "previewed", NEW i \in DOMAIN props, ~OneShot(props[i]),
                        results[i] # "helm"
                 PROVE  results[i] = "ok" /\ Resources(made, i) = Resources(created, i)
        BY DEF RepeatsAlike, ShowsAlike
    <2>1. PICK plan \in Plans : Follows(plan)
        BY DEF RunInv, Running
    <2>2. /\ props \in Seq(Component) /\ Len(props) = Len(plan) /\ at = Len(plan) + 1
          /\ results \in Seq(Results) /\ Len(results) = Len(plan)
          /\ Len(plan) \in Nat
        BY <2>1, PlansAssumption, LenProperties DEF Follows, Counts, CreatedFollows
    <2>3. i \in 1..Len(plan)
        BY <2>2
    <2>4. /\ props[i] = Changed(plan[i]) /\ Arg(plan, i) = Changed(plan[i])
          /\ StepsOf(plan, i) = Steps(Root, Changed(plan[i]))
          /\ plan[i] \in Component /\ Valid(plan[i]) /\ ~Unimplemented(Steps(Root, plan[i]))
        BY <2>1, <2>3, ArgFacts DEF Follows, PropsFollow, CreatedFollows, Arg, StepsOf
    <2>5. ~OneShot(plan[i]) /\ Valid(Changed(plan[i]))
        BY <2>4, ChangedFacts
    <2>6. results[i] = "ok"
        <3>1. results[i] \in Results
            BY <2>2, <2>3, ElementOfSeq
        <3>2. results[i] # "error"
            BY <2>1, <2>2, <2>3, <2>4, <2>5 DEF Follows, DoneFollow
        <3>3. ~Unimplemented(StepsOf(plan, i))
            BY <2>4, <2>5, ShownAgain, UnimplementedShown
        <3>4. results[i] # "unimplemented"
            BY <2>1, <2>2, <2>3, <3>3 DEF Follows, DoneFollow
        <3> QED
            BY <3>1, <3>2, <3>4 DEF Results
    <2>7. Resources(made, i) = Shown(StepsOf(plan, i))
        <3>1. {o \in made : o.of = i} = Builds(StepsOf(plan, i), i)
            BY <2>1, <2>3, <2>6, MadeOfPlan
        <3> QED
            BY <3>1, BuildsShow DEF Resources
    <2>8. Resources(created, i) = Shown(Steps(Root, plan[i]))
        <3>1. created = Complete(plan)
            BY <2>1 DEF Follows, CreatedFollows
        <3>2. {o \in created : o.of = i} = Builds(Steps(Root, plan[i]), i)
            BY <2>3, <3>1, CompleteOfPlan
        <3> QED
            BY <3>2, BuildsShow DEF Resources
    <2> QED
        BY <2>4, <2>5, <2>6, <2>7, <2>8, ShownAgain
<1> QED
    BY <1>1, RunFollowsPlan, PTL

----------------------------------------------------------------------------
LEMMA OwesBrought ==
    ASSUME NEW c \in Component, Valid(c), NEW need \in Owes(c), need \notin Brought(c)
    PROVE  /\ c.type = "chains"
           /\ \E i \in DOMAIN c.configs : c.configs[i].nodes[1].type = "aptos"
<1>1. c.type = "chains" /\ need \in ChainsOwe(c)
    BY DEF Owes
<1>2. ValidChains(c)
    BY <1>1, ValidChainsFacts
<1>3. PICK i \in 1..Len(c.configs) : need \in ConfigOwes(c.configs[i])
    BY <1>1 DEF ChainsOwe
<1> DEFINE k == c.configs[i]
<1>4. i \in DOMAIN c.configs /\ k \in ToSet(c.configs)
    BY <1>2, SeqFacts DEF ValidChains
<1>5. Brought(c) = {e.explorer[1].target : e \in {f \in ToSet(c.configs) : f.explorer # <<>>}}
    BY <1>1 DEF Brought
<1>6. 1 \in 1..Len(k.nodes) /\ \A j \in 1..Len(k.nodes) : k.nodes[j].type \in {"anvil", "aptos"}
    <2>1. IsSeq(k.nodes) /\ Len(k.nodes) >= 1
        BY <1>2 DEF ValidChains, ValidConfig
    <2>2. 1 \in 1..Len(k.nodes)
        BY <2>1, SeqFacts
    <2> QED
        BY <1>2, <2>2 DEF ValidChains, ValidConfig
<1> HIDE DEF k
<1>7. need = k.explorer[1].target /\ k.explorer # <<>> => need \in Brought(c)
    BY <1>4, <1>5
<1>8. k.nodes[1].type # "anvil"
    BY <1>3, <1>7 DEF ConfigOwes, k
<1>9. k.nodes[1].type = "aptos"
    BY <1>6, <1>8
<1> QED
    BY <1>1, <1>4, <1>9 DEF k

(* In a created plan every component is there with all it makes, and what  *)
(* it makes is sound.                                                      *)
LEMMA CreatedPlan ==
    ASSUME NEW plan \in Plans, Follows(plan), app = "created", NEW i \in 1..Len(plan)
    PROVE  /\ plan[i] \in Component /\ Valid(plan[i])
           /\ props[i] = Changed(plan[i]) /\ StepsOf(plan, i) = Steps(Root, plan[i])
           /\ Coherent(props[i]) <=> Coherent(plan[i])
           /\ props[i].type = plan[i].type
           /\ Coherent(plan[i]) => Sound(Steps(Root, plan[i]), Owes(plan[i]))
           /\ Ordered(Steps(Root, plan[i]))
           /\ plan[i].type # "sandboxJD" \/ Coherent(plan[i]) => AwaitsMet(Steps(Root, plan[i]))
           /\ Block(Root, Ids(plan[i]), Steps(Root, plan[i]), ~HasTwins(plan[i]))
           /\ Builds(Steps(Root, plan[i]), i) \subseteq made
           /\ Depends(Steps(Root, plan[i])) \subseteq deps
<1>1. /\ plan[i] \in Component /\ props[i] = Changed(plan[i])
      /\ Arg(plan, i) = plan[i] /\ StepsOf(plan, i) = Steps(Root, plan[i])
    BY ArgFacts DEF Follows, PropsFollow, Arg, StepsOf
<1>2. Whole(plan, i)
    <2>1. at = Len(plan) + 1 /\ results[i] = "ok"
        BY DEF Follows, CreatedFollows
    <2>2. Len(plan) \in Nat
        BY PlansAssumption, LenProperties
    <2> QED
        BY <2>1, <2>2 DEF Follows, DoneFollow
<1>3. /\ Valid(plan[i]) /\ Apart(Steps(Root, plan[i]))
      /\ Builds(Steps(Root, plan[i]), i) \subseteq made
      /\ Depends(Steps(Root, plan[i])) \subseteq deps
    BY <1>1, <1>2 DEF Whole
<1> DEFINE c == plan[i]
<1>4. (Coherent(props[i]) <=> Coherent(c)) /\ props[i].type = c.type
    BY <1>1, ChangedFacts
<1>5. /\ c \in Component /\ Valid(c) /\ Apart(Steps(Root, c))
    BY <1>1, <1>3
<1> HIDE DEF c
<1>6. /\ Block(Root, Ids(c), Steps(Root, c), ~HasTwins(c))
      /\ Coherent(c) => Sound(Steps(Root, c), Owes(c))
    BY <1>5, StepsSound
<1>7. /\ Ordered(Steps(Root, c))
      /\ c.type # "sandboxJD" \/ Coherent(c) => AwaitsMet(Steps(Root, c))
    BY <1>5, StepsInOrder
<1> QED
    BY <1>1, <1>3, <1>4, <1>6, <1>7 DEF c

(* What steps offer, their constructs give.                                *)
LEMMA OffersBuilt ==
    ASSUME NEW s, NEW i, NEW o \in Offers(s)
    PROVE  \E p \in Builds(s, i) : p.chart = o[1] /\ o[2] \in p.gives
<1>1. PICK x \in Makes(s) : o \in {x.chart} \X x.gives
    BY DEF Offers
<1>2. o[1] = x.chart /\ o[2] \in x.gives
    BY <1>1
<1>3. Built(x, i).chart = x.chart /\ Built(x, i).gives = x.gives /\ Built(x, i) \in Builds(s, i)
    BY DEF Built, Builds
<1> QED
    BY <1>2, <1>3

(* Every name an object of a created plan refers to is the name of what    *)
(* another one provides, if the plan gives the names its props bring along *)
(* (chainlinknode.go, nodeset.go, jd.go, workload.go, telepresence.go,     *)
(* chains.go).                                                             *)
THEOREM NamesResolve ==
    ASSUME NamesGiven
    PROVE  Spec => []ReferencesResolve
<1>1. RunInv => ReferencesResolve
    <2> SUFFICES ASSUME RunInv, app = "created", NEW o \in made, Coherent(props[o.of]),
                        ~OfAptos(o), NEW need \in o.refs
                 PROVE  \E p \in made : Meeting(p, need)
        BY DEF ReferencesResolve
    <2>1. PICK plan \in Plans : Follows(plan)
        BY DEF RunInv, Running
    <2>2. PICK i \in 1..Len(plan) : i = o.of /\ o \in Builds(Steps(Root, plan[i]), i)
        <3>1. o.of \in 1..Len(plan) /\ o \in Builds(StepsOf(plan, o.of), o.of)
            BY <2>1 DEF Follows, MadeFollow
        <3>2. StepsOf(plan, o.of) = Steps(Root, plan[o.of])
            BY <2>1, <3>1, CreatedPlan
        <3> QED
            BY <3>1, <3>2
    <2> DEFINE c == plan[i]
               s == Steps(Root, c)
    <2>3. /\ c \in Component /\ Valid(c) /\ props[i] = Changed(c)
          /\ Sound(s, Owes(c)) /\ Builds(s, i) \subseteq made
        BY <2>1, <2>2, CreatedPlan
    <2>4. need \in Refers(s)
        <3>1. PICK x \in Makes(s) : o = Built(x, i)
            BY <2>2 DEF Builds
        <3>2. need \in x.refs
            BY <3>1 DEF Built
        <3> QED
            BY <3>2 DEF Refers
    <2> HIDE DEF c, s
    <2>5. CASE Answers(s, need)
        <3>1. PICK f \in Offers(s) : Meets(f[2], need)
            BY <2>5 DEF Answers
        <3>2. PICK p \in Builds(s, i) : f[2] \in p.gives
            BY OffersBuilt
        <3> QED
            BY <2>3, <3>1, <3>2 DEF Meeting
    <2>6. CASE need \in Brought(c)
        <3>1. i \in DOMAIN plan
            BY PlansAssumption, LenProperties
        <3>2. PICK j \in DOMAIN plan : \E have \in Gives(plan[j]) : Meets(have, need)
            BY <2>1, <2>6, <3>1 DEF NamesGiven, c
        <3>3. PICK have \in Gives(plan[j]) : Meets(have, need)
            BY <3>2
        <3>4. PICK y \in Makes(Steps(Root, plan[j])) : have \in y.gives
            BY DEF Gives, Makes
        <3>5. j \in 1..Len(plan)
            BY PlansAssumption, LenProperties
        <3>6. Built(y, j) \in made
            BY <2>1, <3>5, CreatedPlan DEF Builds
        <3>7. have \in Built(y, j).gives
            BY <3>4 DEF Built
        <3> QED
            BY <3>3, <3>6, <3>7 DEF Meeting
    <2>7. CASE need \in Owes(c) /\ need \notin Brought(c)
        <3>1. /\ c.type = "chains"
              /\ \E k \in DOMAIN c.configs : c.configs[k].nodes[1].type = "aptos"
            BY <2>3, <2>7, OwesBrought
        <3>2. Changed(c) = c
            BY <3>1 DEF Changed
        <3> QED
            BY <2>2, <2>3, <3>1, <3>2 DEF OfAptos
    <2> QED
        BY <2>3, <2>4, <2>5, <2>6, <2>7 DEF Sound, Resolved
<1> QED
    BY <1>1, RunFollowsPlan, PTL

----------------------------------------------------------------------------
(* The order of a created plan's charts.  Lengthening paths over a chart   *)
(* keeps an order inside a strict one, so their fold stays there, with the *)
(* edges it starts from.                                                   *)
Edges == {e \in deps : e[1] \in Charts /\ e[2] \in Charts}
             \cup {e \in Charts \X Charts : IsStrictPrefix(e[1], e[2])}

Through(chart, order) ==
    order \cup ({e[1] : e \in {f \in order : f[2] = chart}}
                    \X {e[2] : e \in {f \in order : f[1] = chart}})

(* Orders of the charts that hold the edges and agree with Later.          *)
Orders == {order \in SUBSET (Charts \X Charts) :
              Edges \subseteq order /\ \A e \in order : Later(e[1], e[2])}

LEMMA ThroughStays ==
    ASSUME NEW chart, NEW order \in Orders
    PROVE  Through(chart, order) \in Orders
<1>1. /\ order \subseteq Charts \X Charts /\ Edges \subseteq order
      /\ \A e \in order : Later(e[1], e[2])
    BY DEF Orders
<1>2. ASSUME NEW e \in Through(chart, order), e \notin order
      PROVE  e \in Charts \X Charts /\ Later(e[1], e[2])
    <2>1. PICK f \in order, g \in order : f[2] = chart /\ g[1] = chart /\ e = <<f[1], g[2]>>
        BY <1>2 DEF Through
    <2>2. Later(f[1], chart) /\ Later(chart, g[2])
        BY <1>1, <2>1
    <2>3. Later(f[1], g[2])
        BY <2>2, LaterIsStrict
    <2>4. f[1] \in Charts /\ g[2] \in Charts /\ e[1] = f[1] /\ e[2] = g[2]
        BY <1>1, <2>1
    <2> QED
        BY <2>1, <2>3, <2>4
<1>3. order \subseteq Through(chart, order)
    BY DEF Through
<1> QED
    BY <1>1, <1>2, <1>3 DEF Orders

LEMMA OrderedChartsFacts ==
    ASSUME IsFiniteSet(Charts), Edges \in Orders
    PROVE  OrderedCharts \in Orders
<1> DEFINE T == Orders
           C == Charts
           E == Edges
           step == [chart \in C |-> [order \in T |-> Through(chart, order)]]
           IsFold(f) == f = [s \in SUBSET C |->
                                IF s = {} THEN E
                                ELSE Through(AnyOf(s), f[s \ {AnyOf(s)}])]
<1>1. OrderedCharts = (CHOOSE f : IsFold(f))[C]
    BY Zenon DEF OrderedCharts, FoldSet, MapThenFoldSet, Edges, Through, AnyOf
<1>2. IsFiniteSet(C) /\ E \in T
    OBVIOUS
<1> HIDE DEF T, C, E
<1>3. \A chart \in C : \A order \in T : Through(chart, order) \in T
    BY ThroughStays DEF T
<1>4. step \in [C -> [T -> T]]
    BY <1>3, Zenon
<1>5. \A chart \in C : \A order \in T : step[chart][order] = Through(chart, order)
    BY Zenon
<1> HIDE DEF step
<1>6. PICK f : FoldsSubsets(f, C, T, E, step)
    BY <1>2, <1>4, FoldSubsetsExists
<1>7. ASSUME NEW s \in SUBSET C, s # {}
      PROVE  f[s] = Through(AnyOf(s), f[s \ {AnyOf(s)}])
    <2>1. AnyOf(s) \in C
        BY <1>7 DEF AnyOf
    <2>2. f[s] = step[AnyOf(s)][f[s \ {AnyOf(s)}]] /\ f[s \ {AnyOf(s)}] \in T
        BY <1>6, <1>7 DEF FoldsSubsets
    <2> QED
        BY <1>5, <2>1, <2>2, Zenon
<1>8. f = [s \in SUBSET C |-> f[s]] /\ f[{}] = E
    BY <1>6 DEF FoldsSubsets
<1>9. IsFold(f)
    <2>1. \A s \in SUBSET C : f[s] = IF s = {} THEN E ELSE Through(AnyOf(s), f[s \ {AnyOf(s)}])
        BY <1>7, <1>8, Zenon
    <2> QED
        BY <1>8, <2>1, Zenon
<1> DEFINE g == CHOOSE h : IsFold(h)
<1>10. IsFold(g)
    <2> HIDE DEF IsFold
    <2> QED
        BY <1>9, Zenon
<1> HIDE DEF g
<1>11. \A s \in SUBSET C : g[s] = IF s = {} THEN E ELSE Through(AnyOf(s), g[s \ {AnyOf(s)}])
    BY <1>10, Zenon
<1>12. g[{}] \in T
    <2>1. {} \in SUBSET C
        OBVIOUS
    <2>2. g[{}] = E
        BY <1>11, <2>1, Zenon
    <2> QED
        BY <1>2, <2>2
<1>13. ASSUME NEW s \in SUBSET C, s # {}, g[s \ {AnyOf(s)}] \in T PROVE g[s] \in T
    <2>1. AnyOf(s) \in C
        BY <1>13 DEF AnyOf
    <2>2. g[s] = Through(AnyOf(s), g[s \ {AnyOf(s)}])
        BY <1>11, <1>13, Zenon
    <2> QED
        BY <1>3, <1>13, <2>1, <2>2
<1>14. g[C] \in T
    <2> HIDE DEF IsFold
    <2> QED
        BY <1>2, <1>12, <1>13, FoldStays
<1> QED
    BY <1>1, <1>14 DEF g, T

(* Every construct of a created plan is one of its component's.            *)
LEMMA MadeOfCreated ==
    ASSUME NEW plan \in Plans, Follows(plan), app = "created", NEW o \in made
    PROVE  o.of \in 1..Len(plan) /\ o \in Builds(Steps(Root, plan[o.of]), o.of)
<1>1. o.of \in 1..Len(plan) /\ o \in Builds(StepsOf(plan, o.of), o.of)
    BY DEF Follows, MadeFollow
<1>2. StepsOf(plan, o.of) = Steps(Root, plan[o.of])
    BY <1>1, CreatedPlan
<1> QED
    BY <1>1, <1>2

(* A created plan has finitely many charts.                                *)
LEMMA MadeFinite ==
    ASSUME NEW plan \in Plans, Follows(plan), app = "created"
    PROVE  IsFiniteSet(Charts)
<1> DEFINE n == Len(plan)
           of(i) == {x.chart : x \in Makes(Steps(Root, plan[i]))}
           upto(k) == UNION {of(i) : i \in 1..k}
           D == {k \in 0..n : IsFiniteSet(upto(k))}
<1>1. n \in Nat
    BY PlansAssumption, LenProperties
<1>2. ASSUME NEW i \in 1..n PROVE IsFiniteSet(of(i))
    <2> DEFINE s == Steps(Root, plan[i])
    <2> DEFINE X == {k \in 1..Len(s) : s[k].op = "make"}
               f == [k \in X |-> s[k].chart]
    <2>1. IsSeq(s)
        BY CreatedPlan DEF Block
    <2> HIDE DEF s
    <2>2. IsFiniteSet(X)
        <3>1. Len(s) \in Nat
            BY <2>1, SeqFacts
        <3>2. IsFiniteSet(1..Len(s))
            BY <3>1, FS_Interval
        <3> QED
            BY <3>2, FS_Subset
    <2>3. of(i) = {f[k] : k \in X}
        <3>1. ToSet(s) = {s[k] : k \in 1..Len(s)}
            BY <2>1, SeqFacts
        <3>2. Makes(s) = {s[k] : k \in X}
            BY <3>1 DEF Makes
        <3>3. of(i) = {x.chart : x \in Makes(s)}
            BY DEF s
        <3>4. \A k \in X : f[k] = s[k].chart
            OBVIOUS
        <3> HIDE DEF f, X, of
        <3> QED
            BY <3>2, <3>3, <3>4
    <2>4. f \in Surjection(X, of(i))
        BY <2>3 DEF Surjection
    <2> HIDE DEF X, f
    <2> QED
        BY <2>2, <2>4, FS_Surjection
<1> HIDE DEF of
<1>3. 0 \in D
    <2>1. upto(0) = {}
        OBVIOUS
    <2> QED
        BY <1>1, <2>1, FS_EmptySet
<1>4. ASSUME NEW k \in 0..n-1, k \in D PROVE k + 1 \in D
    <2>1. upto(k + 1) = upto(k) \cup of(k + 1) /\ k + 1 \in 1..n
        BY <1>1
    <2>2. k + 1 \in 0..n
        BY <2>1
    <2>3. IsFiniteSet(upto(k + 1))
        <3>1. IsFiniteSet(upto(k)) /\ IsFiniteSet(of(k + 1))
            BY <1>2, <1>4, <2>1
        <3> DEFINE a == upto(k)
                   b == of(k + 1)
        <3> HIDE DEF a, b
        <3>2. IsFiniteSet(a \cup b)
            BY <3>1, FS_Union DEF a, b
        <3> QED
            BY <2>1, <3>2 DEF a, b
    <2> HIDE DEF upto
    <2> QED
        BY <2>2, <2>3
<1>5. 0..n \subseteq D
    <2> HIDE DEF D, n
    <2> QED
        BY <1>1, <1>3, <1>4, IntervalInduction
<1>6. IsFiniteSet(upto(n))
    <2> HIDE DEF upto
    <2> QED
        BY <1>1, <1>5
<1>7. Charts \subseteq upto(n)
    <2> SUFFICES ASSUME NEW o \in made PROVE o.chart \in upto(n)
        BY DEF Charts
    <2>1. o.of \in 1..n /\ o \in Builds(Steps(Root, plan[o.of]), o.of)
        BY MadeOfCreated
    <2>2. PICK x \in Makes(Steps(Root, plan[o.of])) : o.chart = x.chart
        BY <2>1 DEF Builds, Built
    <2> QED
        BY <2>1, <2>2 DEF of
<1> QED
    BY <1>6, <1>7, FS_Subset

(* The edges the order starts from agree with Later.                       *)
LEMMA EdgesAgree ==
    ASSUME NEW plan \in Plans, Follows(plan), app = "created"
    PROVE  Edges \in Orders
<1>1. ASSUME NEW e \in deps PROVE e = <<e[1], e[2]>> /\ Later(e[1], e[2])
    <2>1. PICK i \in 1..Len(plan) : e \in Depends(StepsOf(plan, i))
        BY DEF Follows, DepsFollow
    <2>2. e \in Depends(Steps(Root, plan[i])) /\ Ordered(Steps(Root, plan[i]))
        BY <2>1, CreatedPlan
    <2>3. e = <<e[1], e[2]>>
        BY <2>2 DEF Depends
    <2> QED
        BY <2>2, <2>3 DEF Ordered
<1>2. ASSUME NEW chart \in Charts PROVE IsSeq(chart)
    <2>1. PICK o \in made : o.chart = chart
        BY DEF Charts
    <2>2. o.of \in 1..Len(plan) /\ o \in Builds(Steps(Root, plan[o.of]), o.of)
        BY MadeOfCreated
    <2>3. PICK x \in Makes(Steps(Root, plan[o.of])) : o.chart = x.chart
        BY <2>2 DEF Builds, Built
    <2>4. Block(Root, Ids(plan[o.of]), Steps(Root, plan[o.of]), ~HasTwins(plan[o.of]))
        BY <2>2, CreatedPlan
    <2> QED
        BY <2>1, <2>3, <2>4 DEF Block
<1>3. ASSUME NEW a, NEW b, IsSeq(a), IsSeq(b), IsStrictPrefix(a, b) PROVE Later(a, b)
    <2>1. /\ Len(a) \in Nat /\ Len(b) \in Nat /\ Len(a) <= Len(b)
          /\ SubSeq(a, 1, Len(a)) = SubSeq(b, 1, Len(a)) /\ a # b
        BY <1>3, SeqFacts DEF IsStrictPrefix, IsPrefix
    <2>2. \A i \in 1..Len(a) : a[i] = b[i]
        <3>1. \A i \in 1..Len(a) : SubSeq(a, 1, Len(a))[i] = a[i] /\ SubSeq(b, 1, Len(a))[i] = b[i]
            BY <1>3, <2>1 DEF IsSeq
        <3> QED
            BY <2>1, <3>1
    <2>3. Len(a) # Len(b)
        <3>1. a = [i \in 1..Len(a) |-> a[i]] /\ b = [i \in 1..Len(b) |-> b[i]]
            BY <1>3, <2>1 DEF IsSeq
        <3> QED
            BY <2>1, <2>2, <3>1
    <2> QED
        BY <1>3, <2>1, <2>2, <2>3 DEF Later, Inside
<1>4. \A e \in Edges : e \in Charts \X Charts /\ Later(e[1], e[2])
    <2>1. ASSUME NEW e \in Edges, e \in deps PROVE e \in Charts \X Charts /\ Later(e[1], e[2])
        BY <1>1, <2>1 DEF Edges
    <2>2. ASSUME NEW e \in Charts \X Charts, IsStrictPrefix(e[1], e[2])
          PROVE  Later(e[1], e[2])
        BY <1>2, <1>3, <2>2
    <2> QED
        BY <2>1, <2>2 DEF Edges
<1> QED
    BY <1>4 DEF Orders

(* A command that waits for something comes after the chart that provides  *)
(* it, and the order of the charts exists, whatever the plan holds; but    *)
(* for waits in another namespace than what they wait for (chains.go,     *)
(* telepresence.go, aws.go, kind.go, nodeset.go, jd.go).                   *)
THEOREM CommandsInOrder == Spec => []CommandsComeAfter
<1>1. RunInv => CommandsComeAfter
    <2> SUFFICES ASSUME RunInv, app = "created" PROVE CommandsComeAfter
        BY DEF CommandsComeAfter
    <2>1. PICK plan \in Plans : Follows(plan)
        BY DEF RunInv, Running
    <2>2. OrderedCharts \in Orders
        BY <2>1, MadeFinite, EdgesAgree, OrderedChartsFacts
    <2> DEFINE after == OrderedCharts
    <2> HIDE DEF after
    <2>3. /\ Edges \subseteq after
          /\ \A e \in after : Later(e[1], e[2])
        BY <2>2 DEF Orders, after
    <2>4. ASSUME NEW q PROVE <<q, q>> \notin after
        BY <2>3, LaterIsStrict
    <2>5. ASSUME NEW o \in made, NEW need \in o.awaits, ~Elsewhere(o, need)
          PROVE  MetInOrder(o, need, after)
        <3> DEFINE i == o.of
                   s == Steps(Root, plan[i])
        <3>1. i \in 1..Len(plan) /\ o \in Builds(s, i)
            BY <2>1, MadeOfCreated
        <3>2. /\ Builds(s, i) \subseteq made /\ Depends(s) \subseteq deps
              /\ plan[i].type # "sandboxJD" \/ Coherent(plan[i]) => AwaitsMet(s)
              /\ Coherent(props[i]) <=> Coherent(plan[i])
              /\ props[i].type = plan[i].type
            BY <2>1, <3>1, CreatedPlan
        <3>10. AwaitsMet(s)
            BY <2>5, <3>2 DEF Elsewhere
        <3> HIDE DEF s, i
        <3>3. PICK x \in Makes(s) : o = Built(x, i)
            BY <3>1 DEF Builds
        <3>4. x.chart = o.chart /\ x.what = o.what /\ need \in x.awaits
            BY <2>5, <3>3 DEF Built
        <3> DEFINE a == << <<o.chart, o.what>>, need >>
        <3>5. a \in Awaits(s)
            BY <3>3, <3>4 DEF Awaits
        <3>6. ~ElsewhereAwait(a)
            BY <2>5 DEF ElsewhereAwait, Elsewhere
        <3>7. PICK f \in Offers(s) : Meets(f[2], need) /\ <<o.chart, f[1]>> \in Depends(s)
            BY <3>10, <3>5, <3>6 DEF AwaitsMet
        <3>8. PICK p \in Builds(s, i) : p.chart = f[1] /\ f[2] \in p.gives
            BY OffersBuilt
        <3>9. <<o.chart, p.chart>> \in Edges
            BY <2>5, <3>2, <3>7, <3>8 DEF Edges, Charts
        <3> QED
            BY <2>3, <3>2, <3>7, <3>8, <3>9 DEF Meeting, MetInOrder
    <2> QED
        BY <2>4, <2>5 DEF CommandsComeAfter, after
<1> QED
    BY <1>1, RunFollowsPlan, PTL
=============================================================================
