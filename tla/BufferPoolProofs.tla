-------------------------- MODULE BufferPoolProofs --------------------------
(***************************************************************************)
(* For any number of goroutines, buffers, arrays and writes: a buffer has  *)
(* one owner, and its owner finds in it what it wrote.  The invariant adds *)
(* to the two the reason they hold: no two buffers share an array, so a    *)
(* write through one buffer is seen through no other.                      *)
(***************************************************************************)
EXTENDS BufferPool, TLAPS

(* No two buffers have one array, and allocated arrays are used ones.      *)
ArraysAreApart ==
    \A b, c \in Buffers : arr[b] = arr[c] /\ arr[b] # None => b = c

(* While a call holds its buffer, the buffer contains what the call wrote, *)
(* all of it and nothing of an earlier or a concurrent call.               *)
HeldBytesAreOwn ==
    \A u \in Users : Holds(u) => Bytes(arr[buf[u]], len[buf[u]]) = Written(u)

(* HeldBytesAreOwn, cell by cell.                                          *)
CellsOf(u) ==
    /\ buf[u] \in made
    /\ len[buf[u]] = wrote[u]
    /\ wrote[u] > 0 => arr[buf[u]] # None
    /\ \A k \in 1..wrote[u] : mem[arr[buf[u]]][k] = u

HeldCells == \A u \in Users : Holds(u) => CellsOf(u)

(* What a call has not done yet.                                           *)
NotYet ==
    /\ DOMAIN seen = Users
    /\ \A u \in Users : pc[u] = "start" => wrote[u] = 0
    /\ \A u \in Users : pc[u] \in {"start", "writing"} =>
        seen[u] = None /\ slice[u] = None
    /\ \A u \in Users : slice[u] # None => Mode[u] = "output"
    /\ \A u \in Users : pc[u] = "returned" => slice[u] # None

PoolInv == TypeOK /\ NotYet /\ OneOwner /\ ArraysAreApart /\ HeldCells

(* An allocation returns an object that was not there before.              *)
LEMMA FreshIsNew ==
    ASSUME NEW all, NEW taken, NEW x \in Fresh(all, taken)
    PROVE  x \in all /\ x \notin taken
<1>1. CASE all \subseteq taken
    BY <1>1 DEF Fresh
<1>2. CASE ~(all \subseteq taken)
    <2>1. PICK y : y \in all \ taken
        BY <1>2
    <2>2. (CHOOSE z \in all \ taken : TRUE) \in all \ taken
        BY <2>1
    <2> QED BY <1>2, <2>2 DEF Fresh
<1> QED BY <1>1, <1>2

(* The cells a holder wrote are the bytes it finds.                        *)
LEMMA CellsAreBytes ==
    ASSUME HeldCells, NEW u \in Users, Holds(u)
    PROVE  Bytes(arr[buf[u]], len[buf[u]]) = Written(u)
BY DEF HeldCells, CellsOf, Bytes, Written

LEMMA GetStep ==
    ASSUME PoolInv, NEW u \in Users, Get(u)
    PROVE  PoolInv'
<1> USE BufferPoolAssumption
<1>1. PICK b \in pool \cup Fresh(Buffers, made) :
        /\ pool' = pool \ {b}
        /\ made' = made \cup {b}
        /\ buf' = [buf EXCEPT ![u] = b]
        /\ len' = [len EXCEPT ![b] = 0]
    BY DEF Get
<1>2. b \in Buffers /\ (b \in pool \/ b \notin made)
    BY <1>1, FreshIsNew DEF PoolInv, TypeOK
<1>3. \A v \in Users : Holds(v) => buf[v] # b
    BY <1>2 DEF PoolInv, OneOwner, HeldCells, CellsOf
<1>4. pc' = [pc EXCEPT ![u] = "writing"] /\ pc[u] = "start"
    BY DEF Get, Goto
<1>5. UNCHANGED <<arr, used, mem, slice, wrote, seen>>
    BY DEF Get
<1>6. \A v \in Users \ {u} : Holds(v)' <=> Holds(v)
    BY <1>4 DEF Holds, PoolInv, TypeOK
<1>12. wrote[u] = 0
    BY <1>4 DEF PoolInv, NotYet
<1>7. TypeOK'
    BY <1>1, <1>2, <1>4, <1>5 DEF PoolInv, TypeOK
<1>8. NotYet'
    BY <1>4, <1>5 DEF PoolInv, TypeOK, NotYet
<1>9. OneOwner'
    BY <1>1, <1>3, <1>4, <1>6 DEF PoolInv, TypeOK, OneOwner
<1>10. ArraysAreApart'
    BY <1>5 DEF PoolInv, ArraysAreApart
<1>11. HeldCells'
    <2> SUFFICES ASSUME NEW v \in Users, Holds(v)'
                 PROVE  CellsOf(v)'
        BY DEF HeldCells
    <2>1. CASE v = u
        BY <2>1, <1>1, <1>2, <1>5, <1>12 DEF PoolInv, TypeOK, CellsOf
    <2>2. CASE v # u
        <3>1. CellsOf(v) /\ buf[v] # b
            BY <2>2, <1>3, <1>6 DEF PoolInv, HeldCells
        <3> QED
            BY <3>1, <2>2, <1>1, <1>2, <1>5 DEF PoolInv, TypeOK, CellsOf
    <2> QED BY <2>1, <2>2
<1> QED BY <1>7, <1>8, <1>9, <1>10, <1>11 DEF PoolInv

LEMMA WriteStep ==
    ASSUME PoolInv, NEW u \in Users, Write(u)
    PROVE  PoolInv'
<1> USE BufferPoolAssumption
<1> DEFINE b == buf[u]
           old == IF arr[b] = None THEN [k \in Cells |-> None] ELSE mem[arr[b]]
           n == wrote[u] + 1
<1>1. Holds(u) /\ CellsOf(u) /\ b \in Buffers /\ wrote[u] \in 0..MaxWrites
      /\ wrote[u] < MaxWrites /\ n \in Cells /\ len[b] + 1 = n
    BY DEF Write, PoolInv, TypeOK, Holds, HeldCells, CellsOf, Cells
<1>2. PICK a \in ({arr[b]} \ {None}) \cup Fresh(Arrays, used) :
        /\ mem' = [mem EXCEPT ![a] = [old EXCEPT ![n] = u]]
        /\ arr' = [arr EXCEPT ![b] = a]
        /\ used' = used \cup {a}
    BY <1>1 DEF Write
<1>3. a \in Arrays /\ a # None /\ (a = arr[b] \/ a \notin used)
    BY <1>1, <1>2, FreshIsNew DEF PoolInv, TypeOK
<1>4. /\ len' = [len EXCEPT ![b] = n]
      /\ wrote' = [wrote EXCEPT ![u] = n]
      /\ UNCHANGED <<pool, made, buf, slice, seen, pc>>
      /\ pc[u] = "writing"
    BY <1>1 DEF Write
<1>5. old \in [Cells -> Users \cup {None}]
    BY <1>1 DEF PoolInv, TypeOK
<1> HIDE DEF old, n
(* The array written to is no other buffer's.                              *)
<1>6. \A c \in Buffers \ {b} : arr[c] # a
    BY <1>1, <1>3 DEF PoolInv, TypeOK, ArraysAreApart
<1>7. TypeOK'
    BY <1>1, <1>2, <1>3, <1>4, <1>5 DEF PoolInv, TypeOK, Cells
<1>8. NotYet'
    BY <1>4 DEF PoolInv, TypeOK, NotYet
<1>9. OneOwner'
    BY <1>4 DEF PoolInv, OneOwner, Holds
<1>10. ArraysAreApart'
    BY <1>1, <1>2, <1>6 DEF PoolInv, TypeOK, ArraysAreApart
<1>11. HeldCells'
    <2> SUFFICES ASSUME NEW v \in Users, Holds(v)'
                 PROVE  CellsOf(v)'
        BY DEF HeldCells
    <2>1. CASE v = u
        <3>1. buf'[u] = b /\ arr'[b] = a /\ wrote'[u] = n /\ len'[b] = n
            BY <1>1, <1>2, <1>4 DEF PoolInv, TypeOK
        <3>2. mem'[a] = [old EXCEPT ![n] = u]
            BY <1>2, <1>3 DEF PoolInv, TypeOK
        <3>3. \A k \in 1..n : mem'[a][k] = u
            <4>1. \A k \in 1..wrote[u] : k \in Cells /\ k # n /\ old[k] = u
                BY <1>1 DEF CellsOf, Cells, old, n
            <4>2. \A k \in 1..n : k = n \/ k \in 1..wrote[u]
                BY <1>1 DEF n
            <4> QED BY <3>2, <4>1, <4>2, <1>1, <1>5
        <3> QED BY <2>1, <1>1, <1>3, <1>4, <3>1, <3>3 DEF CellsOf
    <2>2. CASE v # u
        <3>1. Holds(v) /\ CellsOf(v) /\ buf[v] # b /\ buf[v] \in Buffers
            BY <2>2, <1>1, <1>4
            DEF PoolInv, TypeOK, OneOwner, HeldCells, CellsOf, Holds
        <3>2. arr'[buf[v]] = arr[buf[v]] /\ arr[buf[v]] # a
            BY <3>1, <1>2, <1>6 DEF PoolInv, TypeOK
        <3>3. mem'[arr[buf[v]]] = mem[arr[buf[v]]] \/ arr[buf[v]] = None
            BY <3>1, <3>2, <1>2 DEF PoolInv, TypeOK
        <3>4. wrote'[v] = wrote[v] /\ len'[buf[v]] = len[buf[v]] /\ wrote[v] \in Nat
            BY <3>1, <2>2, <1>4 DEF PoolInv, TypeOK
        <3> QED BY <3>1, <3>2, <3>3, <3>4, <1>4 DEF CellsOf
    <2> QED BY <2>1, <2>2
<1> QED BY <1>7, <1>8, <1>9, <1>10, <1>11 DEF PoolInv

(* The steps that change no buffer: taking the bytes, failing, using them. *)
LEMMA QuietStep ==
    ASSUME PoolInv, NEW u \in Users,
           UNCHANGED <<pool, made, arr, used, mem, len, buf, wrote>>,
           \A v \in Users \ {u} :
                pc'[v] = pc[v] /\ seen'[v] = seen[v] /\ slice'[v] = slice[v],
           Holds(u)' => Holds(u),
           pc'[u] \in {"held", "done"},
           TypeOK', DOMAIN seen' = Users,
           slice'[u] # None => Mode[u] = "output"
    PROVE  PoolInv'
<1>1. NotYet'
    BY DEF PoolInv, NotYet
<1>2. \A v \in Users : Holds(v)' => Holds(v)
    BY DEF Holds
<1>3. OneOwner'
    BY <1>2 DEF PoolInv, OneOwner
<1>4. ArraysAreApart'
    BY DEF PoolInv, ArraysAreApart
<1>5. HeldCells'
    BY <1>2 DEF PoolInv, HeldCells, CellsOf
<1> QED BY <1>1, <1>3, <1>4, <1>5 DEF PoolInv

LEMMA PutStep ==
    ASSUME PoolInv, NEW u \in Users, Put(u)
    PROVE  PoolInv'
<1>1. /\ pool' = pool \cup {buf[u]}
      /\ UNCHANGED <<made, arr, used, mem, len, buf, slice, wrote, seen>>
      /\ \E p \in {"done", "returned"} :
            /\ pc' = [pc EXCEPT ![u] = p]
            /\ p = "returned" => slice[u] # None
      /\ pc[u] = "held"
    BY DEF Put, Goto
<1>2. Holds(u) /\ buf[u] \in made
    BY <1>1 DEF PoolInv, HeldCells, CellsOf, Holds
<1>3. \A v \in Users : Holds(v)' => Holds(v) /\ v # u
    BY <1>1 DEF PoolInv, TypeOK, Holds
<1>4. TypeOK'
    BY <1>1, <1>2 DEF PoolInv, TypeOK
<1>5. NotYet'
    BY <1>1 DEF PoolInv, TypeOK, NotYet
<1>6. OneOwner'
    BY <1>1, <1>2, <1>3 DEF PoolInv, OneOwner
<1>7. ArraysAreApart'
    BY <1>1 DEF PoolInv, ArraysAreApart
<1>8. HeldCells'
    BY <1>1, <1>3 DEF PoolInv, HeldCells, CellsOf
<1> QED BY <1>4, <1>5, <1>6, <1>7, <1>8 DEF PoolInv

(* CopiesAreOwn is part of the invariant: seen is written once, from a     *)
(* buffer that is held.                                                    *)
LEMMA PoolStep ==
    ASSUME PoolInv, CopiesAreOwn, [Next]_vars
    PROVE  PoolInv' /\ CopiesAreOwn'
<1>1. CASE UNCHANGED vars
    BY <1>1
    DEF vars, PoolInv, TypeOK, NotYet, OneOwner, ArraysAreApart, HeldCells,
        CellsOf, Holds, CopiesAreOwn, Written
<1>2. ASSUME NEW u \in Users, Get(u)
      PROVE  PoolInv' /\ CopiesAreOwn'
    <2>1. CopiesAreOwn'
        BY <1>2 DEF Get, CopiesAreOwn, Written
    <2> QED BY <1>2, <2>1, GetStep
<1>3. ASSUME NEW u \in Users, Write(u)
      PROVE  PoolInv' /\ CopiesAreOwn'
    <2>1. pc[u] = "writing" /\ seen' = seen /\ seen[u] = None
        BY <1>3 DEF Write, PoolInv, NotYet
    <2>2. \A v \in Users \ {u} : wrote'[v] = wrote[v]
        BY <1>3 DEF Write, PoolInv, TypeOK
    <2>3. CopiesAreOwn'
        BY <2>1, <2>2 DEF CopiesAreOwn, Written
    <2> QED BY <1>3, <2>3, WriteStep
<1>4. ASSUME NEW u \in Users, UseHeld(u)
      PROVE  PoolInv' /\ CopiesAreOwn'
    <2>1. /\ pc[u] = "writing"
          /\ seen' = [seen EXCEPT ![u] = Bytes(arr[buf[u]], len[buf[u]])]
          /\ pc' = [pc EXCEPT ![u] = "held"]
          /\ UNCHANGED <<pool, made, arr, used, mem, len, buf, slice, wrote>>
        BY <1>4 DEF UseHeld, Goto
    <2>2. Bytes(arr[buf[u]], len[buf[u]]) = Written(u)
        BY <2>1, CellsAreBytes DEF PoolInv, Holds
    <2>3. CopiesAreOwn'
        BY <2>1, <2>2 DEF PoolInv, NotYet, CopiesAreOwn, Written
    <2>4. TypeOK'
        BY <2>1 DEF PoolInv, TypeOK
    <2>5. Holds(u) /\ DOMAIN seen' = Users /\ pc'[u] = "held"
        BY <2>1 DEF PoolInv, TypeOK, NotYet, Holds
    <2>6. \A v \in Users \ {u} : pc'[v] = pc[v] /\ seen'[v] = seen[v]
                                    /\ slice'[v] = slice[v]
        BY <2>1 DEF PoolInv, TypeOK, NotYet
    <2>7. slice'[u] # None => Mode[u] = "output"
        BY <2>1 DEF PoolInv, NotYet
    <2> QED BY <2>1, <2>3, <2>4, <2>5, <2>6, <2>7, QuietStep
<1>5. ASSUME NEW u \in Users, TakeBytes(u)
      PROVE  PoolInv' /\ CopiesAreOwn'
    <2>1. /\ pc[u] = "writing"
          /\ wrote[u] > 0
          /\ slice' = [slice EXCEPT ![u] =
                [array |-> arr[buf[u]], len |-> len[buf[u]]]]
          /\ pc' = [pc EXCEPT ![u] = "held"]
          /\ UNCHANGED <<pool, made, arr, used, mem, len, buf, wrote, seen>>
        BY <1>5 DEF TakeBytes, Goto
    <2>2. Holds(u) /\ arr[buf[u]] \in Arrays /\ len[buf[u]] \in 0..MaxWrites
        BY <2>1 DEF PoolInv, TypeOK, Holds, HeldCells, CellsOf
    <2>3. TypeOK'
        BY <2>1, <2>2 DEF PoolInv, TypeOK, Slices
    <2>4. pc'[u] = "held" /\ DOMAIN seen' = Users
        BY <2>1 DEF PoolInv, TypeOK, NotYet
    <2>5. \A v \in Users \ {u} : pc'[v] = pc[v] /\ seen'[v] = seen[v]
                                    /\ slice'[v] = slice[v]
        BY <2>1 DEF PoolInv, TypeOK
    <2>6. CopiesAreOwn'
        BY <2>1 DEF CopiesAreOwn, Written
    <2>7. Mode[u] = "output"
        BY <1>5 DEF TakeBytes
    <2> QED BY <2>1, <2>2, <2>3, <2>4, <2>5, <2>6, <2>7, QuietStep
<1>6. ASSUME NEW u \in Users, Fail(u)
      PROVE  PoolInv' /\ CopiesAreOwn'
    <2>1. /\ pc[u] = "writing"
          /\ pc' = [pc EXCEPT ![u] = "held"]
          /\ UNCHANGED <<pool, made, arr, used, mem, len, buf, slice, wrote, seen>>
        BY <1>6 DEF Fail, Goto
    <2>2. TypeOK'
        BY <2>1 DEF PoolInv, TypeOK
    <2>3. Holds(u) /\ pc'[u] = "held" /\ DOMAIN seen' = Users
        BY <2>1 DEF PoolInv, TypeOK, NotYet, Holds
    <2>4. \A v \in Users \ {u} : pc'[v] = pc[v] /\ seen'[v] = seen[v]
                                    /\ slice'[v] = slice[v]
        BY <2>1 DEF PoolInv, TypeOK
    <2>5. CopiesAreOwn'
        BY <2>1 DEF CopiesAreOwn, Written
    <2>6. slice'[u] # None => Mode[u] = "output"
        BY <2>1 DEF PoolInv, NotYet
    <2> QED BY <2>1, <2>2, <2>3, <2>4, <2>5, <2>6, QuietStep
<1>7. ASSUME NEW u \in Users, Put(u)
      PROVE  PoolInv' /\ CopiesAreOwn'
    <2>1. CopiesAreOwn'
        BY <1>7 DEF Put, CopiesAreOwn, Written
    <2> QED BY <1>7, <2>1, PutStep
<1>8. ASSUME NEW u \in Users, UseReturned(u)
      PROVE  PoolInv' /\ CopiesAreOwn'
    <2>1. /\ pc[u] = "returned"
          /\ \E bytes : seen' = [seen EXCEPT ![u] = bytes]
          /\ pc' = [pc EXCEPT ![u] = "done"]
          /\ UNCHANGED <<pool, made, arr, used, mem, len, buf, slice, wrote>>
        BY <1>8 DEF UseReturned, Goto
    <2>2. Mode[u] = "output"
        BY <2>1 DEF PoolInv, NotYet
    <2>3. TypeOK'
        BY <2>1 DEF PoolInv, TypeOK
    <2>4. pc'[u] = "done" /\ ~Holds(u)' /\ DOMAIN seen' = Users
        BY <2>1 DEF PoolInv, TypeOK, NotYet, Holds
    <2>5. \A v \in Users \ {u} : pc'[v] = pc[v] /\ seen'[v] = seen[v]
                                    /\ slice'[v] = slice[v]
        BY <2>1 DEF PoolInv, TypeOK, NotYet
    <2>6. CopiesAreOwn'
        BY <2>1, <2>2, <2>5 DEF CopiesAreOwn, Written
    <2> QED BY <2>1, <2>2, <2>3, <2>4, <2>5, <2>6, QuietStep
<1> QED BY <1>1, <1>2, <1>3, <1>4, <1>5, <1>6, <1>7, <1>8 DEF Next, Step

THEOREM PoolInvariant == Spec => [](PoolInv /\ CopiesAreOwn)
<1>1. Init => PoolInv /\ CopiesAreOwn
    BY BufferPoolAssumption
    DEF Init, PoolInv, TypeOK, NotYet, OneOwner, ArraysAreApart, HeldCells,
        Holds, CopiesAreOwn
<1> QED BY <1>1, PoolStep, PTL DEF Spec

(* A buffer handed out is in nobody else's hands and not in the pool.      *)
THEOREM OneOwnerHolds == Spec => []OneOwner
<1>1. PoolInv => OneOwner
    BY DEF PoolInv
<1> QED BY <1>1, PoolInvariant, PTL

(* While a call holds its buffer, the buffer contains what the call wrote. *)
THEOREM HeldBytesHold == Spec => []HeldBytesAreOwn
<1>1. PoolInv => HeldBytesAreOwn
    BY CellsAreBytes DEF PoolInv, HeldBytesAreOwn
<1> QED BY <1>1, PoolInvariant, PTL

(* Bytes used before the buffer is given back are the call's own, however  *)
(* many calls keep slices of buffers they gave back.                       *)
THEOREM CopiesHold == Spec => []CopiesAreOwn
<1> QED BY PoolInvariant, PTL
=============================================================================
