----------------------------- MODULE BufferPool -----------------------------
(***************************************************************************)
(* The shared pool of bytes.Buffer objects, internal/adapter/mempools, and *)
(* the calls that use it.  A call takes a buffer, writes to it, and gives  *)
(* it back when it returns (defer ret()).  Two kinds differ in what they   *)
(* do with the bytes:                                                      *)
(*   "copy"    uses them while it holds the buffer (DoctorCommand,         *)
(*             Generator.render)                                           *)
(*   "output"  returns buf.Bytes(), a slice of the buffer's array, to a    *)
(*             caller who reads it later (combinedOutput, ReadFile, encode)*)
(* sync.Pool and bytes.Buffer are modelled by what they do: Get takes any  *)
(* pooled buffer or a new one; a write goes into the array of the buffer,  *)
(* or into a larger one it is copied to.                                   *)
(***************************************************************************)
EXTENDS Naturals, Sequences

CONSTANTS
    Users,       \* goroutines, one call each
    Mode,        \* "copy" or "output", for each
    Buffers,     \* buffers New may allocate
    Arrays,      \* byte arrays buffers may allocate
    MaxWrites,   \* bound on the writes of one call
    None

ASSUME BufferPoolAssumption ==
    /\ Mode \in [Users -> {"copy", "output"}]
    /\ MaxWrites \in Nat
    /\ None \notin Users \cup Buffers \cup Arrays

VARIABLES
    pool,        \* buffers in the sync.Pool
    made,        \* buffers allocated by New
    arr,         \* array of each buffer
    used,        \* arrays allocated
    mem,         \* arrays: who wrote each cell
    len,         \* length of each buffer
    buf,         \* buffer each call took
    slice,       \* the slice an "output" call returns
    wrote,       \* number of writes of each call
    seen,        \* history: the bytes as they were used
    pc           \* where each call is

vars == <<pool, made, arr, used, mem, len, buf, slice, wrote, seen, pc>>

Cells == 1..MaxWrites

Init ==
    /\ pool = {}
    /\ made = {}
    /\ arr = [b \in Buffers |-> None]
    /\ used = {}
    /\ mem = [a \in Arrays |-> [k \in Cells |-> None]]
    /\ len = [b \in Buffers |-> 0]
    /\ buf = [u \in Users |-> None]
    /\ slice = [u \in Users |-> None]
    /\ wrote = [u \in Users |-> 0]
    /\ seen = [u \in Users |-> None]
    /\ pc = [u \in Users |-> "start"]

Goto(u, point) == pc' = [pc EXCEPT ![u] = point]

(* What an allocation returns: one of the objects never used before.       *)
Fresh(all, taken) ==
    IF all \subseteq taken THEN {} ELSE {CHOOSE x \in all \ taken : TRUE}

(* The bytes of an array up to a length.                                   *)
Bytes(a, n) == [k \in 1..n |-> mem[a][k]]

----------------------------------------------------------------------------
(* Mutant of Get: the buffer is not reset.                                 *)
GetUnreset(u) ==
    /\ pc[u] = "start"
    /\ \E b \in pool \cup Fresh(Buffers, made) :
        /\ pool' = pool \ {b}
        /\ made' = made \cup {b}
        /\ buf' = [buf EXCEPT ![u] = b]
    /\ Goto(u, "writing")
    /\ UNCHANGED <<arr, used, mem, len, slice, wrote, seen>>

(* Mutant of Get: New hands out one buffer to everyone.                    *)
GetShared(u) ==
    /\ pc[u] = "start"
    /\ \E b \in Buffers :
        /\ pool' = pool \ {b}
        /\ made' = made \cup {b}
        /\ buf' = [buf EXCEPT ![u] = b]
        /\ len' = [len EXCEPT ![b] = 0]
    /\ Goto(u, "writing")
    /\ UNCHANGED <<arr, used, mem, slice, wrote, seen>>

(* Pool.Get: a pooled or a new buffer, reset.  Resetting keeps the array.  *)
Get(u) ==
    /\ pc[u] = "start"
    /\ \E b \in pool \cup Fresh(Buffers, made) :
        /\ pool' = pool \ {b}
        /\ made' = made \cup {b}
        /\ buf' = [buf EXCEPT ![u] = b]
        /\ len' = [len EXCEPT ![b] = 0]
    /\ Goto(u, "writing")
    /\ UNCHANGED <<arr, used, mem, slice, wrote, seen>>

(* A write into the buffer's array, or into a new array.                   *)
Write(u) ==
    /\ pc[u] = "writing"
    /\ wrote[u] < MaxWrites
    /\ LET b == buf[u]
           old == IF arr[b] = None THEN [k \in Cells |-> None] ELSE mem[arr[b]]
       IN  \E a \in ({arr[b]} \ {None}) \cup Fresh(Arrays, used) :
            /\ mem' = [mem EXCEPT ![a] = [old EXCEPT ![len[b] + 1] = u]]
            /\ arr' = [arr EXCEPT ![b] = a]
            /\ used' = used \cup {a}
            /\ len' = [len EXCEPT ![b] = @ + 1]
    /\ wrote' = [wrote EXCEPT ![u] = @ + 1]
    /\ UNCHANGED <<pool, made, buf, slice, seen, pc>>

(* A "copy" call uses the bytes while it holds the buffer.                 *)
UseHeld(u) ==
    /\ pc[u] = "writing"
    /\ Mode[u] = "copy"
    /\ wrote[u] > 0
    /\ seen' = [seen EXCEPT ![u] = Bytes(arr[buf[u]], len[buf[u]])]
    /\ Goto(u, "held")
    /\ UNCHANGED <<pool, made, arr, used, mem, len, buf, slice, wrote>>

(* An "output" call evaluates its return value buf.Bytes() ...             *)
TakeBytes(u) ==
    /\ pc[u] = "writing"
    /\ Mode[u] = "output"
    /\ wrote[u] > 0
    /\ slice' = [slice EXCEPT ![u] = [array |-> arr[buf[u]], len |-> len[buf[u]]]]
    /\ Goto(u, "held")
    /\ UNCHANGED <<pool, made, arr, used, mem, len, buf, wrote, seen>>

(* Mutant of Fail: the error path does not put the buffer back.            *)
FailLeaks(u) ==
    /\ pc[u] = "writing"
    /\ Goto(u, "done")
    /\ UNCHANGED <<pool, made, arr, used, mem, len, buf, slice, wrote, seen>>

(* A call that fails, or has nothing to write, uses no bytes.              *)
Fail(u) ==
    /\ pc[u] = "writing"
    /\ Goto(u, "held")
    /\ UNCHANGED <<pool, made, arr, used, mem, len, buf, slice, wrote, seen>>

(* ... and the deferred put runs after it.                                 *)
Put(u) ==
    /\ pc[u] = "held"
    /\ pool' = pool \cup {buf[u]}
    /\ Goto(u, IF slice[u] = None THEN "done" ELSE "returned")
    /\ UNCHANGED <<made, arr, used, mem, len, buf, slice, wrote, seen>>

(* The caller of an "output" call uses the slice it was returned.          *)
UseReturned(u) ==
    /\ pc[u] = "returned"
    /\ seen' = [seen EXCEPT ![u] = Bytes(slice[u].array, slice[u].len)]
    /\ Goto(u, "done")
    /\ UNCHANGED <<pool, made, arr, used, mem, len, buf, slice, wrote>>

----------------------------------------------------------------------------
Step(u) ==
    \/ Get(u) \/ Write(u) \/ UseHeld(u) \/ TakeBytes(u) \/ Fail(u) \/ Put(u)
    \/ UseReturned(u)

Next == \E u \in Users : Step(u)

Spec == Init /\ [][Next]_vars

(* Every goroutine that can take a step takes one: no call waits.          *)
FairSpec == Spec /\ \A u \in Users : WF_vars(Step(u))

----------------------------------------------------------------------------
Slices == [array : Arrays, len : 0..MaxWrites]

TypeOK ==
    /\ pool \subseteq made
    /\ made \subseteq Buffers
    /\ arr \in [Buffers -> used \cup {None}]
    /\ used \subseteq Arrays
    /\ mem \in [Arrays -> [Cells -> Users \cup {None}]]
    /\ len \in [Buffers -> 0..MaxWrites]
    /\ buf \in [Users -> made \cup {None}]
    /\ slice \in [Users -> Slices \cup {None}]
    /\ wrote \in [Users -> 0..MaxWrites]
    /\ pc \in [Users -> {"start", "writing", "held", "returned", "done"}]

Holds(u) == pc[u] \in {"writing", "held"}

(* A buffer handed out is in nobody else's hands and not in the pool       *)
(* ("Calls are goroutine-safe", mempools.go:18).                           *)
OneOwner ==
    \A u \in Users : Holds(u) =>
        /\ buf[u] \notin pool
        /\ \A v \in Users \ {u} : Holds(v) => buf[v] # buf[u]

(* What call u wrote.                                                      *)
Written(u) == [k \in 1..wrote[u] |-> u]

(* Whoever uses the bytes before giving the buffer back sees its writes,   *)
(* even beside calls that keep slices of buffers they gave back.           *)
CopiesAreOwn ==
    \A u \in Users : Mode[u] = "copy" /\ seen[u] # None => seen[u] = Written(u)

(* Every buffer taken is given back, on the error paths too.               *)
BuffersReturn == <>[](pool = made /\ \A u \in Users : ~Holds(u))

(* "The buffer _must_ not be used after putting it back in the pool"       *)
(* (mempools.go:19): what the caller of an "output" call reads is what the *)
(* call wrote.                                                             *)
OutputStable ==
    \A u \in Users : Mode[u] = "output" /\ seen[u] # None => seen[u] = Written(u)
=============================================================================
