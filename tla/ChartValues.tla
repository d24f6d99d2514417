---------------------------- MODULE ChartValues ----------------------------
(***************************************************************************)
(* The values a Helm chart is templated with.  The Component functions     *)
(* under crib/scalar/charts put the user's values over the chart's         *)
(* defaults, which the process holds once (chartDefaults), and some apply  *)
(* patches to the result.  Go maps and slices are references, so what is   *)
(* modelled is a heap: an object is a map or a list of values, a value is  *)
(* <<"leaf", x>>, <<"ref", address>> or <<"nil">>.                         *)
(*                                                                         *)
(* The charts differ: anvil and otterscan merge with mergo and apply       *)
(* patches, aptos copies and applies patches, postgres, jd and             *)
(* telepresence copy and ignore patches.  Component functions run one at a *)
(* time, under the plan service's lock.                                    *)
(***************************************************************************)
EXTENDS SequencesExt, Relation

CONSTANTS
    Charts,         \* chart -> [merges, patches]: which of the two it does
    InitialHeap,    \* sequence of [list, at]; at maps keys or 0..n to values
    Defaults,       \* chart -> address of chartDefaults.Values
    Props,          \* component -> [chart, values, loader, patches]
    MaxCalls        \* bound on the calls of component functions

VARIABLES
    heap,       \* objects by address
    props,      \* Props, as the calls leave them; values 0 is a nil map
    parsed,     \* file loaders that have parsed their file
    calls       \* what every call gave helm: [of, ok, gets]

vars == <<heap, props, parsed, calls>>

Ref(a) == <<"ref", a>>
Map == [list |-> FALSE, at |-> <<>>]

(* The object a key of a refers to, or 0.                                  *)
Under(h, a, key, list) ==
    IF key \in DOMAIN h[a].at /\ h[a].at[key][1] = "ref"
          /\ h[h[a].at[key][2]].list = list
    THEN h[a].at[key][2] ELSE 0

Put(h, a, key, value) == [h EXCEPT ![a].at = (key :> value) @@ @]

(* Get the object under a key, or make it: [h, a].                         *)
GetOrMake(h, a, key, list, fresh) ==
    IF Under(h, a, key, list) # 0
    THEN [h |-> h, a |-> Under(h, a, key, list)]
    ELSE [h |-> Append(Put(h, a, key, Ref(Len(h) + 1)), fresh), a |-> Len(h) + 1]

(* The list under a key, long enough for an index: a short list is copied  *)
(* into a new one, which shares its elements.                              *)
ListFor(h, a, key, idx) ==
    LET old == Under(h, a, key, TRUE)
        n == IF old = 0 THEN 0 ELSE Cardinality(DOMAIN h[old].at)
        longer == [list |-> TRUE,
                   at |-> [i \in 0..idx |-> IF i < n THEN h[old].at[i] ELSE <<"nil">>]]
    IN  IF n > idx THEN [h |-> h, a |-> old]
        ELSE [h |-> Append(Put(h, a, key, Ref(Len(h) + 1)), longer), a |-> Len(h) + 1]

(* One part of a path, "key" or "key[idx]": idx is -1 without an index, and *)
(* Unread when what stands between the brackets is no number.              *)
Unread == -2

Enter(at, part) ==
    IF part[2] = -1
    THEN GetOrMake(at.h, at.a, part[1], FALSE, Map)
    ELSE LET list == ListFor(at.h, at.a, part[1], part[2])
         IN  GetOrMake(list.h, list.a, part[2], FALSE, Map)

(* SetValueAtPath changes the map it is given, and what that map shares.   *)
(* At an index it cannot read it returns, with the parts before it made.   *)
SetValueAtPath(h, m, path, value) ==
    LET unread == SelectInSeq(path, LAMBDA part : part[2] = Unread)
        parents == IF unread = 0 THEN Front(path) ELSE SubSeq(path, 1, unread - 1)
        at == FoldLeft(Enter, [h |-> h, a |-> m], parents)
        part == Last(path)
        list == ListFor(at.h, at.a, part[1], part[2])
    IN  IF unread # 0 THEN at.h
        ELSE IF part[2] = -1 THEN Put(at.h, at.a, part[1], value)
        ELSE Put(list.h, list.a, part[2], value)

(* mergo.Merge with override (external): maps on both sides are merged in  *)
(* place, anything else of src replaces what dst has.                      *)
RECURSIVE Merge(_, _, _)
Merge(h, dst, src) ==
    LET key(g, k) ==
            LET d == Under(g, dst, k, FALSE)
                s == Under(g, src, k, FALSE)
            IN  IF d # 0 /\ s # 0 THEN Merge(g, d, s)
                ELSE Put(g, dst, k, g[src].at[k])
    IN  FoldSet(LAMBDA k, g : key(g, k), h, DOMAIN h[src].at)

(* Mutant of Copy: the defaults are copied over the user's values.         *)
CopyOver(h, dst, src) == [h EXCEPT ![dst].at = @ @@ h[src].at]

(* maps.Copy: the top level only.                                          *)
Copy(h, dst, src) == [h EXCEPT ![dst].at = h[src].at @@ @]

(* Mutant of Patching: every chart applies the patches.                    *)
PatchingAll(chart) == TRUE

Patching(chart) == Charts[chart].patches

(* The values of a component: [h, a].                                      *)
ValuesOf(h, p) ==
    LET root == Len(h) + 1
        put(g, src) == IF src = 0 THEN g
                       ELSE IF Charts[p.chart].merges THEN Merge(g, root, src)
                       ELSE Copy(g, root, src)
        copied == put(put(Append(h, Map), Defaults[p.chart]), p.values)
        patch(g, q) == SetValueAtPath(g, root, q.path, q.value)
    IN  [h |-> IF Patching(p.chart) THEN FoldLeft(patch, copied, p.patches) ELSE copied,
         a |-> root]

(* All leaves below an object, with their paths.                           *)
RECURSIVE Leaves(_, _)
Leaves(h, a) ==
    UNION {LET v == h[a].at[k] IN
           CASE v[1] = "leaf" -> {<< <<ToString(k)>>, v[2]>>}
             [] v[1] = "ref"  -> {<< <<ToString(k)>> \o l[1], l[2]>> : l \in Leaves(h, v[2])}
             [] OTHER -> {} : k \in DOMAIN h[a].at}

----------------------------------------------------------------------------
Init ==
    /\ heap = InitialHeap
    /\ props = Props
    /\ parsed = {}
    /\ calls = <<>>

NoLoader == [kind |-> "none", values |-> 0]

(* A component with both values and a loader, with a loader that has       *)
(* nothing to give (a missing or unreadable file, a YAMLLoader that has    *)
(* parsed nothing), or with a file that has been parsed for another:       *)
(* "cannot parse again".                                                   *)
Refused(p) ==
    \/ p.values # 0 /\ p.loader # NoLoader
    \/ p.loader.kind = "empty"
    \/ p.loader.kind = "file" /\ p.loader \in parsed

CallRefused(c) ==
    /\ Len(calls) < MaxCalls
    /\ Refused(props[c])
    /\ calls' = Append(calls, [of |-> c, ok |-> FALSE, gets |-> {}])
    /\ UNCHANGED <<heap, props, parsed>>

(* Mutant of Loaded: the loader is kept.                                   *)
LoadedKept(p) == IF p.loader = NoLoader THEN p ELSE [p EXCEPT !.values = p.loader.values]

(* The values come from the loader, which is cleared "to avoid confusion". *)
Loaded(p) ==
    IF p.loader = NoLoader THEN p
    ELSE [p EXCEPT !.values = p.loader.values, !.loader = NoLoader]

Component(c) ==
    /\ Len(calls) < MaxCalls
    /\ ~Refused(props[c])
    /\ LET p == Loaded(props[c])
           v == ValuesOf(heap, p)
       IN  /\ heap' = v.h
           /\ props' = [props EXCEPT ![c] = p]
           /\ calls' = Append(calls, [of |-> c, ok |-> TRUE, gets |-> Leaves(v.h, v.a)])
    /\ parsed' = IF props[c].loader.kind = "file" THEN parsed \cup {props[c].loader}
                 ELSE parsed

Next == \E c \in DOMAIN Props : CallRefused(c) \/ Component(c)

Spec == Init /\ [][Next]_vars

----------------------------------------------------------------------------
(* The paths of patches, as Leaves writes them.                            *)
LeafPath(path) ==
    FlattenSeq([i \in DOMAIN path |->
        <<ToString(path[i][1])>> \o IF path[i][2] = -1 THEN <<>> ELSE <<ToString(path[i][2])>>])

PatchesOf(c) ==
    SelectSeq(IF Patching(Props[c].chart) THEN Props[c].patches ELSE <<>>,
              LAMBDA patch : \A i \in DOMAIN patch.path : patch.path[i][2] # Unread)

Meet(one, other) == IsPrefix(one, other) \/ IsPrefix(other, one)

Patched(c, at) == \E patch \in ToSet(PatchesOf(c)) : Meet(at, LeafPath(patch.path))

(* The map the user gave a component, by itself or in a loader, and what   *)
(* it held before any component function ran.                              *)
UserMap(c) == Loaded(Props[c]).values
Users(c) == IF UserMap(c) = 0 THEN {} ELSE Leaves(InitialHeap, UserMap(c))

(* The maps a component is given.  A chart that merges ties the maps of    *)
(* all its components together, so what they share may go through another  *)
(* chart.                                                                  *)
Own(c) == {Defaults[Props[c].chart], UserMap(c)} \ {0}
Merging == {chart \in DOMAIN Charts : Charts[chart].merges}
MapsOf(chart) == UNION {Own(c) : c \in {d \in DOMAIN Props : Props[d].chart = chart}}
Tied == ReflexiveTransitiveClosure(
            [k, l \in Merging |-> MapsOf(k) \cap MapsOf(l) # {}], Merging)
Shares(c, d) ==
    \/ Own(c) \cap Own(d) # {}
    \/ \E k, l \in Merging :
           Tied[k, l] /\ Own(c) \cap MapsOf(k) # {} /\ Own(d) \cap MapsOf(l) # {}

(* What a component may change beside its own result: its chart merges or  *)
(* patches, and the two share a map.                                       *)
Writes(c, d) ==
    /\ Charts[Props[c].chart].merges \/ Charts[Props[c].chart].patches
    /\ Shares(c, d)

(* "User provided values will override the defaults" (component.go:71-72), *)
(* and a patch overrides both: whatever ran before, a chart is given the   *)
(* value of every patch whose path can be read, and every value the user   *)
(* wrote that no patch of this component replaces and that no earlier      *)
(* component, writing into a map the two share, was given otherwise.       *)
UserValuesWin ==
    \A i \in DOMAIN calls : calls[i].ok =>
        LET c == calls[i].of
            patches == PatchesOf(c)
            replaced(l) == \E j \in 1..(i - 1) :
                               /\ Writes(calls[j].of, c)
                               /\ \E m \in calls[j].gets \ {l} : Meet(m[1], l[1])
        IN  /\ \A l \in Users(c) : l \in calls[i].gets \/ Patched(c, l[1]) \/ replaced(l)
            /\ \A j \in DOMAIN patches :
                   \/ <<LeafPath(patches[j].path), patches[j].value[2]>> \in calls[i].gets
                   \/ \E k \in (j + 1)..Len(patches) : patches[k].path = patches[j].path

(* A preview calls every component function again: with no component in    *)
(* between that writes into a map it shares with this one, the second call *)
(* gives helm the same values as the first, although the first has         *)
(* consumed the loader and changed the props, the defaults and the user's  *)
(* map.                                                                    *)
CallsRepeat ==
    \A i, j \in DOMAIN calls :
        (/\ i < j
         /\ calls[i].of = calls[j].of
         /\ \A k \in (i + 1)..(j - 1) :
                calls[k].of = calls[i].of \/ ~Writes(calls[k].of, calls[i].of))
        => calls[i].ok = calls[j].ok /\ calls[i].gets = calls[j].gets

(* The charts share nested values with chartDefaults and with the user's   *)
(* maps (component.go:71-98), so one component may see what another wrote. *)
(* What leaks is bounded: only leaves below the top level, only ones that  *)
(* an earlier component was given which writes into a map the two share,   *)
(* and, in a chart that only copies (postgres, jd, telepresence), only     *)
(* leaves below a key of the user's own map: its defaults stay as they     *)
(* were.                                                                   *)
LeaksAreNamed ==
    \A i \in DOMAIN calls : calls[i].ok =>
        LET c == calls[i].of
            chart == Charts[Props[c].chart]
            fresh == ValuesOf(InitialHeap, Loaded(Props[c]))
            leaks == calls[i].gets \ Leaves(fresh.h, fresh.a)
        IN  \A l \in leaks :
                /\ Len(l[1]) > 1
                /\ \E j \in 1..(i - 1) : l \in calls[j].gets /\ Writes(calls[j].of, c)
                /\ chart.merges \/ chart.patches \/ \E u \in Users(c) : Head(u[1]) = Head(l[1])
=============================================================================
