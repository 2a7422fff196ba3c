------------------------------ MODULE ObjectUtil ------------------------------
(***************************************************************************)
(* object.util.ts on objects of two levels.  An object is a function from  *)
(* its own keys; a value is [leaf |-> v] or [object |-> o]; a path is a    *)
(* sequence of keys, the dots left out.                                    *)
(***************************************************************************)
EXTENDS Naturals, FiniteSets, Functions, Sequences, SequencesExt

CONSTANTS Keys, Inner, Leaves  \* Inner: the keys of the objects within

VARIABLES target, source, merged

objectVars == <<target, source, merged>>

-----------------------------------------------------------------------------
Empty == [k \in {} |-> [leaf |-> "null"]]
Undefined == [leaf |-> "undefined"]
Nullish == {[leaf |-> "null"], Undefined}
isObject(value) == "object" \in DOMAIN value
Value(o, key) == IF key \in DOMAIN o THEN o[key] ELSE Undefined
With(o, key, value) == [k \in DOMAIN o \cup {key} |-> IF k = key THEN value ELSE o[k]]

Of(keys, values) == UNION {[ks -> values] : ks \in SUBSET keys}
LeafValues == {[leaf |-> v] : v \in Leaves}
Within == Of(Inner, LeafValues)
Objects == Of(Keys, LeafValues \cup {[object |-> o] : o \in Within})

-----------------------------------------------------------------------------
(* A function that calls itself for the objects within finds leaves alone  *)
(* there.                                                                  *)

(* deepMerge: a nested object is merged into what the target has under its *)
(* key; that becomes an object if it is falsy, and is left as it is if it  *)
(* is another value.                                                       *)
Assigned(o, from, Merge(_, _)) ==
    [k \in DOMAIN o \cup DOMAIN from |->
        IF k \in DOMAIN from THEN Merge(Value(o, k), from[k]) ELSE o[k]]
deepMerge(o, from) ==
    LET Leaf(old, new) == new
        Merge(old, new) ==
            CASE ~isObject(new) -> new
              [] isObject(new) /\ isObject(old) -> [object |-> Assigned(old.object, new.object, Leaf)]
              [] isObject(new) /\ old \in Nullish -> [object |-> Assigned(Empty, new.object, Leaf)]
              [] OTHER -> old
    IN  Assigned(o, from, Merge)

(* diff: what is new or other in the second object; a key that is gone is  *)
(* no difference.                                                          *)
Other(obj1, obj2, k) == k \notin DOMAIN obj1 \/ obj1[k] # obj2[k]
leafDiff(obj1, obj2) == Restrict(obj2, {k \in DOMAIN obj2 : Other(obj1, obj2, k)})
diff(obj1, obj2) ==
    LET both(k) == k \in DOMAIN obj1 /\ isObject(obj1[k]) /\ isObject(obj2[k])
        nested(k) == leafDiff(obj1[k].object, obj2[k].object)
        changed == {k \in DOMAIN obj2 : IF both(k) THEN nested(k) # Empty ELSE Other(obj1, obj2, k)}
    IN  [k \in changed |-> IF both(k) THEN [object |-> nested(k)] ELSE obj2[k]]

(* isEqual: as many keys, and equal values under the keys of the first.    *)
Same(obj1, obj2, Alike(_, _)) ==
    /\ Cardinality(DOMAIN obj1) = Cardinality(DOMAIN obj2)
    /\ \A k \in DOMAIN obj1 : Alike(obj1[k], Value(obj2, k))
isEqual(obj1, obj2) ==
    Same(obj1, obj2, LAMBDA v, w : IF isObject(v) /\ isObject(w)
                                   THEN Same(v.object, w.object, LAMBDA x, y : x = y)
                                   ELSE v = w)

-----------------------------------------------------------------------------
(* get, set, and the flat form, whose keys are the paths of the leaves.    *)
get(o, path, defaultValue) ==
    LET found == FoldLeft(LAMBDA value, key : IF isObject(value) THEN Value(value.object, key) ELSE Undefined,
                          [object |-> o], path)
    IN  IF found = Undefined THEN defaultValue ELSE found

set(o, path, value) ==
    LET current == Value(o, path[1])
        within == IF isObject(current) THEN current.object ELSE Empty
    IN  With(o, path[1], IF Len(path) = 1 THEN value ELSE [object |-> With(within, path[2], value)])

getPaths(o) ==
    UNION {IF isObject(o[k]) THEN {<<k, j>> : j \in DOMAIN o[k].object} ELSE {<<k>>} : k \in DOMAIN o}

Follow(o, path) == IF Len(path) = 1 THEN o[path[1]] ELSE o[path[1]].object[path[2]]
flatten(o) == [p \in getPaths(o) |-> Follow(o, p)]
unflatten(flat) == FoldLeft(LAMBDA o, p : set(o, p, flat[p]), Empty, SetToSeq(DOMAIN flat))

-----------------------------------------------------------------------------
pick(o, keys) == Restrict(o, keys \cap DOMAIN o)
omit(o, keys) == Restrict(o, DOMAIN o \ keys)
filter(o, passing) == Restrict(o, {k \in DOMAIN o : o[k] \in passing})
mapValues(o, transformer) == [k \in DOMAIN o |-> transformer[o[k]]]

(* Without recursion the objects within are kept as they are.              *)
removeNullish(o, recursive) ==
    LET Kept(x) == filter(x, Range(x) \ Nullish)
        Cleaned == [value \in Range(Kept(o)) |->
                       IF recursive /\ isObject(value) THEN [object |-> Kept(value.object)] ELSE value]
    IN  mapValues(Kept(o), Cleaned)

-----------------------------------------------------------------------------
Init == target \in Objects /\ source \in Objects /\ merged = FALSE

(* deepMerge changes its target in place.                                  *)
DeepMerge ==
    /\ ~merged /\ merged' = TRUE
    /\ target' = deepMerge(target, source)
    /\ UNCHANGED source

Next == DeepMerge

TypeOK == target \in Objects /\ source \in Objects /\ merged \in BOOLEAN

-----------------------------------------------------------------------------
(* Every value, and the values of the objects within.                      *)
Values(o) == Range(flatten(o))
Hollow(o) == \E k \in DOMAIN o : isObject(o[k]) /\ o[k].object = Empty
Blocked(o, from) ==
    \E k \in DOMAIN o \cap DOMAIN from : isObject(from[k]) /\ ~isObject(o[k]) /\ o[k] \notin Nullish

(* What is merged in can be read under every path of the source, unless a  *)
(* value of the target stood where the source has an object; nothing else  *)
(* of the target is lost, and merging again changes nothing.  The same     *)
(* goes for the difference of two objects, which leads from the first to   *)
(* the second and is empty both ways for the same ones only.               *)
MergesAgree ==
    LET result == deepMerge(target, source)
        patched == deepMerge(target, diff(target, source))
    IN  /\ merged => deepMerge(target, source) = target
        /\ ~Blocked(target, source) =>
             \A p \in getPaths(source) :
                 get(result, p, Undefined) = flatten(source)[p] /\ get(patched, p, Undefined) = flatten(source)[p]
        /\ \A p \in getPaths(target) :
             (p[1] \in DOMAIN source =>
                  p \notin getPaths(source) /\ isObject(target[p[1]]) /\ isObject(source[p[1]])) =>
                 get(result, p, Undefined) = flatten(target)[p]
        /\ (diff(target, source) = Empty /\ diff(source, target) = Empty) <=> target = source

(* Two objects are equal for isEqual when they are, if none has undefined  *)
(* values: {a: undefined} equals {b: 1} for it, though not the other way.  *)
(* An object can be had back from its flat form unless it has an empty one *)
(* within.  Cleaning leaves no null or undefined, and picked and omitted   *)
(* keys complement each other.                                             *)
FormsAgree ==
    /\ isEqual(target, target)
    /\ Undefined \notin Values(target) \cup Values(source) =>
         (isEqual(target, source) <=> target = source)
    /\ unflatten(flatten(target)) = target <=> ~Hollow(target)
    /\ \A p \in getPaths(target) : set(target, p, flatten(target)[p]) = target
    /\ Values(removeNullish(target, TRUE)) \cap Nullish = {}
    /\ Nullish \cap Range(removeNullish(target, FALSE)) = {}
    /\ \A keys \in SUBSET Keys : target = [k \in DOMAIN target |->
             IF k \in keys THEN pick(target, keys)[k] ELSE omit(target, keys)[k]]
=============================================================================
