------------------------------ MODULE ArrayUtil ------------------------------
(***************************************************************************)
(* array.util.ts: its functions as operators on sequences, and the loop of *)
(* shuffle as a machine.  Indices of the code count from 0; undefined is   *)
(* {} and a value v that may be undefined {v}.                             *)
(***************************************************************************)
EXTENDS Integers, FiniteSets, FiniteSetsExt, Sequences, SequencesExt

CONSTANTS
    Numbers,    \* the items; 0 is the one that is falsy
    MaxLength,  \* of the arrays
    Amounts     \* sizes and numbers of positions

VARIABLES
    given, other,  \* the arguments
    shuffled,
    i              \* of the loop of shuffle

arrayVars == <<given, other, shuffled, i>>

-----------------------------------------------------------------------------
(* Array.prototype.slice: a negative index counts from the end.            *)
At(array, k) == IF k < 0 THEN Max({Len(array) + k, 0}) ELSE Min({k, Len(array)})
slice(array, from, to) == SubSeq(array, At(array, from) + 1, At(array, to))

take(array, n) == slice(array, 0, n)
takeLast(array, n) == slice(array, -n, Len(array))
drop(array, n) == slice(array, n, Len(array))
dropLast(array, n) == slice(array, 0, -n)

chunk(array, size) ==
    [k \in 1..(Len(array) + size - 1) \div size |-> slice(array, (k - 1) * size, k * size)]
flatten(arrays) == FoldLeft(LAMBDA flat, item : flat \o item, <<>>, arrays)

rotate(array, positions) ==
    IF array = <<>> THEN array
    ELSE LET offset == positions % Len(array)
         IN  drop(array, offset) \o take(array, offset)

-----------------------------------------------------------------------------
(* Functions that are given a key or a condition have one of these.        *)
Key(item) == item % 2
Holds(item) == item > 1

uniqueBy(array) ==
    FoldLeft(LAMBDA seen, item :
                 IF \E k \in DOMAIN seen : Key(seen[k]) = Key(item) THEN seen ELSE Append(seen, item),
             <<>>, array)
unique(array) ==
    FoldLeft(LAMBDA seen, item : IF item \in ToSet(seen) THEN seen ELSE Append(seen, item), <<>>, array)

groupBy(array) ==
    FoldLeft(LAMBDA groups, item :
                 [k \in DOMAIN groups \cup {Key(item)} |->
                     (IF k \in DOMAIN groups THEN groups[k] ELSE <<>>) \o
                     (IF k = Key(item) THEN <<item>> ELSE <<>>)],
             [k \in {} |-> <<>>], array)
countBy(array) ==
    FoldLeft(LAMBDA counts, item :
                 [k \in DOMAIN counts \cup {item} |->
                     (IF k \in DOMAIN counts THEN counts[k] ELSE 0) + (IF k = item THEN 1 ELSE 0)],
             [k \in {} |-> 0], array)
partition(array) ==
    FoldLeft(LAMBDA parts, item :
                 IF Holds(item) THEN <<Append(parts[1], item), parts[2]>>
                 ELSE <<parts[1], Append(parts[2], item)>>,
             <<<<>>, <<>>>>, array)

(* A stable sort by the comparator of the code.                            *)
Compare(a, b, order) ==
    CASE Key(a) < Key(b) -> (IF order = "asc" THEN -1 ELSE 1)
      [] Key(a) > Key(b) -> (IF order = "asc" THEN 1 ELSE -1)
      [] OTHER -> 0
Sorted(array, Order(_, _)) ==
    LET before(j, k) == Order(array[j], array[k]) < 0 \/ (Order(array[j], array[k]) = 0 /\ j < k)
    IN  [n \in DOMAIN array |->
            array[CHOOSE k \in DOMAIN array : Cardinality({j \in DOMAIN array : before(j, k)}) = n - 1]]
sortBy(array, order) == Sorted(array, LAMBDA a, b : Compare(a, b, order))

(* Twice the median: it is a half when two numbers are in the middle.      *)
medianTwice(array) ==
    LET sorted == Sorted(array, LAMBDA a, b : a - b)
        mid == Len(array) \div 2
    IN  IF Len(array) % 2 = 0 THEN sorted[mid] + sorted[mid + 1] ELSE 2 * sorted[mid + 1]

-----------------------------------------------------------------------------
compact(array) == SelectSeq(array, LAMBDA item : item # 0)
intersection(array1, array2) == SelectSeq(array1, LAMBDA item : item \in ToSet(array2))
union(array1, array2) == unique(array1 \o array2)
difference(array1, array2) == SelectSeq(array1, LAMBDA item : item \notin ToSet(array2))

findIndex(array) ==
    IF \E k \in DOMAIN array : Holds(array[k]) THEN Min({k \in DOMAIN array : Holds(array[k])}) - 1 ELSE -1
findLastIndex(array) ==
    IF \E k \in DOMAIN array : Holds(array[k]) THEN Max({k \in DOMAIN array : Holds(array[k])}) - 1 ELSE -1

Item(array, k) == IF k \in DOMAIN array THEN {array[k]} ELSE {}
zip(array1, array2) ==
    [k \in 1..Max({Len(array1), Len(array2)}) |-> <<Item(array1, k), Item(array2, k)>>]
isEqual(array1, array2) ==
    Len(array1) = Len(array2) /\ \A k \in DOMAIN array1 : array1[k] = array2[k]
sum(array) == FoldLeft(LAMBDA s, num : s + num, 0, array)
range(start, end, by) ==
    [k \in 1..(IF start < end THEN (end - start + by - 1) \div by ELSE 0) |-> start + (k - 1) * by]

-----------------------------------------------------------------------------
(* shuffle: an item is exchanged with one that is not after it, from the   *)
(* last to the second.                                                     *)
Init ==
    /\ given \in BoundedSeq(Numbers, MaxLength) /\ other \in BoundedSeq(Numbers, 2)
    /\ shuffled = given /\ i = Len(given)

Exchanged(array, j, k) == [array EXCEPT ![j] = array[k], ![k] = array[j]]

Shuffle ==
    /\ i > 1 /\ other = <<>>
    /\ \E j \in 1..i : shuffled' = Exchanged(shuffled, i, j)
    /\ i' = i - 1
    /\ UNCHANGED <<given, other>>

Next == Shuffle

TypeOK ==
    /\ given \in Seq(Numbers) /\ other \in Seq(Numbers) /\ shuffled \in Seq(Numbers)
    /\ i \in 0..Len(given)

-----------------------------------------------------------------------------
Occurrences(array, item) == Cardinality({k \in DOMAIN array : array[k] = item})
Rearranged(array1, array2) == \A item \in Numbers : Occurrences(array1, item) = Occurrences(array2, item)

(* What is taken apart can be put together again: chunks of the size asked *)
(* for, the last one possibly shorter; what is taken and what is dropped;  *)
(* both parts of a partition, an intersection and a difference, which keep *)
(* their order.  A rotation is undone by the opposite one, and rotations   *)
(* add up.                                                                 *)
ApartAndTogether ==
    /\ \A n \in {m \in Amounts : m > 0} :
         LET chunks == chunk(given, n)
         IN  /\ flatten(chunks) = given
             /\ \A k \in DOMAIN chunks : Len(chunks[k]) \in 1..n /\ (k < Len(chunks) => Len(chunks[k]) = n)
    /\ \A n \in Amounts :
         /\ take(given, n) \o drop(given, n) = given
         /\ dropLast(given, n) \o takeLast(given, n) = given
         /\ n > 0 => Len(takeLast(given, n)) = Min({n, Len(given)})
    /\ \A m, n \in Amounts :
         /\ rotate(rotate(given, n), -n) = given /\ rotate(rotate(given, -n), n) = given
         /\ rotate(rotate(given, m), n) = rotate(given, m + n)
    /\ LET parts == partition(given)
       IN  Rearranged(parts[1] \o parts[2], given) /\ parts[1] = SelectSeq(given, Holds)
    /\ Rearranged(intersection(given, other) \o difference(given, other), given)
    /\ ToSet(union(given, other)) = ToSet(given) \cup ToSet(other)

(* Items are counted, grouped, sorted and searched as they are: groups and *)
(* a sorted array keep the order of items with one key, counts add up to   *)
(* the length, the first of each key is the one that stays, and half of    *)
(* the numbers are on either side of the median.                           *)
InOrder ==
    /\ \A k \in DOMAIN groupBy(given) : groupBy(given)[k] = SelectSeq(given, LAMBDA item : Key(item) = k)
    /\ \A item \in Numbers : Occurrences(given, item) = IF item \in DOMAIN countBy(given) THEN countBy(given)[item] ELSE 0
    /\ \A order \in {"asc", "desc"} :
         LET sorted == sortBy(given, order)
         IN  /\ \A k \in 1..Len(sorted) - 1 : Compare(sorted[k], sorted[k + 1], order) <= 0
             /\ \A key \in {0, 1} :
                  SelectSeq(sorted, LAMBDA item : Key(item) = key) = SelectSeq(given, LAMBDA item : Key(item) = key)
    /\ Len(uniqueBy(given)) = Cardinality(DOMAIN groupBy(given))
    /\ \A k \in DOMAIN uniqueBy(given) : uniqueBy(given)[k] = groupBy(given)[Key(uniqueBy(given)[k])][1]
    /\ given # <<>> =>
         /\ 2 * Cardinality({k \in DOMAIN given : 2 * given[k] <= medianTwice(given)}) >= Len(given)
         /\ 2 * Cardinality({k \in DOMAIN given : 2 * given[k] >= medianTwice(given)}) >= Len(given)
    /\ findIndex(given) = -1 <=> partition(given)[1] = <<>>
    /\ sum(compact(given)) = sum(given)
    /\ isEqual(given, other) <=> \A k \in DOMAIN zip(given, other) : zip(given, other)[k][1] = zip(given, other)[k][2]
    /\ given # <<>> /\ findLastIndex(given) >= 0 => Holds(given[findLastIndex(given) + 1])
    /\ \A n \in {m \in Amounts : m > 0} : ToSet(range(0, Len(given), n)) = {k \in 0..Len(given) - 1 : k % n = 0}

(* A shuffled array has the same items as before.                          *)
ShuffleKeeps == Rearranged(shuffled, given)
=============================================================================
