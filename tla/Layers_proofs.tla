---------------------------- MODULE Layers_proofs ----------------------------
(***************************************************************************)
(* The calls of layer.service.ts for any layers, clients, limits and       *)
(* indexes: their types; that no index runs away however calls overlap;    *)
(* and, when they do not overlap, that the numbering stays tidy, a         *)
(* deletion heals it and moveLayerToTop does what its name says.           *)
(***************************************************************************)
EXTENDS Layers, FiniteSetTheorems, FunctionTheorems, WellFoundedInduction, TLAPS

(* The record of a call, whatever it does.                                 *)
Calls ==
    [step : Steps, op : {"none", "add", "duplicate", "reindex", "reorder"} \cup Moves,
     layer : Layers \cup {"none"}, at : Nat, todo : SUBSET (Layers \X Nat)]

TypeInv ==
    /\ TypeOK
    /\ call \in [Clients -> Calls]
    /\ \A c \in Clients : call[c].step \in Moves => call[c].layer \in Layers

(* At most one call is in flight.                                          *)
Alone == \A c, d \in Clients : c # d => Is(c, "idle") \/ Is(d, "idle")

(* The order that the updates of call c, once all of them have arrived,    *)
(* leave behind: what has not arrived is still to be written as there.     *)
Target(c, g) ==
    /\ g \in [Rows(order) -> Nat]
    /\ \A u \in call[c].todo : u[1] \in Rows(order) /\ u[2] = g[u[1]]
    /\ \A l \in Rows(order) : order[l] = g[l] \/ \E u \in call[c].todo : u[1] = l

(* What it is good for: a renumbering is compact, moving to the top makes  *)
(* the layer the first, and a tidy user's order stays compact.             *)
Worthy(c, g) ==
    /\ call[c].op = "reindex" \/ (tidy /\ faults = 0) => Compact(g)
    /\ call[c].op = "top" =>
         /\ call[c].layer \in Rows(order)
         /\ \A k \in Rows(order) \ {call[c].layer} : g[call[c].layer] < g[k]

(* What a call knows that has read and not yet written.                    *)
CallInv(c) ==
    /\ Is(c, "write") => \E g \in [Rows(order) -> Nat] : Target(c, g) /\ Worthy(c, g)
    /\ Is(c, "duplicate") => Rows(order) # {}
    /\ Is(c, "insert") /\ tidy /\ faults = 0 => call[c].at = Count(order)
    /\ call[c].step \in Moves =>
         call[c].layer \in Rows(order) /\ call[c].at = order[call[c].layer]
    /\ Is(c, "top") => call[c].at # 0

Renumbering(c) == call[c].step \in {"reindex", "write"}

TidyInv ==
    tidy /\ faults = 0 /\ (\A c \in Clients : ~Renumbering(c)) => Compact(order)

AloneInv == TypeInv /\ TidyInv /\ \A c \in Clients : CallInv(c)

(* However stale what a call has read, no index it is going to write is    *)
(* beyond the ids spent.                                                   *)
DriftInv ==
    tidy =>
        /\ NoDrift
        /\ \A c \in Clients :
             /\ Is(c, "duplicate") => used # {}
             /\ Is(c, "insert") => call[c].at <= Cardinality(used)
             /\ call[c].step \in Moves => call[c].at < Cardinality(used)
             /\ \A u \in call[c].todo : u[2] < Cardinality(used)

-----------------------------------------------------------------------------
(* A compact order of n rows is a bijection, so there are n rows.          *)
LEMMA CompactCount ==
    ASSUME NEW f, NEW n \in Nat, IsCompact(f, n)
    PROVE  IsFiniteSet(Rows(f)) /\ Count(f) = n
<1>1. f \in Bijection(Rows(f), 0..n-1)
  BY DEF IsCompact, Bijection, Injection, Surjection, IsInjective
<1>2. IsFiniteSet(0..n-1) /\ Cardinality(0..n-1) = n
  BY FS_Interval
<1>3. ExistsBijection(Rows(f), 0..n-1)
  BY <1>1 DEF ExistsBijection
<1> QED
  BY <1>2, <1>3, FS_Bijection, Fun_ExistsBijSymmetric DEF Count

(* Applying one update to each row is the function of the updates.         *)
LEMMA ApplyAll ==
    ASSUME NEW f, NEW g, NEW U,
           U = {<<k, g[k]>> : k \in Rows(f)}
    PROVE  Apply(f, U) = [k \in Rows(f) |-> g[k]]
<1>1. ASSUME NEW l \in Rows(f)
      PROVE  (\E u \in U : u[1] = l) /\ (CHOOSE u \in U : u[1] = l)[2] = g[l]
  <2>1. <<l, g[l]>> \in U /\ <<l, g[l]>>[1] = l
    OBVIOUS
  <2>2. ASSUME NEW u \in U, u[1] = l PROVE u[2] = g[l]
    BY <2>2
  <2> QED
    BY <2>1, <2>2
<1> QED
  BY <1>1 DEF Apply

(* moveLayerToTop takes a compact order to a compact order, and its layer  *)
(* to index 0.                                                             *)
THEOREM ToTopKeepsCompact ==
    ASSUME NEW f, NEW n \in Nat, IsCompact(f, n), NEW l \in Rows(f)
    PROVE  LET g == Apply(f, ToTop(f, l, f[l]))
           IN  IsCompact(g, n) /\ Rows(g) = Rows(f) /\ g[l] = 0
<1> DEFINE h == [k \in Rows(f) |-> IF k = l THEN 0 ELSE IF f[k] < f[l] THEN f[k] + 1 ELSE f[k]]
<1>1. Apply(f, ToTop(f, l, f[l])) = h
  <2>1. ToTop(f, l, f[l]) = {<<k, h[k]>> : k \in Rows(f)}
    BY DEF ToTop
  <2> HIDE DEF h
  <2>2. Apply(f, ToTop(f, l, f[l])) = [k \in Rows(f) |-> h[k]]
    BY <2>1, ApplyAll
  <2> QED
    BY <2>2 DEF h
<1>2. \A k \in Rows(f) : f[k] \in 0..n-1
  BY DEF IsCompact
<1>3. h \in [Rows(f) -> 0..n-1]
  BY <1>2 DEF IsCompact
<1>4. ASSUME NEW i \in 0..n-1 PROVE \E k \in Rows(f) : h[k] = i
  <2>1. CASE i = 0
    BY <2>1
  <2>2. CASE i # 0 /\ i <= f[l]
    <3>1. i - 1 \in 0..n-1
      BY <2>2
    <3>2. PICK k \in Rows(f) : f[k] = i - 1
      BY <3>1 DEF IsCompact
    <3> QED
      BY <1>2, <2>2, <3>2
  <2>3. CASE i > f[l]
    <3>1. PICK k \in Rows(f) : f[k] = i
      BY DEF IsCompact
    <3> QED
      BY <1>2, <2>3, <3>1
  <2> QED
    BY <1>2, <2>1, <2>2, <2>3
<1>5. ASSUME NEW j \in Rows(f), NEW k \in Rows(f), h[j] = h[k] PROVE j = k
  <2>1. f[j] = f[k] => j = k
    BY DEF IsCompact
  <2>2. f[j] \in Nat /\ f[k] \in Nat /\ f[l] \in Nat
    BY <1>2
  <2>3. (j # l => f[j] # f[l]) /\ (k # l => f[k] # f[l])
    BY DEF IsCompact
  <2> QED
    BY <1>5, <2>1, <2>2, <2>3
<1>6. IsCompact(h, n) /\ Rows(h) = Rows(f) /\ h[l] = 0
  BY <1>3, <1>4, <1>5 DEF IsCompact, Rows
<1> QED
  BY <1>1, <1>6

(* moveLayerToBottom takes a compact order to a compact order, and its     *)
(* layer to the last index: "max index" is right when, and only when, the  *)
(* order it finds is compact.                                              *)
THEOREM ToBottomKeepsCompact ==
    ASSUME NEW f, NEW n \in Nat, IsCompact(f, n), NEW l \in Rows(f)
    PROVE  LET g == Apply(f, ToBottom(f, l, f[l]))
           IN  IsCompact(g, n) /\ Rows(g) = Rows(f) /\ g[l] = n - 1
<1> DEFINE h == [k \in Rows(f) |-> IF k = l THEN n - 1 ELSE IF f[k] > f[l] THEN f[k] - 1 ELSE f[k]]
<1>1. Apply(f, ToBottom(f, l, f[l])) = h
  <2>1. ToBottom(f, l, f[l]) = {<<k, h[k]>> : k \in Rows(f)}
    BY CompactCount DEF ToBottom
  <2> HIDE DEF h
  <2>2. Apply(f, ToBottom(f, l, f[l])) = [k \in Rows(f) |-> h[k]]
    BY <2>1, ApplyAll
  <2> QED
    BY <2>2 DEF h
<1>2. \A k \in Rows(f) : f[k] \in 0..n-1
  BY DEF IsCompact
<1>3. h \in [Rows(f) -> 0..n-1]
  BY <1>2 DEF IsCompact
<1>4. ASSUME NEW i \in 0..n-1 PROVE \E k \in Rows(f) : h[k] = i
  <2>1. CASE i = n - 1
    BY <2>1
  <2>2. CASE i # n - 1 /\ i >= f[l]
    <3>1. i + 1 \in 0..n-1
      BY <2>2
    <3>2. PICK k \in Rows(f) : f[k] = i + 1
      BY <3>1 DEF IsCompact
    <3> QED
      BY <1>2, <2>2, <3>2
  <2>3. CASE i < f[l]
    <3>1. PICK k \in Rows(f) : f[k] = i
      BY DEF IsCompact
    <3> QED
      BY <1>2, <2>3, <3>1
  <2> QED
    BY <1>2, <2>1, <2>2, <2>3
<1>5. ASSUME NEW j \in Rows(f), NEW k \in Rows(f), h[j] = h[k] PROVE j = k
  <2>1. f[j] = f[k] => j = k
    BY DEF IsCompact
  <2>2. f[j] \in 0..n-1 /\ f[k] \in 0..n-1 /\ f[l] \in 0..n-1
    BY <1>2
  <2>3. (j # l => f[j] # f[l]) /\ (k # l => f[k] # f[l])
    BY DEF IsCompact
  <2> QED
    BY <1>5, <2>1, <2>2, <2>3
<1>6. IsCompact(h, n) /\ Rows(h) = Rows(f) /\ h[l] = n - 1
  BY <1>3, <1>4, <1>5 DEF IsCompact, Rows
<1> QED
  BY <1>1, <1>6

(* moveLayerUp and moveLayerDown exchange two rows of a compact order.     *)
THEOREM SwapKeepsCompact ==
    ASSUME NEW f, NEW n \in Nat, IsCompact(f, n),
           NEW k \in Rows(f), NEW l \in Rows(f), k # l
    PROVE  LET g == Apply(f, Swap(l, f[l], k, f[k]))
           IN  IsCompact(g, n) /\ Rows(g) = Rows(f) /\ g[l] = f[k] /\ g[k] = f[l]
<1> DEFINE U == Swap(l, f[l], k, f[k])
           h == [x \in Rows(f) |-> IF x = l THEN f[k] ELSE IF x = k THEN f[l] ELSE f[x]]
<1>1. Apply(f, U) = h
  <2>1. ASSUME NEW u \in U PROVE (u[1] = l => u[2] = f[k]) /\ (u[1] = k => u[2] = f[l])
                                  /\ u[1] \in {k, l}
    BY DEF Swap
  <2>2. (\E u \in U : u[1] = l) /\ (\E u \in U : u[1] = k)
    <3>1. <<l, f[k]>> \in U /\ <<k, f[l]>> \in U
      BY DEF Swap
    <3>2. <<l, f[k]>>[1] = l /\ <<k, f[l]>>[1] = k
      OBVIOUS
    <3> QED
      BY <3>1, <3>2
  <2> HIDE DEF U
  <2>3. (CHOOSE u \in U : u[1] = l)[2] = f[k] /\ (CHOOSE u \in U : u[1] = k)[2] = f[l]
    BY <2>1, <2>2
  <2> QED
    BY <2>1, <2>2, <2>3 DEF Apply
<1>2. IsCompact(h, n) /\ Rows(h) = Rows(f) /\ h[l] = f[k] /\ h[k] = f[l]
  <2>1. h \in [Rows(f) -> 0..n-1]
    BY DEF IsCompact
  <2>2. ASSUME NEW i \in 0..n-1 PROVE \E x \in Rows(f) : h[x] = i
    <3>1. PICK x \in Rows(f) : f[x] = i
      BY DEF IsCompact
    <3> QED
      BY <3>1
  <2>3. ASSUME NEW x \in Rows(f), NEW y \in Rows(f), h[x] = h[y] PROVE x = y
    BY <2>3 DEF IsCompact
  <2> QED
    BY <2>1, <2>2, <2>3 DEF IsCompact, Rows
<1> QED
  BY <1>1, <1>2

(* addLayer and duplicateLayer put the new row behind those of a compact   *)
(* order; of an empty one, they do not: its first index is 1.              *)
THEOREM NextIndexOfCompact ==
    ASSUME NEW f, NEW n \in Nat, IsCompact(f, n)
    PROVE  NextIndex(f) = IF n = 0 THEN 1 ELSE n
<1>1. CASE n = 0
  BY <1>1, CompactCount, FS_EmptySet DEF NextIndex, Count
<1>2. CASE n # 0
  <2>1. n - 1 \in 0..n-1
    BY <1>2
  <2>2. PICK l \in Rows(f) : f[l] = n - 1
    BY <2>1 DEF IsCompact
  <2>3. \A k \in Rows(f) : f[k] \in 0..n-1
    BY DEF IsCompact
  <2> DEFINE I == {f[k] : k \in Rows(f)}
  <2>4. n - 1 \in I /\ \A k \in Rows(f) : f[k] <= n - 1
    BY <2>1, <2>2, <2>3
  <2>5. ASSUME NEW i \in I, \A k \in Rows(f) : f[k] <= i PROVE i = n - 1
    BY <2>2, <2>3, <2>5
  <2>6. (CHOOSE i \in I : \A k \in Rows(f) : f[k] <= i) = n - 1
    BY <2>4, <2>5
  <2>7. NextIndex(f) = 1 + (CHOOSE i \in I : \A k \in Rows(f) : f[k] <= i)
    BY <2>2, Zenon DEF NextIndex
  <2> HIDE DEF I
  <2>8. NextIndex(f) = 1 + (n - 1)
    BY <2>6, <2>7
  <2> QED
    BY <1>2, <2>8
<1> QED
  BY <1>1, <1>2

(* A row behind those of a compact order leaves it compact.                *)
LEMMA AppendKeepsCompact ==
    ASSUME NEW f, NEW n \in Nat, IsCompact(f, n), NEW l, l \notin Rows(f),
           NEW g, g = [k \in Rows(f) \cup {l} |-> IF k = l THEN n ELSE f[k]]
    PROVE  IsCompact(g, n + 1)
<1>1. \A k \in Rows(f) : f[k] \in 0..n-1 /\ g[k] = f[k]
  BY DEF IsCompact
<1>2. Rows(g) = Rows(f) \cup {l} /\ g[l] = n
  BY DEF Rows
<1>3. g \in [Rows(g) -> 0..(n+1)-1]
  BY <1>1, <1>2
<1>4. ASSUME NEW i \in 0..(n+1)-1 PROVE \E k \in Rows(g) : g[k] = i
  <2>1. CASE i = n
    BY <1>2, <2>1
  <2>2. CASE i # n
    <3>1. i \in 0..n-1
      BY <2>2
    <3>2. PICK k \in Rows(f) : f[k] = i
      BY <3>1 DEF IsCompact
    <3> QED
      BY <1>1, <1>2, <3>2
  <2> QED
    BY <2>1, <2>2
<1>5. ASSUME NEW j \in Rows(g), NEW k \in Rows(g), g[j] = g[k] PROVE j = k
  <2>1. \A x \in Rows(f) : g[x] # n
    BY <1>1
  <2>2. j \in Rows(f) /\ k \in Rows(f) => j = k
    BY <1>1, <1>5 DEF IsCompact
  <2> QED
    BY <1>2, <1>5, <2>1, <2>2
<1> QED
  BY <1>3, <1>4, <1>5 DEF IsCompact

(* An order that is compact for its number of rows.                        *)
LEMMA CompactFor ==
    ASSUME NEW f, IsFiniteSet(Rows(f))
    PROVE  /\ Count(f) \in Nat
           /\ Compact(f) <=> IsCompact(f, Count(f))
           /\ \A n \in Nat : IsCompact(f, n) => Compact(f) /\ Count(f) = n
<1>1. Count(f) \in Nat
  BY FS_CardinalityType DEF Count
<1>2. ASSUME NEW n \in Nat, IsCompact(f, n) PROVE Compact(f) /\ Count(f) = n
  BY <1>2, CompactCount DEF Compact
<1> QED
  BY <1>1, <1>2 DEF Compact

(* deleteLayer's renumbering is compact whatever the indexes were: n rows  *)
(* with different indexes below n take all of them.                        *)
THEOREM ReindexIsCompact ==
    ASSUME NEW f, IsFiniteSet(Rows(f)), NEW g \in Reindexings(f)
    PROVE  Compact(g) /\ Rows(g) = Rows(f)
<1> DEFINE n == Count(f)
<1>1. n \in Nat
  BY CompactFor
<1>2. g \in [Rows(f) -> 0..n-1] /\ Rows(g) = Rows(f)
  BY DEF Reindexings, Rows
<1>3. \A k, l \in Rows(f) : g[k] = g[l] => k = l
  BY DEF Reindexings
<1>4. IsFiniteSet(0..n-1) /\ Cardinality(0..n-1) = n
  BY <1>1, FS_Interval
<1>5. g \in Injection(Rows(f), 0..n-1)
  BY <1>2, <1>3 DEF Injection, IsInjective
<1>6. Cardinality(Rows(f)) = n
  BY DEF Count
<1> HIDE DEF n
<1>7. g \in Surjection(Rows(f), 0..n-1)
  BY <1>4, <1>5, <1>6, FS_Injection
<1>8. \A i \in 0..n-1 : \E l \in Rows(f) : g[l] = i
  BY <1>7 DEF Surjection
<1>9. IsCompact(g, n)
  BY <1>2, <1>3, <1>8 DEF IsCompact
<1> QED
  BY <1>1, <1>2, <1>9, CompactFor

(* One update that arrives.                                                *)
LEMMA PutRows ==
    ASSUME NEW f, NEW u
    PROVE  /\ Rows(Put(f, u)) = Rows(f)
           /\ \A l \in Rows(f) : Put(f, u)[l] = IF l = u[1] THEN u[2] ELSE f[l]
  BY DEF Put, Rows

-----------------------------------------------------------------------------
(* Types.                                                                  *)

(* Some row has the largest index, however many rows there are: a smallest *)
(* set of rows without one would lose it with any of its rows.             *)
LEMMA LargestIndex ==
    ASSUME NEW f, IsFiniteSet(Rows(f)), Rows(f) # {}, f \in [Rows(f) -> Nat]
    PROVE  \E l \in Rows(f) : \A k \in Rows(f) : f[k] <= f[l]
<1> DEFINE R == Rows(f)
           Topped(U) == \E l \in U : \A k \in U : f[k] <= f[l]
           T == {U \in SUBSET R : U # {} /\ ~Topped(U)}
<1>1. SUFFICES ASSUME T # {} PROVE FALSE
  OBVIOUS
<1>2. IsWellFoundedOn(StrictSubsetOrdering(R), SUBSET R)
  BY FS_StrictSubsetOrderingWellFounded, FS_FiniteSubsetsOfFinite
<1>3. PICK U \in T : \A V \in T : <<V, U>> \notin StrictSubsetOrdering(R)
  <2>1. T \subseteq SUBSET R
    OBVIOUS
  <2> HIDE DEF T
  <2> QED
    BY <1>1, <1>2, <2>1, WFMin
<1>4. PICK x \in U : TRUE
  OBVIOUS
<1> DEFINE V == U \ {x}
<1>5. V \subseteq U /\ V # U /\ V \in SUBSET R
  BY <1>4
<1>6. V \notin T
  <2>1. <<V, U>> \in StrictSubsetOrdering(R)
    BY <1>5 DEF StrictSubsetOrdering
  <2> QED
    BY <1>3, <2>1
<1>7. CASE V = {}
  <2>1. U = {x} /\ f[x] \in Nat
    BY <1>4, <1>7
  <2> QED
    BY <2>1
<1>8. CASE V # {}
  <2>1. PICK m \in V : \A k \in V : f[k] <= f[m]
    BY <1>5, <1>6, <1>8
  <2>2. \A k \in U : f[k] \in Nat
    OBVIOUS
  <2>3. CASE f[x] <= f[m]
    BY <1>5, <2>1, <2>2, <2>3
  <2>4. CASE f[x] > f[m]
    BY <1>4, <2>1, <2>2, <2>4
  <2> QED
    BY <1>5, <2>1, <2>2, <2>3, <2>4
<1> QED
  BY <1>7, <1>8

(* The rows there are are finitely many, and so are the ids spent.         *)
LEMMA FiniteRows ==
    ASSUME TypeInv
    PROVE  /\ IsFiniteSet(Rows(order)) /\ IsFiniteSet(used)
           /\ Count(order) \in Nat /\ Cardinality(used) \in Nat
           /\ Count(order) <= Cardinality(used)
           /\ Rows(order) # {} => Count(order) # 0
<1>1. used \in SUBSET Layers /\ Rows(order) \in SUBSET used
  BY DEF TypeInv, TypeOK
<1>2. IsFiniteSet(used) /\ IsFiniteSet(Rows(order))
  BY <1>1, LayersAssumption, FS_Subset
<1>3. Count(order) <= Cardinality(used)
  BY <1>1, <1>2, FS_Subset DEF Count
<1> QED
  BY <1>2, <1>3, FS_CardinalityType, FS_EmptySet DEF Count

(* The largest index is that of some row.                                  *)
LEMMA NextIndexAfter ==
    ASSUME TypeInv, Rows(order) # {}
    PROVE  \E l \in Rows(order) : NextIndex(order) = 1 + order[l]
<1> DEFINE I == {order[l] : l \in Rows(order)}
<1>1. PICK l \in Rows(order) : \A k \in Rows(order) : order[k] <= order[l]
  BY FiniteRows, LargestIndex DEF TypeInv, TypeOK
<1>2. \E i \in I : \A k \in Rows(order) : order[k] <= i
  BY <1>1
<1>3. (CHOOSE i \in I : \A k \in Rows(order) : order[k] <= i) \in I
  BY <1>2
<1>4. NextIndex(order) = 1 + (CHOOSE i \in I : \A k \in Rows(order) : order[k] <= i)
  BY Zenon DEF NextIndex
<1> QED
  BY <1>3, <1>4

(* The next index is a number.                                             *)
LEMMA NextIndexTyped ==
    ASSUME TypeInv
    PROVE  NextIndex(order) \in Nat
<1>1. CASE Rows(order) = {}
  BY <1>1 DEF NextIndex
<1>2. CASE Rows(order) # {}
  <2>1. PICK l \in Rows(order) : NextIndex(order) = 1 + order[l]
    BY <1>2, NextIndexAfter
  <2> QED
    BY <2>1 DEF TypeInv, TypeOK
<1> QED
  BY <1>1, <1>2

(* A call becomes another one, and the rows stay.                          *)
LEMMA CallTyped ==
    ASSUME TypeInv, NEW c \in Clients, NEW x \in Calls, Become(c, x),
           x.step \in Moves => x.layer \in Layers,
           UNCHANGED <<order, locked, used, faults, tidy>>
    PROVE  TypeInv'
<1>1. call' \in [Clients -> Calls]
  BY DEF TypeInv, Become
<1>2. \A d \in Clients : call'[d] \in Calls
  BY <1>1
<1>3. TypeOK'
  BY <1>2 DEF TypeInv, TypeOK, Calls, Rows
<1>4. \A d \in Clients : call'[d].step \in Moves => call'[d].layer \in Layers
  BY DEF TypeInv, Become
<1> QED
  BY <1>1, <1>3, <1>4 DEF TypeInv

(* Sending updates of rows makes the call one that writes, or ends it.     *)
LEMMA SendTyped ==
    ASSUME TypeInv, NEW c \in Clients,
           NEW op \in {"reindex", "reorder"} \cup Moves,
           NEW U \in SUBSET (Layers \X Nat), Send(c, op, U)
    PROVE  \E x \in Calls : Become(c, x) /\ (x.step \in Moves => x.layer \in Layers)
<1>1. Idle \in Calls /\ Idle.step \notin Moves
  BY DEF Idle, Calls, Steps, Moves
<1> DEFINE x == [call[c] EXCEPT !.step = "write", !.op = op, !.todo = U]
<1>2. x \in Calls /\ x.step \notin Moves
  BY DEF TypeInv, Calls, Steps, Moves
<1> QED
  BY <1>1, <1>2 DEF Send, Return

(* The updates that the operations compute are of rows, and numbers.       *)
LEMMA UpdatesTyped ==
    ASSUME TypeInv, NEW at \in Nat, NEW l \in Layers
    PROVE  /\ \A U \in Reindex(order) : U \subseteq Rows(order) \X Nat
           /\ ToTop(order, l, at) \subseteq Rows(order) \X Nat
           /\ ToBottom(order, l, at) \subseteq Rows(order) \X Nat
           /\ \A k \in Rows(order) : Swap(l, at, k, order[k]) \subseteq Layers \X Nat
<1>1. \A k \in Rows(order) : order[k] \in Nat /\ k \in Layers
  BY DEF TypeInv, TypeOK
<1>2. ASSUME NEW U \in Reindex(order) PROVE U \subseteq Rows(order) \X Nat
  <2>1. PICK g \in Reindexings(order) : U = {<<k, g[k]>> : k \in Rows(order)}
    BY DEF Reindex
  <2>2. \A k \in Rows(order) : g[k] \in Nat
    BY FiniteRows DEF Reindexings
  <2> QED
    BY <2>1, <2>2
<1>3. ToTop(order, l, at) \subseteq Rows(order) \X Nat
  BY <1>1 DEF ToTop
<1>4. ToBottom(order, l, at) \subseteq Rows(order) \X Nat
  <2>1. PICK n \in Nat : n = Count(order)
    BY FiniteRows
  <2>2. Rows(order) # {} => n - 1 \in Nat
    BY <2>1, FiniteRows
  <2>3. \A k \in Rows(order) : (IF k = l THEN n - 1 ELSE IF order[k] > at THEN order[k] - 1 ELSE order[k]) \in Nat
    BY <1>1, <2>2
  <2> QED
    BY <2>1, <2>3 DEF ToBottom
<1>5. ASSUME NEW k \in Rows(order) PROVE Swap(l, at, k, order[k]) \subseteq Layers \X Nat
  BY <1>1 DEF Swap
<1> QED
  BY <1>2, <1>3, <1>4, <1>5

(* Every step of a call keeps the types.                                   *)
LEMMA TypeSteps ==
    ASSUME TypeInv, [Next]_vars
    PROVE  TypeInv'
<1>1. CASE UNCHANGED vars
  BY <1>1 DEF vars, TypeInv, TypeOK, Calls, Rows
<1>2. ASSUME NEW c \in Clients, NEW x \in Calls, Become(c, x),
             x.step \in Moves => x.layer \in Layers,
             UNCHANGED <<order, locked, used, faults, tidy>>
      PROVE  TypeInv'
  BY <1>2, CallTyped
<1>3. Idle \in Calls /\ Idle.step \notin Moves
  BY DEF Idle, Calls, Steps, Moves
<1> SUFFICES ASSUME Next PROVE TypeInv'
  BY <1>1
<1>4. PICK c \in Clients :
        \/ AddCheck(c) \/ AddReadMax(c) \/ AddWithIndex(c)
        \/ DuplicateFind(c) \/ DuplicateReadMax(c) \/ Insert(c)
        \/ UpdateCheck(c) \/ UpdateWrite(c)
        \/ DeleteCheck(c) \/ DeleteRow(c) \/ DeleteReindex(c)
        \/ Reorder(c) \/ (\E op \in Moves : MoveFind(c, op))
        \/ MoveUp(c) \/ MoveDown(c) \/ MoveToTop(c) \/ MoveToBottom(c)
        \/ Write(c) \/ CallFails(c)
  BY DEF Next
<1>5. /\ call[c] \in Calls /\ call[c].at \in Nat /\ call[c].todo \in SUBSET (Layers \X Nat)
      /\ Rows(order) \subseteq Layers
      /\ \A k \in Rows(order) : order[k] \in Nat
  BY DEF TypeInv, TypeOK, Calls
(* The same with the rows, the locks or the counter changed as well.       *)
<1>6. ASSUME NEW x \in Calls, Become(c, x), x.step \notin Moves,
             used' \subseteq Layers, Rows(order') \subseteq used',
             order' \in [Rows(order') -> Nat], locked' \subseteq Rows(order'),
             faults' \in 0..MaxFaults, tidy' = tidy
      PROVE  TypeInv'
  <2>1. call' \in [Clients -> Calls]
    BY <1>6 DEF TypeInv, Become
  <2>2. \A d \in Clients : call'[d] \in Calls
    BY <2>1
  <2>3. TypeOK'
    BY <1>6, <2>2 DEF TypeInv, TypeOK, Calls, Rows
  <2>4. \A d \in Clients : call'[d].step \in Moves => call'[d].layer \in Layers
    BY <1>6 DEF TypeInv, Become
  <2> QED
    BY <2>1, <2>3, <2>4 DEF TypeInv
<1>7. ASSUME AddCheck(c) PROVE TypeInv'
  <2> DEFINE x == [Idle EXCEPT !.step = "add", !.op = "add"]
  <2>1. x \in Calls /\ x.step \notin Moves
    BY DEF Idle, Calls, Steps, Moves
  <2> QED
    BY <1>2, <1>7, <2>1 DEF AddCheck
<1>8. ASSUME NEW i \in Nat, Become(c, [call[c] EXCEPT !.step = "insert", !.at = i]),
             UNCHANGED <<order, locked, used, faults, tidy>>
      PROVE  TypeInv'
  <2> DEFINE x == [call[c] EXCEPT !.step = "insert", !.at = i]
  <2>1. x \in Calls /\ x.step \notin Moves
    BY <1>5 DEF Calls, Steps, Moves
  <2> QED
    BY <1>2, <1>8, <2>1
<1>9. ASSUME AddReadMax(c) PROVE TypeInv'
  BY <1>8, <1>9, NextIndexTyped DEF AddReadMax
<1>10. ASSUME AddWithIndex(c) PROVE TypeInv'
  <2>1. PICK i \in IF tidy THEN {Count(order)} ELSE Indexes :
          Become(c, [call[c] EXCEPT !.step = "insert", !.at = i])
    BY <1>10 DEF AddWithIndex
  <2>2. i \in Nat
    BY <2>1, FiniteRows, LayersAssumption
  <2> QED
    BY <1>8, <1>10, <2>1, <2>2 DEF AddWithIndex
<1>11. ASSUME DuplicateFind(c) PROVE TypeInv'
  <2> DEFINE x == [Idle EXCEPT !.step = "duplicate", !.op = "duplicate"]
  <2>1. x \in Calls /\ x.step \notin Moves
    BY DEF Idle, Calls, Steps, Moves
  <2> QED
    BY <1>2, <1>11, <2>1 DEF DuplicateFind
<1>12. ASSUME DuplicateReadMax(c) PROVE TypeInv'
  BY <1>8, <1>12, NextIndexTyped DEF DuplicateReadMax
<1>13. ASSUME Insert(c) PROVE TypeInv'
  <2>1. PICK l \in Layers \ used :
          /\ order' = [k \in Rows(order) \cup {l} |-> IF k = l THEN call[c].at ELSE order[k]]
          /\ used' = used \cup {l}
          /\ locked' \in IF call[c].op = "add" THEN {locked, locked \cup {l}} ELSE {locked}
    BY <1>13 DEF Insert
  <2>2. Rows(order') = Rows(order) \cup {l}
    BY <2>1 DEF Rows
  <2>3. order' \in [Rows(order') -> Nat]
    BY <1>5, <2>1, <2>2
  <2>4. locked' \subseteq Rows(order')
    BY <2>1, <2>2 DEF TypeInv, TypeOK
  <2>5. faults' \in 0..MaxFaults /\ tidy' = tidy
    BY <1>13 DEF Insert, TypeInv, TypeOK
  <2>6. used' \subseteq Layers /\ Rows(order') \subseteq used'
    BY <2>1, <2>2 DEF TypeInv, TypeOK
  <2>7. Become(c, Idle)
    BY <1>13 DEF Insert, Return
  <2> QED
    BY <1>3, <1>6, <2>3, <2>4, <2>5, <2>6, <2>7
<1>14. ASSUME UpdateCheck(c) PROVE TypeInv'
  <2>1. PICK l \in Rows(order) \ locked : Become(c, [Idle EXCEPT !.step = "update", !.layer = l])
    BY <1>14 DEF UpdateCheck
  <2> DEFINE x == [Idle EXCEPT !.step = "update", !.layer = l]
  <2>2. x \in Calls /\ x.step \notin Moves
    BY <1>5 DEF Idle, Calls, Steps, Moves
  <2> QED
    BY <1>2, <1>14, <2>1, <2>2 DEF UpdateCheck
<1>15. ASSUME UpdateWrite(c) PROVE TypeInv'
  <2>1. locked' \subseteq Rows(order) /\ Become(c, Idle)
    BY <1>15 DEF UpdateWrite, Return, TypeInv, TypeOK
  <2>2. UNCHANGED <<order, used, faults, tidy>>
    BY <1>15 DEF UpdateWrite
  <2>3. order' \in [Rows(order') -> Nat] /\ used' \subseteq Layers /\ Rows(order') \subseteq used'
        /\ locked' \subseteq Rows(order') /\ faults' \in 0..MaxFaults
    BY <2>1, <2>2 DEF TypeInv, TypeOK
  <2> QED
    BY <1>3, <1>6, <2>1, <2>2, <2>3
<1>16. ASSUME DeleteCheck(c) PROVE TypeInv'
  <2>1. PICK l \in Rows(order) \ locked : Become(c, [Idle EXCEPT !.step = "delete", !.layer = l])
    BY <1>16 DEF DeleteCheck
  <2> DEFINE x == [Idle EXCEPT !.step = "delete", !.layer = l]
  <2>2. x \in Calls /\ x.step \notin Moves
    BY <1>5 DEF Idle, Calls, Steps, Moves
  <2> QED
    BY <1>2, <1>16, <2>1, <2>2 DEF DeleteCheck
<1>17. ASSUME DeleteRow(c) PROVE TypeInv'
  <2> DEFINE l == call[c].layer
  <2>1. CASE l \in Rows(order)
    <3> DEFINE x == [call[c] EXCEPT !.step = "reindex"]
    <3>1. x \in Calls /\ x.step \notin Moves
      BY <1>5 DEF Calls, Steps, Moves
    <3>2. /\ order' = [k \in Rows(order) \ {l} |-> order[k]] /\ locked' = locked \ {l}
          /\ Become(c, x) /\ UNCHANGED <<used, faults, tidy>>
      BY <1>17, <2>1 DEF DeleteRow
    <3>3. Rows(order') = Rows(order) \ {l}
      BY <3>2 DEF Rows
    <3>4. order' \in [Rows(order') -> Nat]
      BY <1>5, <3>2, <3>3
    <3>5. used' \subseteq Layers /\ Rows(order') \subseteq used'
          /\ locked' \subseteq Rows(order') /\ faults' \in 0..MaxFaults
      BY <3>2, <3>3 DEF TypeInv, TypeOK
    <3> QED
      BY <1>6, <3>1, <3>2, <3>4, <3>5
  <2>2. CASE l \notin Rows(order)
    BY <1>2, <1>3, <1>17, <2>2 DEF DeleteRow, Return
  <2> QED
    BY <2>1, <2>2
<1>18. ASSUME NEW op \in {"reindex", "reorder"} \cup Moves,
              NEW U \in SUBSET (Layers \X Nat), Send(c, op, U),
              UNCHANGED <<order, locked, used, faults, tidy>>
       PROVE  TypeInv'
  BY <1>2, <1>18, SendTyped
<1>19. ASSUME DeleteReindex(c) PROVE TypeInv'
  <2>1. PICK U \in Reindex(order) : Send(c, "reindex", U)
    BY <1>19 DEF DeleteReindex
  <2>2. U \subseteq Rows(order) \X Nat
    <3>1. PICK g \in Reindexings(order) : U = {<<k, g[k]>> : k \in Rows(order)}
      BY <2>1 DEF Reindex
    <3>2. \A k \in Rows(order) : g[k] \in Nat
      BY FiniteRows DEF Reindexings
    <3> QED
      BY <3>1, <3>2
  <2>3. U \in SUBSET (Layers \X Nat)
    BY <1>5, <2>2
  <2> QED
    BY <1>18, <1>19, <2>1, <2>3 DEF DeleteReindex
<1>20. ASSUME Reorder(c) PROVE TypeInv'
  <2>1. PICK S \in SUBSET Rows(order), f \in [Rows(order) -> Indexes] :
          Send(c, "reorder", {<<l, f[l]>> : l \in S})
    BY <1>20 DEF Reorder
  <2> DEFINE U == {<<l, f[l]>> : l \in S}
  <2>2. \A l \in S : f[l] \in Nat /\ l \in Layers
    BY <1>5, LayersAssumption
  <2>3. U \in SUBSET (Layers \X Nat)
    BY <2>2
  <2> QED
    BY <1>18, <1>20, <2>1, <2>3 DEF Reorder
<1>21. ASSUME NEW op \in Moves, MoveFind(c, op) PROVE TypeInv'
  <2>1. PICK l \in Rows(order) :
          Become(c, [Idle EXCEPT !.step = op, !.op = op, !.layer = l, !.at = order[l]])
    BY <1>21 DEF MoveFind
  <2> DEFINE x == [Idle EXCEPT !.step = op, !.op = op, !.layer = l, !.at = order[l]]
  <2>2. x \in Calls /\ x.layer \in Layers
    BY <1>5 DEF Idle, Calls, Steps, Moves
  <2> QED
    BY <1>2, <1>21, <2>1, <2>2 DEF MoveFind
<1>22. ASSUME MoveUp(c) PROVE TypeInv'
  <2>1. call[c].layer \in Layers
    BY <1>22 DEF MoveUp, Is, Moves, TypeInv
  <2>2. \A k \in Above(order, call[c].at) :
           Swap(call[c].layer, call[c].at, k, order[k]) \in SUBSET (Layers \X Nat)
    BY <1>5, <2>1, UpdatesTyped DEF Above
  <2>3. "up" \in Moves
    BY DEF Moves
  <2> QED
    BY <1>2, <1>3, <1>18, <1>22, <2>2, <2>3 DEF MoveUp, Return
<1>23. ASSUME MoveDown(c) PROVE TypeInv'
  <2>1. call[c].layer \in Layers
    BY <1>23 DEF MoveDown, Is, Moves, TypeInv
  <2>2. \A k \in Below(order, call[c].at) :
           Swap(call[c].layer, call[c].at, k, order[k]) \in SUBSET (Layers \X Nat)
    BY <1>5, <2>1, UpdatesTyped DEF Below
  <2>3. "down" \in Moves
    BY DEF Moves
  <2> QED
    BY <1>2, <1>3, <1>18, <1>23, <2>2, <2>3 DEF MoveDown, Return
<1>24. ASSUME MoveToTop(c) PROVE TypeInv'
  <2>1. call[c].layer \in Layers
    BY <1>24 DEF MoveToTop, Is, Moves, TypeInv
  <2>2. ToTop(order, call[c].layer, call[c].at) \in SUBSET (Layers \X Nat)
    BY <1>5, <2>1, UpdatesTyped
  <2>3. "top" \in Moves
    BY DEF Moves
  <2> QED
    BY <1>18, <1>24, <2>2, <2>3 DEF MoveToTop
<1>25. ASSUME MoveToBottom(c) PROVE TypeInv'
  <2>1. call[c].layer \in Layers
    BY <1>25 DEF MoveToBottom, Is, Moves, TypeInv
  <2>2. ToBottom(order, call[c].layer, call[c].at) \in SUBSET (Layers \X Nat)
    BY <1>5, <2>1, UpdatesTyped
  <2>3. "bottom" \in Moves
    BY DEF Moves
  <2> QED
    BY <1>2, <1>3, <1>18, <1>25, <2>2, <2>3 DEF MoveToBottom, Return
<1>26. ASSUME Write(c) PROVE TypeInv'
  <2>1. PICK u \in call[c].todo :
          /\ order' = Put(order, u)
          /\ IF call[c].todo = {u} THEN Return(c)
             ELSE Become(c, [call[c] EXCEPT !.todo = @ \ {u}])
    BY <1>26 DEF Write
  <2>2. PICK x \in Calls : Become(c, x) /\ x.step \notin Moves
    <3> DEFINE y == [call[c] EXCEPT !.todo = @ \ {u}]
    <3>1. y \in Calls /\ y.step \notin Moves
      BY <1>5, <1>26 DEF Write, Is, Calls, Steps, Moves
    <3> QED
      BY <1>3, <2>1, <3>1 DEF Return
  <2>3. u[2] \in Nat
    BY <1>5, <2>1
  <2>4. Rows(order') = Rows(order) /\ order' \in [Rows(order') -> Nat]
    BY <1>5, <2>1, <2>3 DEF Put, Rows
  <2>5. UNCHANGED <<locked, used, faults, tidy>>
    BY <1>26 DEF Write
  <2>6. used' \subseteq Layers /\ Rows(order') \subseteq used'
        /\ locked' \subseteq Rows(order') /\ faults' \in 0..MaxFaults
    BY <2>4, <2>5 DEF TypeInv, TypeOK
  <2> QED
    BY <1>6, <2>2, <2>4, <2>5, <2>6
<1>27. ASSUME CallFails(c) PROVE TypeInv'
  <2>1. UNCHANGED <<order, locked, used, tidy>> /\ Become(c, Idle)
    BY <1>27 DEF CallFails, Return
  <2>2. faults' \in 0..MaxFaults
    BY <1>27, LayersAssumption DEF CallFails, TypeInv, TypeOK
  <2>3. order' \in [Rows(order') -> Nat] /\ used' \subseteq Layers /\ Rows(order') \subseteq used'
        /\ locked' \subseteq Rows(order')
    BY <2>1 DEF TypeInv, TypeOK
  <2> QED
    BY <1>3, <1>6, <2>1, <2>2, <2>3
<1> QED
  BY <1>4, <1>7, <1>9, <1>10, <1>11, <1>12, <1>13, <1>14, <1>15, <1>16, <1>17, <1>19, <1>20,
     <1>21, <1>22, <1>23, <1>24, <1>25, <1>26, <1>27

(* The first state, without layers.                                        *)
LEMMA InitTyped ==
    ASSUME Init
    PROVE  TypeInv
<1>1. Idle \in Calls /\ Idle.step \notin Moves
  BY DEF Idle, Calls, Steps, Moves
<1>2. call \in [Clients -> Calls] /\ \A c \in Clients : call[c] = Idle
  BY <1>1 DEF Init
<1>3. \A c \in Clients : call[c] \in Calls
  BY <1>2
<1>4. TypeOK
  BY <1>3, LayersAssumption, HabitsAssumption DEF Init, TypeOK, Calls, Rows
<1> QED
  BY <1>1, <1>2, <1>4 DEF TypeInv

(* The rows, the locks and the calls of layer.service.ts keep their types. *)
THEOREM LayersTyped == Spec => []TypeOK
<1>1. Init => TypeInv
  BY InitTyped
<1>2. TypeInv /\ [Next]_vars => TypeInv'
  BY TypeSteps
<1>3. TypeInv => TypeOK
  BY DEF TypeInv
<1> QED
  BY <1>1, <1>2, <1>3, PTL DEF Spec

-----------------------------------------------------------------------------
(* No index runs away.                                                     *)

(* What DriftInv says of one call, with n ids spent.                       *)
Bounded(x, n) ==
    /\ x.step = "duplicate" => n # 0
    /\ x.step = "insert" => x.at <= n
    /\ x.step \in Moves => x.at < n
    /\ \A u \in x.todo : u[2] < n

(* The updates of an operation give indexes below n when those of the rows *)
(* and the one that the call read are.                                     *)
LEMMA UpdatesBounded ==
    ASSUME TypeInv, NoDrift, NEW at \in Nat, at < Cardinality(used), NEW l
    PROVE  /\ \A U \in Reindex(order) : \A u \in U : u[2] < Cardinality(used)
           /\ \A u \in ToTop(order, l, at) : u[2] < Cardinality(used)
           /\ \A u \in ToBottom(order, l, at) : u[2] < Cardinality(used)
           /\ \A k \in Rows(order) : \A u \in Swap(l, at, k, order[k]) : u[2] < Cardinality(used)
<1>1. PICK n \in Nat : n = Cardinality(used)
  BY FiniteRows
<1>2. PICK m \in Nat : m = Count(order) /\ m <= n
  BY <1>1, FiniteRows
<1>3. \A k \in Rows(order) : order[k] \in Nat /\ order[k] < n
  BY <1>1 DEF TypeInv, TypeOK, NoDrift
<1>4. ASSUME NEW U \in Reindex(order), NEW u \in U PROVE u[2] < n
  <2>1. PICK g \in Reindexings(order) : U = {<<k, g[k]>> : k \in Rows(order)}
    BY <1>4 DEF Reindex
  <2>2. \A k \in Rows(order) : g[k] \in 0..m-1
    BY <1>2 DEF Reindexings
  <2> QED
    BY <1>2, <2>1, <2>2
<1>5. ASSUME NEW u \in ToTop(order, l, at) PROVE u[2] < n
  <2>1. PICK k \in Rows(order) :
          u[2] = IF k = l THEN 0 ELSE IF order[k] < at THEN order[k] + 1 ELSE order[k]
    BY <1>5 DEF ToTop
  <2> QED
    BY <1>1, <1>3, <2>1
<1>6. ASSUME NEW u \in ToBottom(order, l, at) PROVE u[2] < n
  <2>1. PICK k \in Rows(order) :
          u[2] = IF k = l THEN m - 1 ELSE IF order[k] > at THEN order[k] - 1 ELSE order[k]
    BY <1>2, <1>6 DEF ToBottom
  <2> QED
    BY <1>2, <1>3, <2>1
<1>7. ASSUME NEW k \in Rows(order), NEW u \in Swap(l, at, k, order[k]) PROVE u[2] < n
  BY <1>1, <1>3, <1>7 DEF Swap
<1> QED
  BY <1>1, <1>4, <1>5, <1>6, <1>7

(* Every step of a call keeps every index below the number of ids.         *)
LEMMA DriftSteps ==
    ASSUME TypeInv, TypeInv', DriftInv, [Next]_vars
    PROVE  DriftInv'
<1>1. CASE UNCHANGED vars
  BY <1>1 DEF vars, DriftInv, NoDrift, Is, Rows
<1> SUFFICES ASSUME Next PROVE DriftInv'
  BY <1>1
<1>2. tidy' = tidy
  BY DEF Next, AddCheck, AddReadMax, AddWithIndex, DuplicateFind, DuplicateReadMax, Insert,
     UpdateCheck, UpdateWrite, DeleteCheck, DeleteRow, DeleteReindex, Reorder, MoveFind, MoveUp,
     MoveDown, MoveToTop, MoveToBottom, Write, CallFails
<1> SUFFICES ASSUME tidy PROVE DriftInv'
  BY <1>2 DEF DriftInv
<1>3. PICK n \in Nat : n = Cardinality(used)
  BY FiniteRows
<1>4. /\ NoDrift /\ \A k \in Rows(order) : order[k] \in Nat /\ order[k] < n
      /\ \A d \in Clients : Bounded(call[d], n) /\ call[d] \in Calls
  <2>1. n = 0 <=> used = {}
    BY <1>3, FiniteRows, FS_EmptySet
  <2> QED
    BY <1>3, <2>1 DEF DriftInv, NoDrift, TypeInv, TypeOK, Bounded, Is
<1>5. PICK c \in Clients :
        \/ AddCheck(c) \/ AddReadMax(c) \/ AddWithIndex(c)
        \/ DuplicateFind(c) \/ DuplicateReadMax(c) \/ Insert(c)
        \/ UpdateCheck(c) \/ UpdateWrite(c)
        \/ DeleteCheck(c) \/ DeleteRow(c) \/ DeleteReindex(c)
        \/ Reorder(c) \/ (\E op \in Moves : MoveFind(c, op))
        \/ MoveUp(c) \/ MoveDown(c) \/ MoveToTop(c) \/ MoveToBottom(c)
        \/ Write(c) \/ CallFails(c)
  BY DEF Next
(* No more is to be shown than that the acting call is bounded, and so are *)
(* the rows, by the ids spent afterwards.                                  *)
<1>6. ASSUME NEW x, NEW m \in Nat, Become(c, x), Bounded(x, m), n <= m, m = Cardinality(used'),
             \A k \in Rows(order') : order'[k] < m
      PROVE  DriftInv'
  <2>1. \A d \in Clients : Bounded(call'[d], m)
    <3> TAKE d \in Clients
    <3>1. CASE d = c
      BY <1>6, <3>1 DEF Become, TypeInv
    <3>2. CASE d # c
      <4>1. call'[d] = call[d]
        BY <1>6, <3>2 DEF Become, TypeInv
      <4>2. Bounded(call[d], n) /\ call[d] \in Calls
        BY <1>4
      <4>3. Bounded(call[d], m)
        <5>1. call[d].at \in Nat /\ \A u \in call[d].todo : u[2] \in Nat
          BY <4>2 DEF Calls
        <5> QED
          BY <1>6, <4>2, <5>1 DEF Bounded
      <4> QED
        BY <4>1, <4>3
    <3> QED
      BY <3>1, <3>2
  <2>2. m = 0 <=> used' = {}
    <3>1. IsFiniteSet(used')
      BY FiniteRows, LayersAssumption, FS_Subset DEF TypeInv, TypeOK
    <3> QED
      BY <1>6, <3>1, FS_EmptySet
  <2> QED
    BY <1>6, <2>1, <2>2 DEF DriftInv, NoDrift, Bounded, Is, Rows
<1>7. ASSUME NEW x, Become(c, x), Bounded(x, n), order' = order, used' = used
      PROVE  DriftInv'
  BY <1>3, <1>4, <1>6, <1>7
<1>8. Bounded(Idle, n)
  BY DEF Bounded, Idle, Moves
<1>9. /\ call[c] \in Calls /\ Bounded(call[c], n) /\ call[c].at \in Nat
      /\ call[c].todo \in SUBSET (Layers \X Nat)
  BY <1>4 DEF Calls
<1>10. ASSUME AddCheck(c) PROVE DriftInv'
  <2>1. Bounded([Idle EXCEPT !.step = "add", !.op = "add"], n)
    BY DEF Bounded, Idle, Moves
  <2> QED
    BY <1>7, <1>10, <2>1 DEF AddCheck
<1>11. ASSUME NEW i \in Nat, i <= n, Become(c, [call[c] EXCEPT !.step = "insert", !.at = i]),
              UNCHANGED <<order, used>>
       PROVE  DriftInv'
  <2>1. Bounded([call[c] EXCEPT !.step = "insert", !.at = i], n)
    BY <1>9, <1>11 DEF Bounded, Calls, Moves
  <2> QED
    BY <1>7, <1>11, <2>1
<1>12. Rows(order) # {} => NextIndex(order) \in Nat /\ NextIndex(order) <= n
  BY <1>4, NextIndexAfter
<1>13. ASSUME AddReadMax(c) PROVE DriftInv'
  BY <1>11, <1>12, <1>13 DEF AddReadMax
<1>14. ASSUME AddWithIndex(c) PROVE DriftInv'
  <2>1. Become(c, [call[c] EXCEPT !.step = "insert", !.at = Count(order)])
    BY <1>14 DEF AddWithIndex
  <2> QED
    BY <1>3, <1>11, <1>14, <2>1, FiniteRows DEF AddWithIndex
<1>15. ASSUME DuplicateFind(c) PROVE DriftInv'
  <2>1. n # 0
    BY <1>3, <1>15, FiniteRows DEF DuplicateFind
  <2>2. Bounded([Idle EXCEPT !.step = "duplicate", !.op = "duplicate"], n)
    BY <2>1 DEF Bounded, Idle, Moves
  <2> QED
    BY <1>7, <1>15, <2>2 DEF DuplicateFind
<1>16. ASSUME DuplicateReadMax(c) PROVE DriftInv'
  <2>1. n # 0
    BY <1>9, <1>16 DEF DuplicateReadMax, Is, Bounded
  <2>2. NextIndex(order) \in Nat /\ NextIndex(order) <= n
    <3>1. CASE Rows(order) = {}
      BY <2>1, <3>1 DEF NextIndex
    <3> QED
      BY <1>12, <3>1
  <2> QED
    BY <1>11, <1>16, <2>2 DEF DuplicateReadMax
<1>17. ASSUME Insert(c) PROVE DriftInv'
  <2>1. PICK l \in Layers \ used :
          /\ order' = [k \in Rows(order) \cup {l} |-> IF k = l THEN call[c].at ELSE order[k]]
          /\ used' = used \cup {l}
    BY <1>17 DEF Insert
  <2>2. Cardinality(used') = n + 1
    BY <1>3, <2>1, FiniteRows, FS_AddElement
  <2>3. call[c].at <= n
    BY <1>9, <1>17 DEF Insert, Is, Bounded
  <2>4. \A k \in Rows(order') : order'[k] < n + 1
    BY <1>4, <1>9, <2>1, <2>3 DEF Rows
  <2>5. Become(c, Idle) /\ Bounded(Idle, n + 1)
    BY <1>17 DEF Insert, Return, Bounded, Idle, Moves
  <2> QED
    BY <1>6, <2>2, <2>4, <2>5
<1>18. ASSUME UpdateCheck(c) PROVE DriftInv'
  <2>1. PICK l \in Rows(order) \ locked : Become(c, [Idle EXCEPT !.step = "update", !.layer = l])
    BY <1>18 DEF UpdateCheck
  <2>2. Bounded([Idle EXCEPT !.step = "update", !.layer = l], n)
    BY DEF Bounded, Idle, Moves
  <2> QED
    BY <1>7, <1>18, <2>1, <2>2 DEF UpdateCheck
<1>19. ASSUME UpdateWrite(c) PROVE DriftInv'
  BY <1>7, <1>8, <1>19 DEF UpdateWrite, Return
<1>20. ASSUME DeleteCheck(c) PROVE DriftInv'
  <2>1. PICK l \in Rows(order) \ locked : Become(c, [Idle EXCEPT !.step = "delete", !.layer = l])
    BY <1>20 DEF DeleteCheck
  <2>2. Bounded([Idle EXCEPT !.step = "delete", !.layer = l], n)
    BY DEF Bounded, Idle, Moves
  <2> QED
    BY <1>7, <1>20, <2>1, <2>2 DEF DeleteCheck
<1>21. ASSUME DeleteRow(c) PROVE DriftInv'
  <2> DEFINE l == call[c].layer
  <2>1. CASE l \in Rows(order)
    <3> DEFINE x == [call[c] EXCEPT !.step = "reindex"]
    <3>1. Bounded(x, n)
      BY <1>9 DEF Bounded, Calls, Moves
    <3>2. /\ order' = [k \in Rows(order) \ {l} |-> order[k]] /\ used' = used /\ Become(c, x)
      BY <1>21, <2>1 DEF DeleteRow
    <3>3. \A k \in Rows(order') : order'[k] < n
      BY <1>4, <3>2 DEF Rows
    <3> QED
      BY <1>3, <1>6, <3>1, <3>2, <3>3
  <2>2. CASE l \notin Rows(order)
    BY <1>7, <1>8, <1>21, <2>2 DEF DeleteRow, Return
  <2> QED
    BY <2>1, <2>2
<1>22. ASSUME NEW op, NEW U, Send(c, op, U), \A u \in U : u[2] < n, UNCHANGED <<order, used>>
       PROVE  DriftInv'
  <2>1. Bounded([call[c] EXCEPT !.step = "write", !.op = op, !.todo = U], n)
    BY <1>9, <1>22 DEF Bounded, Calls, Moves
  <2> QED
    BY <1>7, <1>8, <1>22, <2>1 DEF Send, Return
<1>23. ASSUME DeleteReindex(c) PROVE DriftInv'
  <2>1. PICK g \in Reindexings(order) : Send(c, "reindex", {<<k, g[k]>> : k \in Rows(order)})
    BY <1>23 DEF DeleteReindex, Reindex
  <2>2. \A k \in Rows(order) : g[k] < n
    BY <1>3, FiniteRows DEF Reindexings
  <2>3. \A u \in {<<k, g[k]>> : k \in Rows(order)} : u[2] < n
    BY <2>2
  <2> QED
    BY <1>22, <1>23, <2>1, <2>3 DEF DeleteReindex
<1>24. ASSUME Reorder(c) PROVE DriftInv'
  <2>1. PICK S \in SUBSET Rows(order), f \in [Rows(order) -> Indexes] :
          Compact(f) /\ Send(c, "reorder", {<<l, f[l]>> : l \in S})
    BY <1>24 DEF Reorder
  <2>2. \A l \in S : f[l] < n
    <3>1. PICK m \in Nat : m = Count(order) /\ m <= n
      BY <1>3, FiniteRows
    <3>2. Rows(f) = Rows(order)
      BY DEF Rows
    <3>3. \A l \in Rows(order) : f[l] \in 0..m-1
      BY <2>1, <3>1, <3>2 DEF Compact, IsCompact, Count
    <3> QED
      BY <3>1, <3>3
  <2>3. \A u \in {<<l, f[l]>> : l \in S} : u[2] < n
    BY <2>2
  <2> QED
    BY <1>22, <1>24, <2>1, <2>3 DEF Reorder
<1>25. ASSUME NEW op \in Moves, MoveFind(c, op) PROVE DriftInv'
  <2>1. PICK l \in Rows(order) :
          Become(c, [Idle EXCEPT !.step = op, !.op = op, !.layer = l, !.at = order[l]])
    BY <1>25 DEF MoveFind
  <2>2. Bounded([Idle EXCEPT !.step = op, !.op = op, !.layer = l, !.at = order[l]], n)
    BY <1>4 DEF Bounded, Idle, Moves
  <2> QED
    BY <1>7, <1>25, <2>1, <2>2 DEF MoveFind
<1>26. ASSUME call[c].step \in Moves
       PROVE  call[c].at < Cardinality(used)
  BY <1>3, <1>9, <1>26 DEF Bounded
<1>27. ASSUME MoveUp(c) PROVE DriftInv'
  <2>1. call[c].at < Cardinality(used)
    BY <1>26, <1>27 DEF MoveUp, Is, Moves
  <2>2. \A k \in Rows(order) : \A u \in Swap(call[c].layer, call[c].at, k, order[k]) : u[2] < n
    BY <1>3, <1>4, <1>9, <2>1, UpdatesBounded
  <2> QED
    BY <1>7, <1>8, <1>22, <1>27, <2>2 DEF MoveUp, Above, Return
<1>28. ASSUME MoveDown(c) PROVE DriftInv'
  <2>1. call[c].at < Cardinality(used)
    BY <1>26, <1>28 DEF MoveDown, Is, Moves
  <2>2. \A k \in Rows(order) : \A u \in Swap(call[c].layer, call[c].at, k, order[k]) : u[2] < n
    BY <1>3, <1>4, <1>9, <2>1, UpdatesBounded
  <2> QED
    BY <1>7, <1>8, <1>22, <1>28, <2>2 DEF MoveDown, Below, Return
<1>29. ASSUME MoveToTop(c) PROVE DriftInv'
  <2>1. call[c].at < Cardinality(used)
    BY <1>26, <1>29 DEF MoveToTop, Is, Moves
  <2>2. \A u \in ToTop(order, call[c].layer, call[c].at) : u[2] < n
    BY <1>3, <1>4, <1>9, <2>1, UpdatesBounded
  <2> QED
    BY <1>22, <1>29, <2>2 DEF MoveToTop
<1>30. ASSUME MoveToBottom(c) PROVE DriftInv'
  <2>1. call[c].at < Cardinality(used)
    BY <1>26, <1>30 DEF MoveToBottom, Is, Moves
  <2>2. \A u \in ToBottom(order, call[c].layer, call[c].at) : u[2] < n
    BY <1>3, <1>4, <1>9, <2>1, UpdatesBounded
  <2> QED
    BY <1>7, <1>8, <1>22, <1>30, <2>2 DEF MoveToBottom, Return
<1>31. ASSUME Write(c) PROVE DriftInv'
  <2>1. PICK u \in call[c].todo :
          /\ order' = Put(order, u)
          /\ IF call[c].todo = {u} THEN Return(c)
             ELSE Become(c, [call[c] EXCEPT !.todo = @ \ {u}])
    BY <1>31 DEF Write
  <2>2. Bounded([call[c] EXCEPT !.todo = @ \ {u}], n)
    BY <1>9 DEF Bounded, Calls
  <2>3. \A k \in Rows(order') : order'[k] < n
    BY <1>4, <1>9, <2>1, PutRows DEF Bounded
  <2>4. used' = used
    BY <1>31 DEF Write
  <2> QED
    BY <1>3, <1>6, <1>8, <2>1, <2>2, <2>3, <2>4 DEF Return
<1>32. ASSUME CallFails(c) PROVE DriftInv'
  BY <1>7, <1>8, <1>32 DEF CallFails, Return
<1> QED
  BY <1>5, <1>10, <1>13, <1>14, <1>15, <1>16, <1>17, <1>18, <1>19, <1>20, <1>21, <1>23, <1>24,
     <1>25, <1>27, <1>28, <1>29, <1>30, <1>31, <1>32

(* However many calls of tidy users overlap, and whichever of their        *)
(* queries fail, no order_index reaches the number of layers ever created. *)
THEOREM IndexesDoNotDrift == Spec => [](tidy => NoDrift)
<1>1. Init => TypeInv /\ DriftInv
  <2> SUFFICES ASSUME Init PROVE TypeInv /\ DriftInv
    OBVIOUS
  <2>1. TypeInv
    BY InitTyped
  <2>2. \A c \in Clients : call[c] = Idle
    BY DEF Init
  <2>3. DriftInv
    BY <2>2 DEF Init, DriftInv, NoDrift, Is, Idle, Moves, Rows
  <2> QED
    BY <2>1, <2>3
<1>2. TypeInv /\ DriftInv /\ [Next]_vars => TypeInv' /\ DriftInv'
  BY TypeSteps, DriftSteps
<1>3. DriftInv => (tidy => NoDrift)
  BY DEF DriftInv
<1> QED
  BY <1>1, <1>2, <1>3, PTL DEF Spec

-----------------------------------------------------------------------------
(* Calls that do not overlap.                                              *)

(* Updates at most one for a row: Apply writes them all.                   *)
LEMMA ApplyReaches ==
    ASSUME NEW f, f \in [Rows(f) -> Nat],
           NEW U \in SUBSET (Rows(f) \X Nat),
           \A u, v \in U : u[1] = v[1] => u[2] = v[2]
    PROVE  /\ Apply(f, U) \in [Rows(f) -> Nat]
           /\ \A u \in U : Apply(f, U)[u[1]] = u[2]
           /\ \A l \in Rows(f) : Apply(f, U)[l] = f[l] \/ \E u \in U : u[1] = l
<1>1. ASSUME NEW l \in Rows(f), NEW u \in U, u[1] = l
      PROVE  Apply(f, U)[l] = u[2] /\ u[2] \in Nat
  <2>1. (CHOOSE v \in U : v[1] = l) \in U /\ (CHOOSE v \in U : v[1] = l)[1] = l
    BY <1>1
  <2>2. (CHOOSE v \in U : v[1] = l)[2] = u[2]
    BY <1>1, <2>1
  <2> QED
    BY <1>1, <2>2 DEF Apply
<1>2. ASSUME NEW l \in Rows(f), ~\E u \in U : u[1] = l
      PROVE  Apply(f, U)[l] = f[l]
  BY <1>2 DEF Apply
<1>3. \A l \in Rows(f) : Apply(f, U)[l] \in Nat
  BY <1>1, <1>2
<1>4. Apply(f, U) \in [Rows(f) -> Nat]
  <2>1. Apply(f, U) = [l \in Rows(f) |-> Apply(f, U)[l]]
    BY DEF Apply
  <2> QED
    BY <1>3, <2>1
<1> QED
  BY <1>1, <1>2, <1>4

(* What one update leaves to the others of its call.                       *)
LEMMA WriteReaches ==
    ASSUME TypeInv, NEW c \in Clients, NEW g, Target(c, g),
           NEW u \in call[c].todo, order' = Put(order, u)
    PROVE  /\ Rows(order') = Rows(order) /\ g \in [Rows(order) -> Nat]
           /\ \A l \in Rows(order) :
                order'[l] = g[l] \/ \E v \in call[c].todo \ {u} : v[1] = l
           /\ call[c].todo = {u} => order' = g
<1>1. Rows(order') = Rows(order)
      /\ \A l \in Rows(order) : order'[l] = IF l = u[1] THEN u[2] ELSE order[l]
  BY PutRows
<1>2. g \in [Rows(order) -> Nat]
  BY DEF Target
<1>3. ASSUME NEW l \in Rows(order)
      PROVE  order'[l] = g[l] \/ \E v \in call[c].todo \ {u} : v[1] = l
  BY <1>1 DEF Target
<1>4. ASSUME call[c].todo = {u} PROVE order' = g
  <2>1. \A l \in Rows(order) : order'[l] = g[l]
    BY <1>3, <1>4
  <2>2. order' = [l \in Rows(order) |-> order'[l]]
    BY DEF Put
  <2> QED
    BY <1>2, <2>1, <2>2
<1> QED
  BY <1>1, <1>2, <1>3, <1>4

(* The next state of the acting call and of the others.                    *)
LEMMA NextCall ==
    ASSUME TypeInv, NEW c \in Clients, NEW x, Become(c, x)
    PROVE  call'[c] = x /\ \A d \in Clients \ {c} : call'[d] = call[d]
  BY DEF TypeInv, Become

(* Each update of a renumbering, of a move or of a permutation is of       *)
(* another row.                                                            *)
LEMMA UpdatesDiffer ==
    ASSUME NEW R, NEW g, NEW U, U = {<<k, g[k]>> : k \in R}
    PROVE  \A u, v \in U : u[1] = v[1] => u[2] = v[2]
  OBVIOUS

(* Every step keeps what AloneInv says, when neither before nor after it   *)
(* two calls are in flight.                                                *)
LEMMA AloneSteps ==
    ASSUME AloneInv, TypeInv', Alone, Alone', [Next]_vars
    PROVE  AloneInv'
<1> DEFINE Tidy0 == tidy /\ faults = 0
<1>0. TypeInv /\ TidyInv /\ \A c \in Clients : CallInv(c)
  BY DEF AloneInv
<1>1. CASE UNCHANGED vars
  BY <1>0, <1>1 DEF vars, AloneInv, TidyInv, CallInv, Target, Worthy, Is, Rows, Renumbering
<1> SUFFICES ASSUME Next PROVE AloneInv'
  BY <1>1
<1>2. PICK c \in Clients :
        \/ AddCheck(c) \/ AddReadMax(c) \/ AddWithIndex(c)
        \/ DuplicateFind(c) \/ DuplicateReadMax(c) \/ Insert(c)
        \/ UpdateCheck(c) \/ UpdateWrite(c)
        \/ DeleteCheck(c) \/ DeleteRow(c) \/ DeleteReindex(c)
        \/ Reorder(c) \/ (\E op \in Moves : MoveFind(c, op))
        \/ MoveUp(c) \/ MoveDown(c) \/ MoveToTop(c) \/ MoveToBottom(c)
        \/ Write(c) \/ CallFails(c)
  BY DEF Next
<1>3. tidy' = tidy /\ (faults' = 0 => faults = 0 /\ ~CallFails(c))
  <2>1. faults \in Nat
    BY <1>0, LayersAssumption DEF TypeInv, TypeOK
  <2>2. CASE CallFails(c)
    BY <2>1, <2>2 DEF CallFails
  <2> QED
    BY <1>2, <2>2 DEF AddCheck, AddReadMax, AddWithIndex, DuplicateFind, DuplicateReadMax, Insert,
       UpdateCheck, UpdateWrite, DeleteCheck, DeleteRow, DeleteReindex, Reorder, MoveFind, MoveUp,
       MoveDown, MoveToTop, MoveToBottom, Write
<1>4. /\ IsFiniteSet(Rows(order)) /\ Count(order) \in Nat
      /\ order \in [Rows(order) -> Nat]
      /\ call[c] \in Calls /\ call[c].at \in Nat /\ call[c].todo \in SUBSET (Layers \X Nat)
  BY <1>0, FiniteRows DEF TypeInv, TypeOK, Calls
(* Another call is idle when the acting one is busy before or after.       *)
<1>5. ASSUME NEW x, Become(c, x), ~Is(c, "idle") \/ x.step # "idle"
      PROVE  \A d \in Clients \ {c} : Is(d, "idle") /\ call'[d] = call[d]
  <2>1. call'[c] = x /\ \A d \in Clients \ {c} : call'[d] = call[d]
    BY <1>0, <1>5, NextCall
  <2> QED
    BY <1>5, <2>1 DEF Alone, Is
(* It is enough to look at the acting call and at the rows.                *)
<1>6. ASSUME NEW x, Become(c, x), CallInv(c)', TidyInv',
             order' = order \/ ~Is(c, "idle")
      PROVE  AloneInv'
  <2>1. \A d \in Clients \ {c} : call'[d] = call[d]
    BY <1>0, <1>6, NextCall
  <2>2. ASSUME NEW d \in Clients \ {c} PROVE CallInv(d)'
    <3>1. CASE order' = order
      BY <1>0, <1>3, <2>1, <3>1 DEF CallInv, Target, Worthy, Is, Rows
    <3>2. CASE ~Is(c, "idle")
      BY <1>5, <1>6, <3>2 DEF CallInv, Is, Moves
    <3> QED
      BY <1>6, <3>1, <3>2
  <2> QED
    BY <1>6, <2>2 DEF AloneInv
(* A call that does not write yet finds the rows tidy.                     *)
<1>7. ASSUME NEW x, Become(c, x), ~Renumbering(c), ~Is(c, "idle") \/ x.step # "idle", Tidy0
      PROVE  Compact(order)
  BY <1>0, <1>5, <1>7 DEF TidyInv, Renumbering, Is
<1>8. ASSUME NEW x, Become(c, x), order' = order, ~Renumbering(c), CallInv(c)'
      PROVE  AloneInv'
  <2>1. \A d \in Clients \ {c} : call'[d] = call[d]
    BY <1>0, <1>8, NextCall
  <2>2. TidyInv'
    BY <1>0, <1>3, <1>8, <2>1 DEF TidyInv, Renumbering
  <2> QED
    BY <1>6, <1>8, <2>2
<1>9. ASSUME Return(c) PROVE CallInv(c)'
  <2>1. call'[c] = Idle
    BY <1>0, <1>9, NextCall DEF Return
  <2> QED
    BY <2>1 DEF CallInv, Is, Idle, Moves
<1>10. ASSUME Return(c), order' = order, ~Renumbering(c) PROVE AloneInv'
  BY <1>8, <1>9, <1>10 DEF Return
(* Sending updates whose outcome is worthy.                                *)
<1>11. ASSUME NEW op, NEW U \in SUBSET (Rows(order) \X Nat), Send(c, op, U), order' = order,
              \A u, v \in U : u[1] = v[1] => u[2] = v[2],
              op = "reindex" \/ Tidy0 => Compact(Apply(order, U)),
              op = "top" =>
                 /\ call[c].layer \in Rows(order)
                 /\ \A k \in Rows(order) \ {call[c].layer} :
                       Apply(order, U)[call[c].layer] < Apply(order, U)[k],
              Is(c, "reindex") => op = "reindex", ~Is(c, "write")
       PROVE  AloneInv'
  <2>0. PICK g \in [Rows(order) -> Nat] : g = Apply(order, U)
    BY <1>4, <1>11, ApplyReaches
  <2>1. /\ \A u \in U : u[1] \in Rows(order) /\ u[2] = g[u[1]]
        /\ \A l \in Rows(order) : order[l] = g[l] \/ \E u \in U : u[1] = l
    BY <1>4, <1>11, <2>0, ApplyReaches
  <2>2. CASE U = {}
    <3>1. order = g
      BY <1>4, <2>1, <2>2
    <3>2. Return(c)
      BY <1>11, <2>2 DEF Send
    <3>3. TidyInv'
      <4>1. CASE Is(c, "reindex")
        <5>1. Compact(order')
          BY <1>11, <2>0, <3>1, <4>1
        <5> QED
          BY <5>1 DEF TidyInv
      <4>2. CASE ~Is(c, "reindex")
        BY <1>10, <1>11, <3>2, <4>2 DEF Renumbering, Is, AloneInv
      <4> QED
        BY <4>1, <4>2
    <3> QED
      BY <1>6, <1>9, <1>11, <3>2, <3>3 DEF Return
  <2>3. CASE U # {}
    <3> DEFINE x == [call[c] EXCEPT !.step = "write", !.op = op, !.todo = U]
    <3>1. Become(c, x)
      BY <1>11, <2>3 DEF Send
    <3>2. x.step = "write" /\ x.op = op /\ x.todo = U /\ x.layer = call[c].layer
      BY <1>4 DEF Calls
    <3> HIDE DEF x
    <3>3. call'[c] = x
      BY <1>0, <3>1, NextCall
    <3>4. Target(c, g)'
      BY <1>11, <2>1, <3>2, <3>3 DEF Target, Rows
    <3>5. Worthy(c, g)'
      BY <1>3, <1>11, <2>0, <3>2, <3>3 DEF Worthy, Rows
    <3>6. CallInv(c)'
      BY <1>11, <2>1, <3>2, <3>3, <3>4, <3>5 DEF CallInv, Is, Moves
    <3>7. TidyInv'
      BY <3>2, <3>3 DEF TidyInv, Renumbering
    <3> QED
      BY <1>6, <1>11, <3>1, <3>6, <3>7
  <2> QED
    BY <2>2, <2>3
<1>12. ASSUME AddCheck(c) PROVE AloneInv'
  <2> DEFINE x == [Idle EXCEPT !.step = "add", !.op = "add"]
  <2>1. x.step = "add"
    BY DEF Idle
  <2>2. Become(c, x) /\ order' = order /\ ~Renumbering(c)
    BY <1>12 DEF AddCheck, Renumbering, Is
  <2> HIDE DEF x
  <2>3. CallInv(c)'
    BY <1>0, <2>1, <2>2, NextCall DEF CallInv, Is, Moves
  <2> QED
    BY <1>8, <2>2, <2>3
(* An index behind all others, for a row to insert.                        *)
<1>13. ASSUME NEW i, Become(c, [call[c] EXCEPT !.step = "insert", !.at = i]),
              order' = order, ~Renumbering(c), Tidy0 => i = Count(order)
       PROVE  AloneInv'
  <2> DEFINE x == [call[c] EXCEPT !.step = "insert", !.at = i]
  <2>1. x.step = "insert" /\ x.at = i
    BY <1>4 DEF Calls
  <2> HIDE DEF x
  <2>2. call'[c] = x
    BY <1>0, <1>13, NextCall DEF x
  <2>3. CallInv(c)'
    BY <1>3, <1>13, <2>1, <2>2 DEF CallInv, Is, Moves, Rows, Count
  <2> QED
    BY <1>8, <1>13, <2>3
<1>14. ASSUME Compact(order), Rows(order) # {} PROVE NextIndex(order) = Count(order)
  BY <1>0, <1>4, <1>14, CompactFor, FiniteRows, NextIndexOfCompact
<1>15. ASSUME AddReadMax(c) PROVE AloneInv'
  <2> DEFINE x == [call[c] EXCEPT !.step = "insert", !.at = NextIndex(order)]
  <2>1. Become(c, x) /\ order' = order /\ ~Renumbering(c) /\ ~Is(c, "idle")
        /\ (tidy => Rows(order) # {})
    BY <1>15 DEF AddReadMax, Renumbering, Is
  <2>2. Tidy0 => NextIndex(order) = Count(order)
    BY <1>7, <1>14, <2>1
  <2> QED
    BY <1>13, <2>1, <2>2
<1>16. ASSUME AddWithIndex(c) PROVE AloneInv'
  <2>1. PICK i \in IF tidy THEN {Count(order)} ELSE Indexes :
          Become(c, [call[c] EXCEPT !.step = "insert", !.at = i])
    BY <1>16 DEF AddWithIndex
  <2>2. order' = order /\ ~Renumbering(c)
    BY <1>16 DEF AddWithIndex, Renumbering, Is
  <2> QED
    BY <1>13, <2>1, <2>2
<1>17. ASSUME DuplicateFind(c) PROVE AloneInv'
  <2> DEFINE x == [Idle EXCEPT !.step = "duplicate", !.op = "duplicate"]
  <2>1. x.step = "duplicate"
    BY DEF Idle
  <2>2. Become(c, x) /\ order' = order /\ ~Renumbering(c) /\ Rows(order) # {}
    BY <1>17 DEF DuplicateFind, Renumbering, Is
  <2> HIDE DEF x
  <2>3. CallInv(c)'
    BY <1>0, <2>1, <2>2, NextCall DEF CallInv, Is, Moves, Rows
  <2> QED
    BY <1>8, <2>2, <2>3
<1>18. ASSUME DuplicateReadMax(c) PROVE AloneInv'
  <2> DEFINE x == [call[c] EXCEPT !.step = "insert", !.at = NextIndex(order)]
  <2>1. Become(c, x) /\ order' = order /\ ~Renumbering(c) /\ ~Is(c, "idle")
    BY <1>18 DEF DuplicateReadMax, Renumbering, Is
  <2>2. Rows(order) # {}
    BY <1>0, <1>18 DEF DuplicateReadMax, CallInv
  <2>3. Tidy0 => NextIndex(order) = Count(order)
    BY <1>7, <1>14, <2>1, <2>2
  <2> QED
    BY <1>13, <2>1, <2>3
<1>19. ASSUME Insert(c) PROVE AloneInv'
  <2>1. PICK l \in Layers \ used :
          order' = [k \in Rows(order) \cup {l} |-> IF k = l THEN call[c].at ELSE order[k]]
    BY <1>19 DEF Insert
  <2>2. Return(c) /\ ~Renumbering(c) /\ ~Is(c, "idle")
    BY <1>19 DEF Insert, Renumbering, Is
  <2>3. l \notin Rows(order)
    BY <1>0 DEF TypeInv, TypeOK
  <2>4. ASSUME Tidy0 PROVE Compact(order')
    <3>1. PICK n \in Nat : n = Count(order)
      BY <1>4
    <3>2. call[c].at = n
      BY <1>0, <1>19, <2>4, <3>1 DEF CallInv, Insert
    <3>3. IsCompact(order, n)
      BY <1>7, <2>2, <2>4, <3>1 DEF Return, Compact
    <3>4. order' = [k \in Rows(order) \cup {l} |-> IF k = l THEN n ELSE order[k]]
      BY <2>1, <3>2
    <3>5. IsCompact(order', n + 1)
      BY <2>3, <3>3, <3>4, AppendKeepsCompact
    <3>6. Rows(order') = Rows(order) \cup {l}
      BY <2>1 DEF Rows
    <3>7. IsFiniteSet(Rows(order'))
      BY <1>4, <3>6, FS_AddElement
    <3> QED
      BY <3>5, <3>7, CompactFor
  <2>5. TidyInv'
    BY <1>3, <2>4 DEF TidyInv
  <2> QED
    BY <1>6, <1>9, <2>2, <2>5 DEF Return
<1>20. ASSUME UpdateCheck(c) PROVE AloneInv'
  <2>1. PICK l \in Rows(order) \ locked : Become(c, [Idle EXCEPT !.step = "update", !.layer = l])
    BY <1>20 DEF UpdateCheck
  <2> DEFINE x == [Idle EXCEPT !.step = "update", !.layer = l]
  <2>2. x.step = "update"
    BY DEF Idle
  <2>3. order' = order /\ ~Renumbering(c)
    BY <1>20 DEF UpdateCheck, Renumbering, Is
  <2>4. CallInv(c)'
    <3>1. call'[c] = x
      BY <1>0, <2>1, NextCall
    <3> HIDE DEF x
    <3> QED
      BY <2>2, <3>1 DEF CallInv, Is, Moves
  <2> QED
    BY <1>8, <2>1, <2>3, <2>4
<1>21. ASSUME UpdateWrite(c) PROVE AloneInv'
  BY <1>10, <1>21 DEF UpdateWrite, Renumbering, Is
<1>22. ASSUME DeleteCheck(c) PROVE AloneInv'
  <2>1. PICK l \in Rows(order) \ locked : Become(c, [Idle EXCEPT !.step = "delete", !.layer = l])
    BY <1>22 DEF DeleteCheck
  <2> DEFINE x == [Idle EXCEPT !.step = "delete", !.layer = l]
  <2>2. x.step = "delete"
    BY DEF Idle
  <2>3. order' = order /\ ~Renumbering(c)
    BY <1>22 DEF DeleteCheck, Renumbering, Is
  <2>4. CallInv(c)'
    <3>1. call'[c] = x
      BY <1>0, <2>1, NextCall
    <3> HIDE DEF x
    <3> QED
      BY <2>2, <3>1 DEF CallInv, Is, Moves
  <2> QED
    BY <1>8, <2>1, <2>3, <2>4
<1>23. ASSUME DeleteRow(c) PROVE AloneInv'
  <2>1. ~Is(c, "idle") /\ ~Renumbering(c)
    BY <1>23 DEF DeleteRow, Is, Renumbering
  <2>2. CASE call[c].layer \in Rows(order)
    <3> DEFINE x == [call[c] EXCEPT !.step = "reindex"]
    <3>1. Become(c, x)
      BY <1>23, <2>2 DEF DeleteRow
    <3>2. x.step = "reindex"
      BY <1>4 DEF Calls
    <3> HIDE DEF x
    <3>3. call'[c] = x
      BY <1>0, <3>1, NextCall
    <3>4. CallInv(c)' /\ TidyInv'
      BY <3>2, <3>3 DEF CallInv, TidyInv, Renumbering, Is, Moves
    <3> QED
      BY <1>6, <2>1, <3>1, <3>4
  <2>3. CASE call[c].layer \notin Rows(order)
    BY <1>10, <1>23, <2>1, <2>3 DEF DeleteRow
  <2> QED
    BY <2>2, <2>3
<1>24. ASSUME DeleteReindex(c) PROVE AloneInv'
  <2>1. PICK g \in Reindexings(order) : Send(c, "reindex", {<<k, g[k]>> : k \in Rows(order)})
    BY <1>24 DEF DeleteReindex, Reindex
  <2> DEFINE U == {<<k, g[k]>> : k \in Rows(order)}
  <2>2. Compact(g) /\ Rows(g) = Rows(order)
    BY <1>4, ReindexIsCompact
  <2>3. Apply(order, U) = g
    <3>1. Apply(order, U) = [k \in Rows(order) |-> g[k]]
      BY ApplyAll
    <3>2. g = [k \in Rows(order) |-> g[k]]
      BY DEF Reindexings
    <3> QED
      BY <3>1, <3>2
  <2>4. U \in SUBSET (Rows(order) \X Nat) /\ \A u, v \in U : u[1] = v[1] => u[2] = v[2]
    <3>1. \A k \in Rows(order) : g[k] \in Nat
      BY <1>4 DEF Reindexings
    <3> QED
      BY <3>1
  <2>5. order' = order /\ Is(c, "reindex")
    BY <1>24 DEF DeleteReindex
  <2> HIDE DEF U
  <2>6. Send(c, "reindex", U)
    BY <2>1 DEF U
  <2> QED
    BY <1>11, <2>2, <2>3, <2>4, <2>5, <2>6 DEF Is
<1>25. ASSUME Reorder(c) PROVE AloneInv'
  <2>1. PICK S \in SUBSET Rows(order), f \in [Rows(order) -> Indexes] :
          (tidy => S = Rows(order) /\ Compact(f)) /\ Send(c, "reorder", {<<l, f[l]>> : l \in S})
    BY <1>25 DEF Reorder
  <2> DEFINE U == {<<l, f[l]>> : l \in S}
  <2>2. U \in SUBSET (Rows(order) \X Nat)
    <3>1. \A l \in S : f[l] \in Nat /\ l \in Rows(order)
      BY LayersAssumption
    <3> QED
      BY <3>1
  <2>3. \A u, v \in U : u[1] = v[1] => u[2] = v[2]
    BY UpdatesDiffer
  <2>4. ASSUME tidy PROVE Compact(Apply(order, U))
    <3>1. Apply(order, U) = [k \in Rows(order) |-> f[k]]
      BY <2>1, <2>4, ApplyAll
    <3>2. f = [k \in Rows(order) |-> f[k]]
      OBVIOUS
    <3> QED
      BY <2>1, <2>4, <3>1, <3>2
  <2>5. order' = order /\ Is(c, "idle")
    BY <1>25 DEF Reorder
  <2> HIDE DEF U
  <2>6. Send(c, "reorder", U)
    BY <2>1 DEF U
  <2> QED
    BY <1>11, <2>2, <2>3, <2>4, <2>5, <2>6 DEF Is
<1>26. ASSUME NEW op \in Moves, MoveFind(c, op) PROVE AloneInv'
  <2>1. PICK l \in Rows(order) :
          /\ op \in {"up", "top"} => order[l] # 0
          /\ Become(c, [Idle EXCEPT !.step = op, !.op = op, !.layer = l, !.at = order[l]])
    BY <1>26 DEF MoveFind
  <2> DEFINE x == [Idle EXCEPT !.step = op, !.op = op, !.layer = l, !.at = order[l]]
  <2>2. x.step = op /\ x.layer = l /\ x.at = order[l]
    BY DEF Idle
  <2>3. order' = order /\ ~Renumbering(c)
    BY <1>26 DEF MoveFind, Renumbering, Is
  <2>4. CallInv(c)'
    <3>1. call'[c] = x
      BY <1>0, <2>1, NextCall
    <3> HIDE DEF x
    <3> QED
      BY <2>1, <2>2, <2>3, <3>1 DEF CallInv, Is, Moves, Rows
  <2> QED
    BY <1>8, <2>1, <2>3, <2>4
(* The second half of a move.                                              *)
<1>27. ASSUME call[c].step \in Moves
       PROVE  /\ call[c].layer \in Rows(order) /\ call[c].at = order[call[c].layer]
              /\ ~Renumbering(c) /\ ~Is(c, "idle") /\ ~Is(c, "write") /\ ~Is(c, "reindex")
  BY <1>0, <1>27 DEF CallInv, Renumbering, Is, Moves
<1>28. ASSUME NEW op \in {"up", "down"}, NEW k \in Rows(order), call[c].step \in Moves,
              order[k] # order[call[c].layer],
              Send(c, op, Swap(call[c].layer, call[c].at, k, order[k])), order' = order
       PROVE  AloneInv'
  <2> DEFINE l == call[c].layer  U == Swap(l, order[l], k, order[k])
  <2>1. l \in Rows(order) /\ k # l /\ Send(c, op, U)
    BY <1>27, <1>28
  <2>2. U \in SUBSET (Rows(order) \X Nat) /\ \A u, v \in U : u[1] = v[1] => u[2] = v[2]
    BY <1>4, <2>1 DEF Swap
  <2>3. \E x : Become(c, x)
    BY <2>1 DEF Send, Return
  <2>4. ASSUME Tidy0 PROVE Compact(Apply(order, U))
    <3>1. IsCompact(order, Count(order))
      BY <1>7, <1>27, <1>28, <2>3, <2>4 DEF Compact
    <3>2. IsCompact(Apply(order, U), Count(order)) /\ Rows(Apply(order, U)) = Rows(order)
      BY <1>4, <2>1, <3>1, SwapKeepsCompact
    <3> QED
      BY <1>4, <3>2, CompactFor
  <2> HIDE DEF U
  <2> QED
    BY <1>11, <1>27, <1>28, <2>1, <2>2, <2>4
<1>29. ASSUME MoveUp(c) PROVE AloneInv'
  <2>1. call[c].step \in Moves /\ order' = order
    BY <1>29 DEF MoveUp, Is, Moves
  <2>2. ASSUME NEW k \in Above(order, call[c].at),
               Send(c, "up", Swap(call[c].layer, call[c].at, k, order[k]))
        PROVE  AloneInv'
    <3>1. k \in Rows(order) /\ order[k] # order[call[c].layer]
      BY <1>4, <1>27, <2>1 DEF Above
    <3> QED
      BY <1>28, <2>1, <2>2, <3>1
  <2> QED
    BY <1>10, <1>27, <1>29, <2>1, <2>2 DEF MoveUp
<1>30. ASSUME MoveDown(c) PROVE AloneInv'
  <2>1. call[c].step \in Moves /\ order' = order
    BY <1>30 DEF MoveDown, Is, Moves
  <2>2. ASSUME NEW k \in Below(order, call[c].at),
               Send(c, "down", Swap(call[c].layer, call[c].at, k, order[k]))
        PROVE  AloneInv'
    <3>1. k \in Rows(order) /\ order[k] # order[call[c].layer]
      BY <1>4, <1>27, <2>1 DEF Below
    <3> QED
      BY <1>28, <2>1, <2>2, <3>1
  <2> QED
    BY <1>10, <1>27, <1>30, <2>1, <2>2 DEF MoveDown
<1>31. ASSUME MoveToTop(c) PROVE AloneInv'
  <2> DEFINE l == call[c].layer  U == ToTop(order, l, order[l])
             h == [k \in Rows(order) |->
                     IF k = l THEN 0 ELSE IF order[k] < order[l] THEN order[k] + 1 ELSE order[k]]
  <2>1. call[c].step \in Moves /\ order' = order /\ Is(c, "top")
    BY <1>31 DEF MoveToTop, Is, Moves
  <2>2. l \in Rows(order) /\ order[l] # 0 /\ Send(c, "top", U)
    BY <1>0, <1>27, <1>31, <2>1 DEF MoveToTop, CallInv
  <2>3. \A k \in Rows(order) : h[k] \in Nat
    BY <1>4
  <2>4. U = {<<k, h[k]>> : k \in Rows(order)}
    BY DEF ToTop
  <2>5. h[l] = 0 /\ \A k \in Rows(order) \ {l} : h[k] > 0
    BY <1>4, <2>2
  <2>6. h = [k \in Rows(order) |-> h[k]]
    OBVIOUS
  <2> HIDE DEF h
  <2>7. Apply(order, U) = h
    BY <2>4, <2>6, ApplyAll
  <2>8. U \in SUBSET (Rows(order) \X Nat) /\ \A u, v \in U : u[1] = v[1] => u[2] = v[2]
    BY <2>3, <2>4
  <2>9. ASSUME Tidy0 PROVE Compact(Apply(order, U))
    <3>1. \E x : Become(c, x)
      BY <2>2 DEF Send, Return
    <3>2. IsCompact(order, Count(order))
      BY <1>7, <1>27, <2>1, <2>9, <3>1 DEF Compact
    <3>3. IsCompact(Apply(order, U), Count(order)) /\ Rows(Apply(order, U)) = Rows(order)
      BY <1>4, <2>2, <3>2, ToTopKeepsCompact
    <3> QED
      BY <1>4, <3>3, CompactFor
  <2> HIDE DEF U
  <2> QED
    BY <1>11, <1>27, <2>1, <2>2, <2>5, <2>7, <2>8, <2>9
<1>32. ASSUME MoveToBottom(c) PROVE AloneInv'
  <2>1. call[c].step \in Moves /\ order' = order
    BY <1>32 DEF MoveToBottom, Is, Moves
  <2>2. CASE IsLast(c)
    BY <1>10, <1>27, <1>32, <2>1, <2>2 DEF MoveToBottom
  <2>3. CASE ~IsLast(c)
    <3> DEFINE l == call[c].layer  U == ToBottom(order, l, order[l])
    <3>1. l \in Rows(order) /\ Send(c, "bottom", U)
      BY <1>27, <1>32, <2>1, <2>3 DEF MoveToBottom
    <3>2. U \in SUBSET (Rows(order) \X Nat)
      BY <1>0, <1>4, <3>1, UpdatesTyped DEF TypeInv, TypeOK
    <3>3. \A u, v \in U : u[1] = v[1] => u[2] = v[2]
      BY DEF ToBottom
    <3>4. ASSUME Tidy0 PROVE Compact(Apply(order, U))
      <4>1. \E x : Become(c, x)
        BY <3>1 DEF Send, Return
      <4>2. IsCompact(order, Count(order))
        BY <1>7, <1>27, <2>1, <3>4, <4>1 DEF Compact
      <4>3. IsCompact(Apply(order, U), Count(order)) /\ Rows(Apply(order, U)) = Rows(order)
        BY <1>4, <3>1, <4>2, ToBottomKeepsCompact
      <4> QED
        BY <1>4, <4>3, CompactFor
    <3> HIDE DEF U
    <3> QED
      BY <1>11, <1>27, <2>1, <3>1, <3>2, <3>3, <3>4
  <2> QED
    BY <2>2, <2>3
<1>33. ASSUME Write(c) PROVE AloneInv'
  <2>1. PICK u \in call[c].todo :
          /\ order' = Put(order, u)
          /\ IF call[c].todo = {u} THEN Return(c)
             ELSE Become(c, [call[c] EXCEPT !.todo = @ \ {u}])
    BY <1>33 DEF Write
  <2>2. Is(c, "write") /\ ~Is(c, "idle")
    BY <1>33 DEF Write, Is
  <2>3. PICK g \in [Rows(order) -> Nat] : Target(c, g) /\ Worthy(c, g)
    BY <1>0, <2>2 DEF CallInv
  <2>4. /\ Rows(order') = Rows(order)
        /\ \A l \in Rows(order) :
             order'[l] = g[l] \/ \E v \in call[c].todo \ {u} : v[1] = l
        /\ call[c].todo = {u} => order' = g
    BY <1>0, <2>1, <2>3, WriteReaches
  <2>5. CASE call[c].todo = {u}
    <3>1. Return(c) /\ order' = g
      BY <2>1, <2>4, <2>5
    <3>2. TidyInv'
      BY <1>3, <2>3, <3>1 DEF TidyInv, Worthy
    <3> QED
      BY <1>6, <1>9, <2>2, <3>1, <3>2 DEF Return
  <2>6. CASE call[c].todo # {u}
    <3> DEFINE x == [call[c] EXCEPT !.todo = @ \ {u}]
    <3>1. Become(c, x)
      BY <2>1, <2>6
    <3>2. x.step = "write" /\ x.op = call[c].op /\ x.todo = call[c].todo \ {u}
          /\ x.layer = call[c].layer
      BY <1>4, <2>2 DEF Calls, Is
    <3> HIDE DEF x
    <3>3. call'[c] = x
      BY <1>0, <3>1, NextCall
    <3>4. Target(c, g)'
      BY <2>3, <2>4, <3>2, <3>3 DEF Target
    <3>5. Worthy(c, g)'
      BY <1>3, <2>3, <2>4, <3>2, <3>3 DEF Worthy
    <3>6. CallInv(c)'
      BY <2>4, <3>2, <3>3, <3>4, <3>5 DEF CallInv, Is, Moves
    <3>7. TidyInv'
      BY <3>2, <3>3 DEF TidyInv, Renumbering
    <3> QED
      BY <1>6, <2>2, <3>1, <3>6, <3>7
  <2> QED
    BY <2>5, <2>6
<1>34. ASSUME CallFails(c) PROVE AloneInv'
  <2>1. TidyInv'
    BY <1>3, <1>34 DEF TidyInv
  <2> QED
    BY <1>6, <1>9, <1>34, <2>1 DEF CallFails, Return
<1> QED
  BY <1>2, <1>12, <1>15, <1>16, <1>17, <1>18, <1>19, <1>20, <1>21, <1>22, <1>23, <1>24, <1>25,
     <1>26, <1>29, <1>30, <1>31, <1>32, <1>33, <1>34

(* What the last write of a call leaves, when calls do not overlap.        *)
LEMMA LastWrite ==
    ASSUME AloneInv, [Next]_vars, NEW c \in Clients, NEW op, Finished(c, op)
    PROVE  Worthy(c, order')
<1>1. TypeInv /\ CallInv(c) /\ Is(c, "write") /\ call[c].op = op
  BY DEF AloneInv, Finished
<1>2. \A d \in Clients : call'[d].step = "idle"
  BY DEF Finished, Quiet, Is
<1>3. call'[c] # call[c]
  BY <1>1, <1>2 DEF Is
<1>4. Next
  BY <1>3 DEF vars
<1>5. ASSUME NEW d \in Clients, NEW x, Become(d, x) PROVE d = c
  BY <1>1, <1>3, <1>5, NextCall
<1>6. PICK d \in Clients :
        \/ AddCheck(d) \/ AddReadMax(d) \/ AddWithIndex(d)
        \/ DuplicateFind(d) \/ DuplicateReadMax(d) \/ Insert(d)
        \/ UpdateCheck(d) \/ UpdateWrite(d)
        \/ DeleteCheck(d) \/ DeleteRow(d) \/ DeleteReindex(d)
        \/ Reorder(d) \/ (\E o \in Moves : MoveFind(d, o))
        \/ MoveUp(d) \/ MoveDown(d) \/ MoveToTop(d) \/ MoveToBottom(d)
        \/ Write(d) \/ CallFails(d)
  BY <1>4 DEF Next
<1>7. d = c
  <2>1. \E x : Become(d, x)
    BY <1>6 DEF AddCheck, AddReadMax, AddWithIndex, DuplicateFind, DuplicateReadMax, Insert,
       UpdateCheck, UpdateWrite, DeleteCheck, DeleteRow, DeleteReindex, Reorder, MoveFind, MoveUp,
       MoveDown, MoveToTop, MoveToBottom, Write, CallFails, Return, Send
  <2> QED
    BY <1>5, <2>1
<1>8. ~CallFails(c)
  BY <1>1, LayersAssumption DEF CallFails, Finished, TypeInv, TypeOK
<1>9. Write(c)
  BY <1>1, <1>6, <1>7, <1>8 DEF Is, Moves, AddCheck, AddReadMax, AddWithIndex, DuplicateFind,
     DuplicateReadMax, Insert, UpdateCheck, UpdateWrite, DeleteCheck, DeleteRow, DeleteReindex,
     Reorder, MoveFind, MoveUp, MoveDown, MoveToTop, MoveToBottom
<1>10. PICK u \in call[c].todo :
         /\ order' = Put(order, u)
         /\ IF call[c].todo = {u} THEN Return(c)
            ELSE Become(c, [call[c] EXCEPT !.todo = @ \ {u}])
  BY <1>9 DEF Write
<1>11. call[c].todo = {u}
  <2> SUFFICES ASSUME call[c].todo # {u} PROVE FALSE
    OBVIOUS
  <2> DEFINE x == [call[c] EXCEPT !.todo = @ \ {u}]
  <2>1. call[c] \in Calls
    BY <1>1 DEF TypeInv
  <2>2. Become(c, x) /\ x.step = "write"
    BY <1>1, <1>10, <2>1 DEF Calls, Is
  <2> HIDE DEF x
  <2>3. call'[c] = x
    BY <1>1, <2>2, NextCall
  <2> QED
    BY <1>2, <2>2, <2>3
<1>12. PICK g \in [Rows(order) -> Nat] : Target(c, g) /\ Worthy(c, g)
  BY <1>1 DEF CallInv
<1>13. order' = g
  BY <1>1, <1>10, <1>11, <1>12, WriteReaches
<1> QED
  BY <1>12, <1>13

(* AloneInv from the start, as long as calls do not overlap.               *)
LEMMA AloneAlways == Spec /\ []Alone => []AloneInv
<1>1. Init => AloneInv
  <2> SUFFICES ASSUME Init PROVE AloneInv
    OBVIOUS
  <2>1. TypeInv
    BY InitTyped
  <2>2. \A c \in Clients : CallInv(c)
    BY DEF Init, CallInv, Is, Idle, Moves
  <2>3. Compact(order)
    <3>1. Rows(order) = {} /\ order \in [Rows(order) -> 0..0-1]
      BY DEF Init, Rows
    <3>2. IsCompact(order, 0)
      BY <3>1 DEF IsCompact
    <3> QED
      BY <3>1, <3>2, FS_EmptySet, CompactFor
  <2> QED
    BY <2>1, <2>2, <2>3 DEF AloneInv, TidyInv
<1>2. AloneInv /\ Alone /\ Alone' /\ [Next]_vars => AloneInv'
  <2> SUFFICES ASSUME AloneInv, Alone, Alone', [Next]_vars PROVE AloneInv'
    OBVIOUS
  <2>1. TypeInv'
    BY TypeSteps DEF AloneInv
  <2> QED
    BY <2>1, AloneSteps
<1> QED
  BY <1>1, <1>2, PTL DEF Spec

(* A user who numbers the first layer 0 and reorders by permutations keeps *)
(* the layers numbered 0 to n-1 through every sequence of adds, copies,    *)
(* deletions, moves and permutations whose queries all arrive.             *)
THEOREM TidyOrders == Spec /\ []Alone => []TidyStaysCompact
<1>1. AloneInv => TidyStaysCompact
  BY DEF AloneInv, TidyInv, TidyStaysCompact, Quiet, Renumbering, Is
<1> QED
  BY <1>1, AloneAlways, PTL

(* deleteLayer leaves 0 to n-1 behind whatever the indexes were before.    *)
THEOREM DeletionHeals == Spec /\ []Alone => DeleteHeals
<1>1. AloneInv /\ [Next]_vars =>
        [\A c \in Clients : Finished(c, "reindex") => Compact(order)']_vars
  <2> SUFFICES ASSUME AloneInv, [Next]_vars, NEW c \in Clients, Finished(c, "reindex")
               PROVE  Compact(order)'
    OBVIOUS
  <2>1. Worthy(c, order')
    BY LastWrite
  <2>2. Compact(order')
    BY <2>1 DEF Worthy, Finished
  <2> QED
    BY <2>2 DEF Compact, IsCompact, Rows, Count
<1> QED
  BY <1>1, AloneAlways, PTL DEF Spec, DeleteHeals

(* moveLayerToTop makes its layer the first, whatever the indexes were.    *)
THEOREM TopComesFirst == Spec /\ []Alone => TopIsFirst
<1>1. AloneInv /\ [Next]_vars =>
        [\A c \in Clients :
           Finished(c, "top") =>
             \A k \in Rows(order) \ {call[c].layer} : order'[call[c].layer] < order'[k]]_vars
  <2> SUFFICES ASSUME AloneInv, [Next]_vars, NEW c \in Clients, Finished(c, "top")
               PROVE  \A k \in Rows(order) \ {call[c].layer} : order'[call[c].layer] < order'[k]
    OBVIOUS
  <2>1. Worthy(c, order')
    BY LastWrite
  <2> QED
    BY <2>1 DEF Worthy, Finished
<1> QED
  BY <1>1, AloneAlways, PTL DEF Spec, TopIsFirst
=============================================================================
