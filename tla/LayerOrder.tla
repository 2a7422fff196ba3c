----------------------------- MODULE LayerOrder -----------------------------
(***************************************************************************)
(* The arithmetic of layer.service.ts on order indexes.  f is what         *)
(* findByDesignId returned: a function from the rows to their indexes.  An *)
(* operation turns it into updates, pairs of a row and its new index.      *)
(***************************************************************************)
EXTENDS Naturals, FiniteSets

Rows(f) == DOMAIN f
Count(f) == Cardinality(Rows(f))

(* The indexes are 0 to n-1, each once: the order everything here assumes. *)
IsCompact(f, n) ==
    /\ f \in [Rows(f) -> 0..n-1]
    /\ \A i \in 0..n-1 : \E l \in Rows(f) : f[l] = i
    /\ \A k, l \in Rows(f) : f[k] = f[l] => k = l

Compact(f) == IsCompact(f, Count(f))

(* getMaxOrderIndex(designId) + 1; the maximum of no rows is 0 as well.    *)
NextIndex(f) ==
    IF Rows(f) = {} THEN 1
    ELSE 1 + (CHOOSE i \in {f[l] : l \in Rows(f)} : \A l \in Rows(f) : f[l] <= i)

(* Swapping row l, last seen at index `at', with a row at index `to'.      *)
Swap(l, at, k, to) == {<<l, to>>, <<k, at>>}

(* moveLayerUp and moveLayerDown: the rows to choose the neighbour from.   *)
Above(f, at) == {k \in Rows(f) : f[k] + 1 = at}
Below(f, at) == {k \in Rows(f) : f[k] = at + 1}

(* Mutants: the others stay; all others give way; they go the wrong way.   *)
ToTopOnly(f, l, at) == {<<k, IF k = l THEN 0 ELSE f[k]>> : k \in Rows(f)}
ToTopAll(f, l, at) == {<<k, IF k = l THEN 0 ELSE f[k] + 1>> : k \in Rows(f)}
ToTopBackwards(f, l, at) ==
    {<<k, IF k = l THEN 0 ELSE IF f[k] < at THEN f[k] - 1 ELSE f[k]>> : k \in Rows(f)}

(* moveLayerToTop: l to 0, those before it one back.                       *)
ToTop(f, l, at) ==
    {<<k, IF k = l THEN 0 ELSE IF f[k] < at THEN f[k] + 1 ELSE f[k]>> : k \in Rows(f)}

(* moveLayerToBottom: l to the number of rows less one, those behind it    *)
(* one forward.                                                            *)
ToBottom(f, l, at) ==
    {<<k, IF k = l THEN Count(f) - 1 ELSE IF f[k] > at THEN f[k] - 1 ELSE f[k]>> : k \in Rows(f)}

(* deleteLayer numbers the rows left from 0 in the order of their indexes; *)
(* PostgreSQL returns rows of one index in any order.                      *)
Reindexings(f) ==
    {g \in [Rows(f) -> 0..Count(f)-1] :
        \A k, l \in Rows(f) : k # l => g[k] # g[l] /\ (f[k] < f[l] => g[k] < g[l])}

(* Mutant: numbered from 1.                                                *)
ReindexFromOne(f) == {{<<k, g[k] + 1>> : k \in Rows(f)} : g \in Reindexings(f)}

Reindex(f) == {{<<k, g[k]>> : k \in Rows(f)} : g \in Reindexings(f)}

(* One UPDATE: no effect when the row is gone.                             *)
Put(f, update) == [l \in Rows(f) |-> IF l = update[1] THEN update[2] ELSE f[l]]

(* All of a set of updates, at most one for a row.                         *)
Apply(f, updates) ==
    [l \in Rows(f) |-> IF \E u \in updates : u[1] = l
                       THEN (CHOOSE u \in updates : u[1] = l)[2] ELSE f[l]]
=============================================================================
