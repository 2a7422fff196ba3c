------------------------------- MODULE Layers -------------------------------
(***************************************************************************)
(* The layers of one design under the calls of layer.service.ts.  Nothing  *)
(* the service writes is inside the transactions it opens: the             *)
(* repositories use their own connections, so each query is a step of its  *)
(* own, a rollback takes nothing back, and the updates of a reordering,    *)
(* which Promise.all sends together, arrive in any order.                  *)
(***************************************************************************)
EXTENDS LayerOrder

CONSTANTS
    Layers,     \* ids, one for each layer ever created (UUIDs)
    Clients,    \* calls that may be in flight at once
    MaxLayers,  \* limit of the user's tier
    Indexes,    \* order indexes that users pass
    Habits,     \* values of `tidy' to begin with
    MaxFaults   \* bound on queries that fail

ASSUME HabitsAssumption == Habits \subseteq BOOLEAN
ASSUME LayersAssumption ==
    /\ IsFiniteSet(Layers)
    /\ MaxLayers \in Nat
    /\ Indexes \subseteq Nat
    /\ MaxFaults \in Nat

VARIABLES
    order,   \* order_index of the rows there are
    locked,  \* rows with is_locked
    used,    \* ids spent
    call,    \* call[c]: the call c is in
    faults,
    tidy     \* users give the first layer index 0, and reorder by permutations

vars == <<order, locked, used, call, faults, tidy>>

-----------------------------------------------------------------------------
Moves == {"up", "down", "top", "bottom"}
Steps == {"idle", "add", "duplicate", "insert", "update", "delete", "reindex", "write"} \cup Moves

(* step: what the call does next; layer and at: the layer it is about and  *)
(* the index it read, or is going to give; todo: updates not yet arrived.  *)
Idle == [step |-> "idle", op |-> "none", layer |-> "none", at |-> 0, todo |-> {}]

TypeOK ==
    /\ used \subseteq Layers
    /\ Rows(order) \subseteq used
    /\ order \in [Rows(order) -> Nat]
    /\ locked \subseteq Rows(order)
    /\ \A c \in Clients :
         /\ call[c].step \in Steps
         /\ call[c].op \in {"none", "add", "duplicate", "reindex", "reorder"} \cup Moves
         /\ call[c].layer \in Layers \cup {"none"}
         /\ call[c].at \in Nat
         /\ call[c].todo \subseteq Layers \X Nat
    /\ faults \in 0..MaxFaults
    /\ tidy \in BOOLEAN

Init ==
    /\ order = [l \in {} |-> 0]
    /\ locked = {}
    /\ used = {}
    /\ call = [c \in Clients |-> Idle]
    /\ faults = 0
    /\ tidy \in Habits

Is(c, step) == call[c].step = step
Become(c, fields) == call' = [call EXCEPT ![c] = fields]
Return(c) == Become(c, Idle)

-----------------------------------------------------------------------------
(* addLayer.  The limit of the tier is checked against the rows there are. *)
AddCheck(c) ==
    /\ Is(c, "idle")
    /\ Count(order) < MaxLayers
    /\ Become(c, [Idle EXCEPT !.step = "add", !.op = "add"])
    /\ UNCHANGED <<order, locked, used, faults, tidy>>

(* Without an index from the user: SELECT MAX(order_index).                *)
AddReadMax(c) ==
    /\ Is(c, "add")
    /\ tidy => Rows(order) # {}
    /\ Become(c, [call[c] EXCEPT !.step = "insert", !.at = NextIndex(order)])
    /\ UNCHANGED <<order, locked, used, faults, tidy>>

AddWithIndex(c) ==
    /\ Is(c, "add")
    /\ \E i \in IF tidy THEN {Count(order)} ELSE Indexes :
         Become(c, [call[c] EXCEPT !.step = "insert", !.at = i])
    /\ UNCHANGED <<order, locked, used, faults, tidy>>

(* duplicateLayer: no limit is checked.                                    *)
DuplicateFind(c) ==
    /\ Is(c, "idle")
    /\ Rows(order) # {}
    /\ Become(c, [Idle EXCEPT !.step = "duplicate", !.op = "duplicate"])
    /\ UNCHANGED <<order, locked, used, faults, tidy>>

DuplicateReadMax(c) ==
    /\ Is(c, "duplicate")
    /\ Become(c, [call[c] EXCEPT !.step = "insert", !.at = NextIndex(order)])
    /\ UNCHANGED <<order, locked, used, faults, tidy>>

(* INSERT of the new layer; that of addLayer may be locked at once.        *)
Insert(c) ==
    /\ Is(c, "insert")
    /\ \E l \in Layers \ used :
         /\ order' = [k \in Rows(order) \cup {l} |-> IF k = l THEN call[c].at ELSE order[k]]
         /\ used' = used \cup {l}
         /\ locked' \in IF call[c].op = "add" THEN {locked, locked \cup {l}} ELSE {locked}
    /\ Return(c)
    /\ UNCHANGED <<faults, tidy>>

-----------------------------------------------------------------------------
(* updateLayer refuses a layer it reads as locked, then writes.  Nothing   *)
(* it changes matters here but is_locked.                                  *)
UpdateCheck(c) ==
    /\ Is(c, "idle")
    /\ \E l \in Rows(order) \ locked :
         Become(c, [Idle EXCEPT !.step = "update", !.layer = l])
    /\ UNCHANGED <<order, locked, used, faults, tidy>>

UpdateWrite(c) ==
    /\ Is(c, "update")
    /\ LET l == call[c].layer IN
         locked' \in {locked, locked \ {l}, locked \cup ({l} \cap Rows(order))}
    /\ Return(c)
    /\ UNCHANGED <<order, used, faults, tidy>>

(* deleteLayer refuses a layer it reads as locked, deletes the row, reads  *)
(* the others again and renumbers them.                                    *)
DeleteCheck(c) ==
    /\ Is(c, "idle")
    /\ \E l \in Rows(order) \ locked :
         Become(c, [Idle EXCEPT !.step = "delete", !.layer = l])
    /\ UNCHANGED <<order, locked, used, faults, tidy>>

DeleteRow(c) ==
    /\ Is(c, "delete")
    /\ LET l == call[c].layer IN
         \/ /\ l \in Rows(order)
            /\ order' = [k \in Rows(order) \ {l} |-> order[k]]
            /\ locked' = locked \ {l}
            /\ Become(c, [call[c] EXCEPT !.step = "reindex"])
         \/ /\ l \notin Rows(order)
            /\ Return(c)
            /\ UNCHANGED <<order, locked>>
    /\ UNCHANGED <<used, faults, tidy>>

(* The updates of a call leave together; without any it is done.           *)
Send(c, op, updates) ==
    IF updates = {} THEN Return(c)
    ELSE Become(c, [call[c] EXCEPT !.step = "write", !.op = op, !.todo = updates])

DeleteReindex(c) ==
    /\ Is(c, "reindex")
    /\ \E updates \in Reindex(order) : Send(c, "reindex", updates)
    /\ UNCHANGED <<order, locked, used, faults, tidy>>

-----------------------------------------------------------------------------
(* reorderLayers: existing rows, any indexes.                              *)
Reorder(c) ==
    /\ Is(c, "idle")
    /\ \E S \in SUBSET Rows(order), f \in [Rows(order) -> Indexes] :
         /\ tidy => S = Rows(order) /\ Compact(f)
         /\ Send(c, "reorder", {<<l, f[l]>> : l \in S})
    /\ UNCHANGED <<order, locked, used, faults, tidy>>

(* The four moves read the layer first, and all layers next.  Up and top   *)
(* refuse a layer at index 0 after the first read.                         *)
MoveFind(c, op) ==
    /\ Is(c, "idle")
    /\ \E l \in Rows(order) :
         /\ op \in {"up", "top"} => order[l] # 0
         /\ Become(c, [Idle EXCEPT !.step = op, !.op = op, !.layer = l, !.at = order[l]])
    /\ UNCHANGED <<order, locked, used, faults, tidy>>

(* Down and bottom refuse one at the number of layers less one.            *)
IsLast(c) == call[c].at + 1 = Count(order)

MoveUp(c) ==
    /\ Is(c, "up")
    /\ LET at == call[c].at  l == call[c].layer IN
         \/ \E k \in Above(order, at) : Send(c, "up", Swap(l, at, k, order[k]))
         \/ Above(order, at) = {} /\ Return(c)
    /\ UNCHANGED <<order, locked, used, faults, tidy>>

MoveDown(c) ==
    /\ Is(c, "down")
    /\ LET at == call[c].at  l == call[c].layer IN
         \/ ~IsLast(c) /\ \E k \in Below(order, at) : Send(c, "down", Swap(l, at, k, order[k]))
         \/ (IsLast(c) \/ Below(order, at) = {}) /\ Return(c)
    /\ UNCHANGED <<order, locked, used, faults, tidy>>

MoveToTop(c) ==
    /\ Is(c, "top")
    /\ Send(c, "top", ToTop(order, call[c].layer, call[c].at))
    /\ UNCHANGED <<order, locked, used, faults, tidy>>

MoveToBottom(c) ==
    /\ Is(c, "bottom")
    /\ IF IsLast(c) THEN Return(c)
       ELSE Send(c, "bottom", ToBottom(order, call[c].layer, call[c].at))
    /\ UNCHANGED <<order, locked, used, faults, tidy>>

(* One UPDATE of a call arrives.                                           *)
Write(c) ==
    /\ Is(c, "write")
    /\ \E update \in call[c].todo :
         /\ order' = Put(order, update)
         /\ IF call[c].todo = {update} THEN Return(c)
            ELSE Become(c, [call[c] EXCEPT !.todo = @ \ {update}])
    /\ UNCHANGED <<locked, used, faults, tidy>>

(* A query fails, or the process stops: what has not arrived never does.   *)
CallFails(c) ==
    /\ faults < MaxFaults
    /\ ~Is(c, "idle")
    /\ Return(c)
    /\ faults' = faults + 1
    /\ UNCHANGED <<order, locked, used, tidy>>

-----------------------------------------------------------------------------
Next ==
    \E c \in Clients :
        \/ AddCheck(c) \/ AddReadMax(c) \/ AddWithIndex(c)
        \/ DuplicateFind(c) \/ DuplicateReadMax(c) \/ Insert(c)
        \/ UpdateCheck(c) \/ UpdateWrite(c)
        \/ DeleteCheck(c) \/ DeleteRow(c) \/ DeleteReindex(c)
        \/ Reorder(c) \/ \E op \in Moves : MoveFind(c, op)
        \/ MoveUp(c) \/ MoveDown(c) \/ MoveToTop(c) \/ MoveToBottom(c)
        \/ Write(c) \/ CallFails(c)

Spec == Init /\ [][Next]_vars

-----------------------------------------------------------------------------
(* Properties.                                                             *)

Quiet == \A c \in Clients : Is(c, "idle")

(* Call c did `op', alone, and has just finished.                          *)
Finished(c, op) ==
    /\ Is(c, "write") /\ call[c].op = op
    /\ Quiet'
    /\ faults' = 0

(* A design whose layers are numbered from 0 stays numbered 0 to n-1 under *)
(* every sequence of adds, copies, deletions, moves and permutations, as   *)
(* long as calls do not overlap.                                           *)
TidyStaysCompact == Quiet /\ tidy /\ faults = 0 => Compact(order)

(* Whatever the indexes looked like before, a deletion that runs alone     *)
(* leaves them 0 to n-1 (rows of the same index included).                 *)
DeleteHeals ==
    [][\A c \in Clients : Finished(c, "reindex") => Compact(order)']_vars

(* Whatever the indexes looked like before, moveLayerToTop, run alone,     *)
(* makes its layer the first one.                                          *)
TopIsFirst ==
    [][\A c \in Clients :
         Finished(c, "top") =>
            \A k \in Rows(order) \ {call[c].layer} : order'[call[c].layer] < order'[k]]_vars

(* However calls overlap, no index drifts beyond the number of layers ever *)
(* created: stale reads can repeat an index but not run away with it.      *)
NoDrift == \A l \in Rows(order) : order[l] < Cardinality(used)

=============================================================================
