--------------------------- MODULE DesignCreation ----------------------------
(***************************************************************************)
(* Designs come into being: createDesign and forkDesign with the rows they *)
(* insert one query after the other, the limits of the user's tier that    *)
(* are counted first, and the versions.  The transaction each call opens   *)
(* holds none of the queries, for the repositories use their own           *)
(* connections: what a failing call has inserted stays.                    *)
(***************************************************************************)
EXTENDS Integers, FiniteSets

CONSTANTS
    Designs,     \* ids of designs, one for each row ever inserted
    Owners,      \* users who create and fork
    Callers,     \* calls that may be in flight at once
    Limits,      \* Limits[u]: what the tier of u allows; -1 is no limit
    Formats,     \* types of exports
    MaxExported, \* bound on export rows of a user
    MaxFailures  \* bound on queries that fail

VARIABLES
    row,       \* the design rows there are
    canvas,    \* designs with canvas settings
    versions,  \* (design, version number) of the version rows
    layered,   \* designs with layer rows
    exported,  \* exports a user has created today
    caller,    \* the calls in flight
    failures

creationVars == <<row, canvas, versions, layered, exported, caller, failures>>

-----------------------------------------------------------------------------
None == "none"
Quiet == [op |-> "none", step |-> "idle", who |-> None, design |-> None, from |-> None, n |-> 0]
Present == DOMAIN row

(* Version rows: design and number; what they store is left out.           *)
Version == Designs \X (1..2)

TypeOK ==
    /\ Present \subseteq Designs
    /\ \A d \in Present :
         row[d].owner \in Owners /\ row[d].from \in Designs \cup {None} /\ row[d].forks \in Nat
    /\ canvas \subseteq Designs /\ layered \subseteq Designs
    /\ versions \subseteq Version
    /\ exported \in [Owners -> 0..MaxExported]
    /\ \A c \in Callers :
         /\ caller[c].op \in {"none", "create", "fork", "export", "snapshot", "restore", "layer"}
         /\ caller[c].step \in {"idle", "insert", "layers", "canvas", "version", "count",
                                "snapshot", "restore"}
    /\ failures \in 0..MaxFailures

Init ==
    /\ row = [d \in {} |-> Quiet]
    /\ canvas = {} /\ versions = {} /\ layered = {}
    /\ exported = [u \in Owners |-> 0]
    /\ caller = [c \in Callers |-> Quiet]
    /\ failures = 0

On(c, step) == caller[c].step = step
Now(c, step) == caller' = [caller EXCEPT ![c].step = step]
Done(c) == caller' = [caller EXCEPT ![c] = Quiet]
Begin(c, op, step, u) == caller' = [caller EXCEPT ![c] = [Quiet EXCEPT !.op = op, !.step = step, !.who = u]]

(* findByUserId: deletedAt null drops out of the WHERE, so a design that   *)
(* was deleted softly still counts, and no row ever leaves the count.      *)
Owned(u) == {d \in Present : row[d].owner = u}
Within(n, limit) == limit = -1 \/ n < limit

-----------------------------------------------------------------------------
(* Mutant: one design more than the tier allows.                           *)
ValidateOneMore(c) ==
    /\ On(c, "idle")
    /\ \E u \in Owners :
         /\ Cardinality(Owned(u)) <= Limits[u].maxDesigns
         /\ Begin(c, "create", "insert", u)
    /\ UNCHANGED <<row, canvas, versions, layered, exported, failures>>

(* createDesign counts the designs of the user first.                      *)
ValidateDesignCreation(c) ==
    /\ On(c, "idle")
    /\ \E u \in Owners :
         /\ Within(Cardinality(Owned(u)), Limits[u].maxDesigns)
         /\ Begin(c, "create", "insert", u)
    /\ UNCHANGED <<row, canvas, versions, layered, exported, failures>>

(* forkDesign reads a design, of the user or a public one.  Nobody counts. *)
FindOriginal(c) ==
    /\ On(c, "idle")
    /\ \E u \in Owners, d \in Present :
         caller' = [caller EXCEPT ![c] = [Quiet EXCEPT !.op = "fork", !.step = "insert",
                                             !.who = u, !.from = d]]
    /\ UNCHANGED <<row, canvas, versions, layered, exported, failures>>

InsertDesign(c) ==
    /\ On(c, "insert") /\ caller[c].op \in {"create", "fork"}
    /\ \E d \in Designs \ Present :
         /\ row' = [e \in Present \cup {d} |->
                      IF e = d THEN [owner |-> caller[c].who, from |-> caller[c].from, forks |-> 0]
                      ELSE row[e]]
         /\ caller' = [caller EXCEPT ![c].design = d,
                          ![c].step = IF caller[c].from \in layered THEN "layers" ELSE "canvas"]
    /\ UNCHANGED <<canvas, versions, layered, exported, failures>>

(* bulkCreate of the copied layers, unlocked.                              *)
CloneLayers(c) ==
    /\ On(c, "layers")
    /\ layered' = layered \cup {caller[c].design}
    /\ Now(c, "canvas")
    /\ UNCHANGED <<row, canvas, versions, exported, failures>>

(* createDefault, or a copy of the settings of the original.               *)
InsertCanvas(c) ==
    /\ On(c, "canvas")
    /\ canvas' = canvas \cup {caller[c].design}
    /\ Now(c, "version")
    /\ UNCHANGED <<row, versions, layered, exported, failures>>

(* Mutant: the count of forks first, the version later or never.           *)
InsertVersionForgotten(c) ==
    /\ On(c, "version")
    /\ versions' = IF caller[c].op = "fork" THEN versions
                   ELSE versions \cup {<<caller[c].design, 1>>}
    /\ IF caller[c].op = "fork" THEN Now(c, "count") ELSE Done(c)
    /\ UNCHANGED <<row, canvas, layered, exported, failures>>

InsertVersion(c) ==
    /\ On(c, "version")
    /\ versions' = versions \cup {<<caller[c].design, 1>>}
    /\ IF caller[c].op = "fork" THEN Now(c, "count") ELSE Done(c)
    /\ UNCHANGED <<row, canvas, layered, exported, failures>>

(* Mutant: the fork's own counter.                                         *)
CountTheFork(c) ==
    /\ On(c, "count")
    /\ row' = [row EXCEPT ![caller[c].design].forks = @ + 1]
    /\ Done(c)
    /\ UNCHANGED <<canvas, versions, layered, exported, failures>>

IncrementForkCount(c) ==
    /\ On(c, "count")
    /\ row' = [row EXCEPT ![caller[c].from].forks = @ + 1]
    /\ Done(c)
    /\ UNCHANGED <<canvas, versions, layered, exported, failures>>

(* The catch of both calls rolls back a transaction nothing was written in. *)
QueryFails(c) ==
    /\ ~On(c, "idle") /\ failures < MaxFailures
    /\ Done(c)
    /\ failures' = failures + 1
    /\ UNCHANGED <<row, canvas, versions, layered, exported>>

(* The layer service adds a layer, the first of which makes a fork copy.   *)
AddLayer(c) ==
    /\ On(c, "idle")
    /\ \E d \in Present : d \notin layered /\ layered' = layered \cup {d}
    /\ UNCHANGED <<row, canvas, versions, exported, caller, failures>>

-----------------------------------------------------------------------------
(* An export: the format must be in the tier, the exports of today are     *)
(* counted, and the row is inserted later.                                 *)
ValidateExportCreation(c) ==
    /\ On(c, "idle")
    /\ \E u \in Owners, f \in Formats :
         /\ f \in Limits[u].allowedExportFormats
         /\ Within(exported[u], Limits[u].maxExportsPerDay)
         /\ Begin(c, "export", "insert", u)
    /\ UNCHANGED <<row, canvas, versions, layered, exported, failures>>

InsertExport(c) ==
    /\ On(c, "insert") /\ caller[c].op = "export"
    /\ exported[caller[c].who] < MaxExported
    /\ exported' = [exported EXCEPT ![caller[c].who] = @ + 1]
    /\ Done(c)
    /\ UNCHANGED <<row, canvas, versions, layered, failures>>

Midnight ==
    /\ \E u \in Owners : exported[u] > 0
    /\ exported' = [u \in Owners |-> 0]
    /\ UNCHANGED <<row, canvas, versions, layered, caller, failures>>

-----------------------------------------------------------------------------
(* getNextVersionNumber: one more than the latest, read before the INSERT. *)
NumbersOf(d) == {v[2] : v \in {w \in versions : w[1] = d}}
GetNextVersionNumber(d) == IF NumbersOf(d) = {} THEN 1 ELSE 1 + CHOOSE n \in NumbersOf(d) : \A m \in NumbersOf(d) : m <= n

(* createSnapshot, and createCheckpoint when it has a message: reads the   *)
(* design, its layers and canvas and the next number.                      *)
CreateSnapshot(c) ==
    /\ On(c, "idle")
    /\ \E d \in Present :
         caller' = [caller EXCEPT ![c] = [Quiet EXCEPT !.op = "snapshot", !.step = "snapshot",
                                             !.design = d, !.n = GetNextVersionNumber(d)]]
    /\ UNCHANGED <<row, canvas, versions, layered, exported, failures>>

(* The document has versionId '' and the schema requires one: mongoose     *)
(* refuses it, and the version row is never reached.                       *)
SnapshotRefused(c) ==
    /\ On(c, "snapshot")
    /\ Done(c)
    /\ UNCHANGED <<row, canvas, versions, layered, exported, failures>>

(* restoreVersion: of an existing version; all of them are without a       *)
(* snapshotRef, which it refuses.                                          *)
RestoreVersion(c) ==
    /\ On(c, "idle")
    /\ \E v \in versions :
         caller' = [caller EXCEPT ![c] = [Quiet EXCEPT !.op = "restore", !.step = "restore",
                                             !.design = v[1], !.n = v[2]]]
    /\ UNCHANGED <<row, canvas, versions, layered, exported, failures>>

RestoreRefused(c) ==
    /\ On(c, "restore")
    /\ Done(c)
    /\ UNCHANGED <<row, canvas, versions, layered, exported, failures>>

-----------------------------------------------------------------------------
Next ==
    \/ \E c \in Callers :
        \/ ValidateDesignCreation(c) \/ FindOriginal(c) \/ InsertDesign(c)
        \/ CloneLayers(c) \/ InsertCanvas(c) \/ InsertVersion(c) \/ IncrementForkCount(c)
        \/ QueryFails(c) \/ AddLayer(c)
        \/ ValidateExportCreation(c) \/ InsertExport(c)
        \/ CreateSnapshot(c) \/ SnapshotRefused(c) \/ RestoreVersion(c) \/ RestoreRefused(c)
    \/ Midnight

Spec == Init /\ [][Next]_creationVars

-----------------------------------------------------------------------------
(* Properties.                                                             *)

(* The limit of a tier is checked and then acted on; with k calls at once  *)
(* it is passed by k - 1 designs at most, counting those not forked.       *)
QuotaOvershoot ==
    \A u \in Owners : Limits[u].maxDesigns # -1 =>
        Cardinality({d \in Owned(u) : row[d].from = None})
            <= Limits[u].maxDesigns + Cardinality(Callers) - 1

(* Without a transaction a failing creation leaves a design behind with no *)
(* canvas settings or no version, one for each failure and no more: once a *)
(* call has answered, its design is whole, and its fork counted.           *)
Unfinished == {d \in Present : d \notin canvas \/ <<d, 1>> \notin versions}
Building == {c \in Callers : caller[c].design # None /\ caller[c].op \in {"create", "fork"}}

BrokenAreFailures == Cardinality(Unfinished) <= failures + Cardinality(Building)

(* The counter of forks is behind the forks there are by those in flight   *)
(* and those that failed before they counted.                              *)
ForksCounted ==
    \A d \in Present :
        LET forks == {e \in Present : row[e].from = d} IN
            /\ row[d].forks <= Cardinality(forks)
            /\ Cardinality(forks) <= row[d].forks + failures + Cardinality(Building)
=============================================================================
