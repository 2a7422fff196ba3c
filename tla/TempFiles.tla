------------------------------ MODULE TempFiles ------------------------------
(***************************************************************************)
(* temp-file-manager.util.ts: files on disk, the map that knows them, and  *)
(* the calls that write, read, delete and clean them up.                   *)
(***************************************************************************)
EXTENDS Naturals, FiniteSets, Sequences, Functions

CONSTANTS
    Files,       \* ids that create may draw
    Calls,       \* calls in flight at once
    MaxTempCalls,
    MaxDiskErrors

VARIABLES
    disk,      \* the files that exist
    known,     \* the map: id to "fresh" or "expired"
    used,      \* ids drawn so far
    call,      \* call[c]: the call, its step, and the ids still to go through
    interval,  \* a cleanup is scheduled
    stranded,  \* files not written or not unlinked without an error, or whose process ended
    tempCalls, diskErrors

tempVars == <<disk, known, used, call, interval, stranded, tempCalls, diskErrors>>

-----------------------------------------------------------------------------
Nothing == [f \in {} |-> "fresh"]
Idle == [op |-> "none", step |-> "idle", ids |-> <<>>, deletedCount |-> 0]
Known == DOMAIN known
exists(f) == f \in Known /\ known[f] = "fresh"
list(includeExpired) == {f \in Known : includeExpired \/ known[f] = "fresh"}
Expired == list(TRUE) \ list(FALSE)
Orders(S) == Bijection(1..Cardinality(S), S)  \* the orders in which a map may list them
Forget(f) == [g \in Known \ {f} |-> known[g]]

TypeOK ==
    /\ disk \cup Known \cup stranded \subseteq used /\ used \subseteq Files
    /\ \A f \in Known : known[f] \in {"fresh", "expired"}
    /\ \A c \in Calls :
         /\ call[c].step \in {"idle", "write", "set", "read", "next", "unlink", "forget"}
         /\ Range(call[c].ids) \subseteq Files /\ call[c].deletedCount \in 0..Cardinality(Files)
    /\ interval \in BOOLEAN
    /\ tempCalls \in 0..MaxTempCalls /\ diskErrors \in 0..MaxDiskErrors

Init ==
    /\ disk = {} /\ known = Nothing /\ used = {}
    /\ call = [c \in Calls |-> Idle]
    /\ interval = FALSE /\ stranded = {}
    /\ tempCalls = 0 /\ diskErrors = 0

Goto(c, step) == call' = [call EXCEPT ![c].step = step]
Done(c) == call' = [call EXCEPT ![c] = Idle]
Begin(c, op, step, ids) ==
    /\ call[c].step = "idle" /\ tempCalls < MaxTempCalls
    /\ tempCalls' = tempCalls + 1
    /\ call' = [call EXCEPT ![c] = [Idle EXCEPT !.op = op, !.step = step, !.ids = ids]]

-----------------------------------------------------------------------------
(* create: once the directory is there an id is drawn, the file is         *)
(* written, and only then known.                                           *)
Create(c) ==
    /\ \E f \in Files \ used : Begin(c, "create", "write", <<f>>) /\ used' = used \cup {f}
    /\ UNCHANGED <<disk, known, interval, stranded, diskErrors>>

WriteFile(c) ==
    /\ call[c].step = "write"
    /\ disk' = disk \cup Range(call[c].ids)
    /\ Goto(c, "set")
    /\ UNCHANGED <<known, used, interval, stranded, tempCalls, diskErrors>>

(* The write rejects and create throws; what it has written stays.         *)
WriteFails(c) ==
    /\ call[c].step = "write" /\ diskErrors < MaxDiskErrors
    /\ diskErrors' = diskErrors + 1
    /\ \E rest \in SUBSET Range(call[c].ids) : disk' = disk \cup rest /\ stranded' = stranded \cup rest
    /\ Done(c)
    /\ UNCHANGED <<known, used, interval, tempCalls>>

SetMetadata(c) ==
    /\ call[c].step = "set"
    /\ known' = [f \in Known \cup Range(call[c].ids) |-> IF f \in Known THEN known[f] ELSE "fresh"]
    /\ Done(c)
    /\ UNCHANGED <<disk, used, interval, stranded, tempCalls, diskErrors>>

-----------------------------------------------------------------------------
(* get deletes a file that has expired and throws, or reads it.            *)
Get(c) ==
    /\ \E f \in Known : Begin(c, "get", IF exists(f) THEN "read" ELSE "unlink", <<f>>)
    /\ UNCHANGED <<disk, known, used, interval, stranded, diskErrors>>
ReadFile(c) ==
    /\ call[c].step = "read" /\ Done(c)
    /\ UNCHANGED <<disk, known, used, interval, stranded, tempCalls, diskErrors>>

Delete(c) ==
    /\ \E f \in Known : Begin(c, "delete", "unlink", <<f>>)
    /\ UNCHANGED <<disk, known, used, interval, stranded, diskErrors>>

(* cleanup and cleanupAll: the ids are picked first and deleted one by one *)
(* after that, in the order of the map.                                    *)
Cleanup(c) ==
    /\ \E ids \in Orders(Expired) : ids # <<>> /\ Begin(c, "cleanup", "next", ids)
    /\ UNCHANGED <<disk, known, used, interval, stranded, diskErrors>>
CleanupAll(c) ==
    /\ \E ids \in Orders(Known) : ids # <<>> /\ Begin(c, "cleanup", "next", ids)
    /\ UNCHANGED <<disk, known, used, interval, stranded, diskErrors>>

(* A file that somebody else has deleted is counted as deleted.            *)
CleanNext(c) ==
    /\ call[c].step = "next"
    /\ IF call[c].ids = <<>> THEN Done(c)
       ELSE IF Head(call[c].ids) \in Known THEN Goto(c, "unlink")
       ELSE call' = [call EXCEPT ![c].ids = Tail(@), ![c].deletedCount = @ + 1]
    /\ UNCHANGED <<disk, known, used, interval, stranded, tempCalls, diskErrors>>

(* Mutant: the entry goes before the file is unlinked, and the call has    *)
(* ended when the file cannot be.                                          *)
UnlinkKnown(c) ==
    /\ call[c].step = "unlink"
    /\ known' = Forget(Head(call[c].ids))
    /\ Goto(c, "forget")
    /\ UNCHANGED <<disk, used, interval, stranded, tempCalls, diskErrors>>

(* delete: the file goes first.  An error is ignored, so the entry goes    *)
(* although the file may still be there.                                   *)
Unlink(c) ==
    /\ call[c].step = "unlink"
    /\ LET f == Head(call[c].ids) IN
         \/ disk' = disk \ {f} /\ UNCHANGED <<stranded, diskErrors>>
         \/ /\ f \in disk /\ diskErrors < MaxDiskErrors
            /\ diskErrors' = diskErrors + 1
            /\ stranded' = stranded \cup {f} /\ UNCHANGED disk
    /\ Goto(c, "forget")
    /\ UNCHANGED <<known, used, interval, tempCalls>>

ForgetFile(c) ==
    /\ call[c].step = "forget"
    /\ known' = Forget(Head(call[c].ids))
    /\ IF call[c].op = "cleanup"
       THEN call' = [call EXCEPT ![c].step = "next", ![c].ids = Tail(@), ![c].deletedCount = @ + 1]
       ELSE Done(c)
    /\ UNCHANGED <<disk, used, interval, stranded, tempCalls, diskErrors>>

-----------------------------------------------------------------------------
(* Time passes; extend adds to what is left, and revives what has expired. *)
Expire ==
    /\ \E f \in list(FALSE) : known' = [known EXCEPT ![f] = "expired"]
    /\ UNCHANGED <<disk, used, call, interval, stranded, tempCalls, diskErrors>>

Extend ==
    /\ tempCalls < MaxTempCalls /\ tempCalls' = tempCalls + 1
    /\ \E f \in Expired : known' = [known EXCEPT ![f] = "fresh"]
    /\ UNCHANGED <<disk, used, call, interval, stranded, diskErrors>>

ScheduleCleanup ==
    /\ interval' = TRUE /\ tempCalls < MaxTempCalls /\ tempCalls' = tempCalls + 1
    /\ UNCHANGED <<disk, known, used, call, stranded, diskErrors>>
StopScheduledCleanup ==
    /\ interval /\ interval' = FALSE
    /\ UNCHANGED <<disk, known, used, call, stranded, tempCalls, diskErrors>>

(* The interval calls cleanup and does not wait for the one before.        *)
IntervalFires(c) ==
    /\ interval /\ call[c].step = "idle"
    /\ \E ids \in Orders(Expired) :
         /\ ids # <<>>
         /\ call' = [call EXCEPT ![c] = [Idle EXCEPT !.op = "cleanup", !.step = "next", !.ids = ids]]
    /\ UNCHANGED <<disk, known, used, interval, stranded, tempCalls, diskErrors>>

(* The process ends: the map is in memory, and nothing looks for files     *)
(* when it starts again.                                                   *)
Restart ==
    /\ disk \ stranded # {}
    /\ stranded' = disk /\ known' = Nothing
    /\ call' = [c \in Calls |-> Idle] /\ interval' = FALSE
    /\ UNCHANGED <<disk, used, tempCalls, diskErrors>>

-----------------------------------------------------------------------------
Next ==
    \/ \E c \in Calls :
        \/ Create(c) \/ WriteFile(c) \/ WriteFails(c) \/ SetMetadata(c) \/ Get(c) \/ ReadFile(c)
        \/ Delete(c) \/ Cleanup(c) \/ CleanupAll(c) \/ CleanNext(c) \/ Unlink(c) \/ ForgetFile(c) \/ IntervalFires(c)
    \/ Expire \/ Extend \/ ScheduleCleanup \/ StopScheduledCleanup \/ Restart

Spec == Init /\ [][Next]_tempVars

-----------------------------------------------------------------------------
(* However reads, deletions and cleanups overlap, a known file is on disk  *)
(* unless a call that has unlinked it is about to forget it, and a file on *)
(* disk is known, unless it is being created, or could not be written or   *)
(* unlinked, or its process ended.                                         *)
FilesAccounted ==
    LET At(steps) == UNION {{Head(call[c].ids)} : c \in {d \in Calls : call[d].step \in steps}}
    IN  /\ Known \ disk \subseteq At({"forget"})
        /\ disk \ Known \subseteq stranded \cup At({"set"})
=============================================================================
