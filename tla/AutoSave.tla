------------------------------ MODULE AutoSave ------------------------------
(***************************************************************************)
(* auto-save.service.ts for one design: a debouncing timer kept in a map,  *)
(* the map of pending saves that a shutdown goes through, and the saves    *)
(* themselves, which read the design, the last autosave and write a new    *)
(* one in MongoDB, then delete all but the newest.  MongoDB itself deletes *)
(* an autosave that is seven days old.                                     *)
(***************************************************************************)
EXTENDS Naturals, FiniteSets

CONSTANTS
    MaxEdits,    \* bound on the edits; edit number t schedules with timer t
    Runs,        \* saves that may be in flight at once
    Keep,        \* MAX_AUTOSAVES_PER_DESIGN
    MaxSaved,    \* bound on the documents ever written
    MaxSaveFails \* bound on queries that fail

VARIABLES
    content,  \* edits made so far; an edit schedules a save
    foreign,  \* the schedules asked for by a user who does not own the design
    deleted,  \* the row of the design is gone
    timer,    \* timer[t]: "unused", "armed", "running", "over", "cleared" or "cancelled"
    current,  \* the entry of autosaveTimers for the design: a set of at most one timer
    pending,  \* the design is in pendingSaves
    run,      \* run[r]: the save r is in
    docs,     \* the autosaves: document i, with its number and what it holds
    written,  \* documents ever written
    expired,  \* documents up to this one were deleted for their age
    reached,  \* the most edits that an autosave has held
    overlapped, \* a save has started while another was going on
    saveFails,
    app       \* "up", "closing" or "down"

designVars == <<content, foreign, deleted>>
timerVars == <<timer, current, pending>>
docVars == <<docs, written, expired, reached>>
autoVars == <<designVars, timerVars, run, docVars, overlapped, saveFails, app>>

-----------------------------------------------------------------------------
Timers == 1..MaxEdits
Resting == [step |-> "idle", by |-> {}, read |-> 0, number |-> 0, old |-> {}]
Timely == {t \in Timers : timer[t] = "armed"}

TypeOK ==
    /\ content \in Nat /\ foreign \subseteq 1..content /\ deleted \in BOOLEAN
    /\ timer \in [Timers -> {"unused", "armed", "running", "over", "cleared", "cancelled"}]
    /\ current \subseteq Timers /\ Cardinality(current) <= 1 /\ pending \in BOOLEAN
    /\ \A r \in Runs :
         /\ run[r].step \in {"idle", "read", "latest", "create", "list", "delete"}
         /\ run[r].by \subseteq Timers /\ run[r].read \in 0..content
    /\ \A d \in docs : d.id \in 1..written /\ d.holds \in 0..content /\ d.number \in Nat
    /\ expired \in 0..written
    /\ reached \in 0..content /\ overlapped \in BOOLEAN /\ saveFails \in 0..MaxSaveFails
    /\ app \in {"up", "closing", "down"}

Init ==
    /\ content = 0 /\ foreign = {} /\ deleted = FALSE
    /\ timer = [t \in Timers |-> "unused"]
    /\ current = {} /\ pending = FALSE
    /\ run = [r \in Runs |-> Resting]
    /\ docs = {} /\ written = 0 /\ expired = 0 /\ reached = 0 /\ overlapped = FALSE /\ saveFails = 0
    /\ app = "up"

In(r, step) == run[r].step = step
Latest == CHOOSE d \in docs : \A e \in docs : e.id <= d.id

-----------------------------------------------------------------------------
(* cancelAutoSave clears the timer the map knows, and no other.            *)
Stopped(how) == [t \in Timers |-> IF t \in current \cap Timely THEN how ELSE timer[t]]
Cleared == Stopped("cleared")

CancelAutoSave ==
    /\ app = "up" /\ current # {}
    /\ timer' = Stopped("cancelled")
    /\ current' = {} /\ pending' = FALSE
    /\ UNCHANGED <<designVars, run, docVars, overlapped, saveFails, app>>

(* Mutant: an edit while a save is pending does not start the delay again, *)
(* and is not remembered.                                                  *)
ScheduleOnce ==
    /\ app = "up"
    /\ \E t \in Timers :
         /\ t = content + 1
         /\ IF \E u \in Timers : timer[u] = "running" THEN timer' = [timer EXCEPT ![t] = "over"]
            ELSE timer' = [Cleared EXCEPT ![t] = "armed"]
         /\ current' = {t}
    /\ pending' = TRUE
    /\ content' = content + 1
    /\ foreign' \in {foreign, foreign \cup {content + 1}}
    /\ UNCHANGED <<deleted, run, docVars, overlapped, saveFails, app>>

(* An edit, and scheduleAutoSave, by the owner or by somebody else: both    *)
(* maps are keyed by the design alone.                                     *)
ScheduleAutoSave ==
    /\ app = "up"
    /\ \E t \in Timers :
         /\ t = content + 1
         /\ timer' = [Cleared EXCEPT ![t] = "armed"]
         /\ current' = {t}
    /\ pending' = TRUE
    /\ content' = content + 1
    /\ foreign' \in {foreign, foreign \cup {content + 1}}
    /\ UNCHANGED <<deleted, run, docVars, overlapped, saveFails, app>>

(* hardDelete, or somebody at the database, removes the row; deleteDesign   *)
(* only marks it, and findById finds it all the same.                      *)
DeleteDesign ==
    /\ app = "up" /\ ~deleted
    /\ deleted' = TRUE
    /\ UNCHANGED <<content, foreign, timerVars, run, docVars, overlapped, saveFails, app>>

Overlaps == overlapped \/ \E r \in Runs : ~In(r, "idle")

(* The delay is over: the callback calls performAutoSave.                  *)
TimerFires ==
    /\ app # "down"
    /\ \E t \in Timely, r \in Runs :
         /\ In(r, "idle")
         /\ run' = [run EXCEPT ![r] = [Resting EXCEPT !.step = "read", !.by = {t}]]
         /\ timer' = [timer EXCEPT ![t] = "running"]
    /\ overlapped' = Overlaps
    /\ UNCHANGED <<designVars, current, pending, docVars, saveFails, app>>

(* The callback's finally deletes both entries, whoever they belong to.    *)
EndRun(r) ==
    /\ run' = [run EXCEPT ![r] = Resting]
    /\ IF run[r].by = {} THEN UNCHANGED timerVars
       ELSE /\ timer' = [t \in Timers |-> IF t \in run[r].by THEN "over" ELSE timer[t]]
            /\ current' = {} /\ pending' = FALSE

(* Whom a save is for: the user its timer was set for, or at a shutdown    *)
(* the one of the last schedule.                                           *)
ForOwner(r) == (IF run[r].by = {} THEN {content} ELSE run[r].by) \cap foreign = {}

(* performAutoSave reads the design, its layers and settings; it returns   *)
(* when the design is not there or belongs to somebody else.               *)
ReadState(r) ==
    /\ In(r, "read")
    /\ IF deleted \/ ~ForOwner(r) THEN EndRun(r)
       ELSE /\ run' = [run EXCEPT ![r].step = "latest", ![r].read = content]
            /\ UNCHANGED timerVars
    /\ UNCHANGED <<designVars, docVars, overlapped, saveFails, app>>

(* The number is the latest one and 1.  hasStateChanged compares the       *)
(* document, which has the mapped fields, with the entities themselves:    *)
(* their JSON is never the same, so no save is ever skipped.               *)
ReadLatest(r) ==
    /\ In(r, "latest")
    /\ run' = [run EXCEPT ![r].step = "create",
                          ![r].number = IF docs = {} THEN 1 ELSE Latest.number + 1]
    /\ UNCHANGED <<designVars, timerVars, docVars, overlapped, saveFails, app>>

CreateAutosave(r) ==
    /\ In(r, "create") /\ written < MaxSaved
    /\ written' = written + 1
    /\ docs' = docs \cup {[id |-> written + 1, number |-> run[r].number, holds |-> run[r].read]}
    /\ reached' = IF run[r].read > reached THEN run[r].read ELSE reached
    /\ run' = [run EXCEPT ![r].step = "list"]
    /\ UNCHANGED <<designVars, timerVars, expired, overlapped, saveFails, app>>

(* deleteOldAutosaves lists all but the newest, then deletes that list.    *)
Newer(d) == {e \in docs : e.id > d.id}

(* Mutant: the newest are skipped from the other end.                      *)
ListNewAutosaves(r) ==
    /\ In(r, "list")
    /\ run' = [run EXCEPT ![r].step = "delete",
                 ![r].old = {d \in docs : Cardinality(docs \ Newer(d)) > Keep}]
    /\ UNCHANGED <<designVars, timerVars, docVars, overlapped, saveFails, app>>

ListOldAutosaves(r) ==
    /\ In(r, "list")
    /\ run' = [run EXCEPT ![r].step = "delete",
                 ![r].old = {d \in docs : Cardinality(Newer(d)) >= Keep}]
    /\ UNCHANGED <<designVars, timerVars, docVars, overlapped, saveFails, app>>

DeleteOldAutosaves(r) ==
    /\ In(r, "delete")
    /\ docs' = docs \ run[r].old
    /\ EndRun(r)
    /\ UNCHANGED <<designVars, written, expired, reached, overlapped, saveFails, app>>

(* A query rejects: the callback logs it, and its finally runs; the        *)
(* cleanup of a save catches its own errors.                               *)
SaveFails(r) ==
    /\ ~In(r, "idle") /\ saveFails < MaxSaveFails
    /\ saveFails' = saveFails + 1
    /\ EndRun(r)
    /\ UNCHANGED <<designVars, docVars, overlapped, app>>

(* The collection's index takes what is older than seven days, the oldest  *)
(* first and the newest too.                                               *)
ExpireAutosave ==
    /\ app # "down"
    /\ \E d \in docs :
         /\ \A e \in docs : d.id <= e.id
         /\ docs' = docs \ {d} /\ expired' = d.id
    /\ UNCHANGED <<designVars, timerVars, run, written, reached, overlapped, saveFails, app>>

-----------------------------------------------------------------------------
(* onModuleDestroy: every timer the map knows is cleared, and what is      *)
(* pending is saved once more.                                             *)
OnModuleDestroy ==
    /\ app = "up"
    /\ app' = "closing"
    /\ IF pending
       THEN /\ timer' = Cleared
            /\ current' = {}
            /\ \E r \in Runs :
                 /\ In(r, "idle")
                 /\ run' = [run EXCEPT ![r] = [Resting EXCEPT !.step = "read"]]
            /\ overlapped' = Overlaps
       ELSE UNCHANGED <<timer, current, run, overlapped>>
    /\ UNCHANGED <<designVars, pending, docVars, saveFails>>

(* The process ends once the saves of the shutdown are settled; timers and *)
(* callbacks still about end with it.                                      *)
ShutDown ==
    /\ app = "closing"
    /\ \A r \in Runs : In(r, "idle") \/ run[r].by # {}
    /\ app' = "down"
    /\ timer' = [t \in Timers |-> IF timer[t] = "unused" THEN "unused" ELSE "over"]
    /\ current' = {} /\ pending' = FALSE
    /\ run' = [r \in Runs |-> Resting]
    /\ UNCHANGED <<designVars, docVars, overlapped, saveFails>>

-----------------------------------------------------------------------------
SaveStep(r) ==
    ReadState(r) \/ ReadLatest(r) \/ CreateAutosave(r) \/ ListOldAutosaves(r) \/ DeleteOldAutosaves(r)

Next ==
    \/ CancelAutoSave \/ ScheduleAutoSave \/ DeleteDesign \/ ExpireAutosave \/ TimerFires \/ OnModuleDestroy \/ ShutDown
    \/ \E r \in Runs : SaveStep(r) \/ SaveFails(r)

(* A timer's delay ends, and a query is answered or rejected.              *)
Fairness == WF_autoVars(TimerFires) /\ \A r \in Runs : WF_autoVars(SaveStep(r))

Spec == Init /\ [][Next]_autoVars /\ Fairness

-----------------------------------------------------------------------------
(* Properties.                                                             *)

(* Every edit is in an autosave some day after edits have stopped, though  *)
(* newer edits clear its timer and the end of an older save may delete the *)
(* entries of a newer schedule: unless it or a newer edit was cancelled or *)
(* scheduled by another user than the owner, whose timer takes the place   *)
(* of the owner's and saves nothing, the row of the design is gone, a save *)
(* failed, or the process went down.                                       *)
EditsAreSaved ==
    \A t \in Timers :
        content >= t ~>
            \/ reached >= t
            \/ \E u \in t..MaxEdits : timer[u] = "cancelled" \/ u \in foreign
            \/ deleted \/ saveFails > 0 \/ app # "up"

(* Auto-save implements Recovery: however saves and their cleanups         *)
(* overlap, fail or are cut short, the autosave that recoverDesign returns *)
(* is deleted for its age alone, and holds no less than any before unless  *)
(* saves have overlapped.                                                  *)
Recovered == INSTANCE Recovery WITH
    saved <- written, most <- reached,
    latest <- IF docs = {} THEN [id |-> 0, holds |-> 0]
              ELSE [id |-> Latest.id, holds |-> Latest.holds]

ImplementsRecovery == Recovered!Spec

(* The newest autosave is the one that holds the most, until two saves     *)
(* overlap: then the older one may be written last, and its cleanup        *)
(* deletes what the other has saved.                                       *)
NewestHoldsMost ==
    ~overlapped /\ docs # {} => Latest.holds = reached

(* The collection outgrows its limit by the saves in flight and those that *)
(* failed before they cleaned up, and by no more.                          *)
CollectionBounded ==
    app # "down" => Cardinality(docs) <= Keep + saveFails + Cardinality({r \in Runs : ~In(r, "idle")})
=============================================================================
