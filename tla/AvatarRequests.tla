---------------------------- MODULE AvatarRequests ----------------------------
(***************************************************************************)
(* The requests of one user about several avatars: views, updates, new     *)
(* measurements, deletions, the choice of a default and the statistics.    *)
(* Requests interleave at their awaits; the processing that moves an       *)
(* avatar's status along is that of module AvatarProcessing, here as any   *)
(* change of the status.                                                   *)
(***************************************************************************)
EXTENDS Integers, FiniteSets

CONSTANTS
    Avatars,
    Calls,        \* requests in flight at once
    MaxRequests,  \* bound on the requests taken
    MaxChanges    \* bound on the changes of a status

VARIABLES
    avatar,   \* the rows
    ask,      \* ask[c]: the request c is in
    chosen,   \* the last avatar chosen while nothing else was going on: {} or {a}
    crossed,  \* two choices of a default have overlapped, or one has failed half-way
    edited,   \* edited[a][f]: the number of the last request that wrote field f of a
    views,    \* views[a]: views that were counted
    requests, changes

requestVars == <<avatar, ask, chosen, crossed, edited, views, requests, changes>>

-----------------------------------------------------------------------------
Statuses == {"pending", "processing", "ready", "error"}
Columns == {"name", "height", "weight"}
Idle == [op |-> "none", on |-> CHOOSE a \in Avatars : TRUE, step |-> "idle", seen |-> "ready",
         number |-> 0, fields |-> {}, count |-> [s \in Statuses |-> 0], still |-> TRUE]

TypeOK ==
    /\ \A a \in Avatars :
         /\ avatar[a].row \in {"live", "deleted", "gone"} /\ avatar[a].isDefault \in BOOLEAN
         /\ avatar[a].status \in Statuses /\ avatar[a].viewCount \in 0..MaxRequests
         /\ avatar[a].columns \in [Columns -> 0..MaxRequests]
    /\ \A c \in Calls :
         ask[c].step \in {"idle", "find", "view", "act", "set", "existing", "ready", "processing", "error"}
    /\ chosen \subseteq Avatars /\ crossed \in BOOLEAN
    /\ requests \in 0..MaxRequests /\ changes \in 0..MaxChanges

Init ==
    /\ avatar = [a \in Avatars |-> [row |-> "live", isDefault |-> FALSE, status |-> "error",
                                    viewCount |-> 0, columns |-> [f \in Columns |-> 0]]]
    /\ ask = [c \in Calls |-> Idle]
    /\ chosen = {} /\ crossed = FALSE
    /\ edited = [a \in Avatars |-> [f \in Columns |-> 0]]
    /\ views = [a \in Avatars |-> 0]
    /\ requests = 0 /\ changes = 0

In(c, op, step) == ask[c].op = op /\ ask[c].step = step
Live(a) == avatar[a].row = "live"
Goto(c, step) == ask' = [ask EXCEPT ![c].step = step]
Done(c) == ask' = [ask EXCEPT ![c] = Idle]
Unsettled == [c \in Calls |-> [ask[c] EXCEPT !.still = FALSE]]
DoneUnsettling(c) == ask' = [Unsettled EXCEPT ![c] = Idle]

-----------------------------------------------------------------------------
(* A request comes in.  updateAvatar and updateMeasurements are given some *)
(* of the fields.                                                          *)
Take(c) ==
    /\ ask[c].step = "idle" /\ requests < MaxRequests
    /\ requests' = requests + 1
    /\ \E a \in Avatars :
         \/ \E op \in {"get", "default", "soft", "hard"} :
              ask' = [ask EXCEPT ![c] = [Idle EXCEPT !.op = op, !.on = a, !.step = "find", !.number = requests']]
         \/ \E f \in Columns :
              ask' = [ask EXCEPT ![c] = [Idle EXCEPT !.op = IF f = "name" THEN "update" ELSE "measure",
                         !.on = a, !.step = "find", !.number = requests', !.fields = {f}]]
         \/ ask' = [ask EXCEPT ![c] = [Idle EXCEPT !.op = "stats", !.step = "find", !.number = requests']]
    /\ UNCHANGED <<avatar, chosen, crossed, edited, views, changes>>

(* getAvatar, and updateMeasurements: 404, or the row with its status.     *)
FindAvatar(c) ==
    /\ ask[c].step = "find" /\ ask[c].op # "stats"
    /\ LET a == ask[c].on IN
         IF ~Live(a) \/ (ask[c].op = "measure" /\ avatar[a].status = "processing") THEN Done(c)
         ELSE ask' = [ask EXCEPT ![c].seen = avatar[a].status,
                                 ![c].step = IF ask[c].op = "measure" THEN "existing" ELSE "view"]
    /\ UNCHANGED <<avatar, chosen, crossed, edited, views, requests, changes>>

(* getAvatar counts a view, whatever the request is for.  updateAvatar     *)
(* then refuses an avatar that was being processed.                        *)
IncrementViewCount(c) ==
    /\ ask[c].step = "view"
    /\ LET a == ask[c].on IN
         /\ avatar' = [avatar EXCEPT ![a].viewCount = IF avatar[a].row = "gone" THEN @ ELSE @ + 1]
         /\ views' = [views EXCEPT ![a] = IF avatar[a].row = "gone" THEN @ ELSE @ + 1]
    /\ IF ask[c].op = "get" \/ (ask[c].op = "update" /\ ask[c].seen = "processing") THEN Done(c)
       ELSE Goto(c, "act")
    /\ UNCHANGED <<chosen, crossed, edited, requests, changes>>

(* UPDATE of the given fields alone.  It reaches an avatar that was        *)
(* deleted meanwhile too, and then throws.                                 *)
UpdateAvatar(c) ==
    /\ In(c, "update", "act")
    /\ LET a == ask[c].on
           Given(old) == [f \in Columns |-> IF f \in ask[c].fields THEN ask[c].number ELSE old[f]]
       IN  IF avatar[a].row = "gone" THEN UNCHANGED <<avatar, edited>>
           ELSE /\ avatar' = [avatar EXCEPT ![a].columns = Given(@)]
                /\ edited' = [edited EXCEPT ![a] = Given(@)]
    /\ Done(c)
    /\ UNCHANGED <<chosen, crossed, views, requests, changes>>

(* updateMeasurements looks the row up, then writes the fields given.  A   *)
(* hard deletion takes the row along.                                      *)
FindExisting(c) ==
    /\ In(c, "measure", "existing")
    /\ IF avatar[ask[c].on].row = "gone" THEN Done(c) ELSE Goto(c, "act")
    /\ UNCHANGED <<avatar, chosen, crossed, edited, views, requests, changes>>

(* Mutant: a field that is not given is written as well, with nothing.     *)
UpdateAllMeasurements(c) ==
    /\ In(c, "measure", "act")
    /\ LET a == ask[c].on
           Given(old) == [f \in Columns |-> IF f \in ask[c].fields THEN ask[c].number ELSE old[f]]
       IN  IF avatar[a].row = "gone" THEN UNCHANGED <<avatar, edited>>
           ELSE /\ avatar' = [avatar EXCEPT ![a].columns =
                      [f \in Columns |-> IF f \in ask[c].fields THEN ask[c].number
                                         ELSE IF f = "name" THEN @[f] ELSE 0]]
                /\ edited' = [edited EXCEPT ![a] = Given(@)]
    /\ Done(c)
    /\ UNCHANGED <<chosen, crossed, views, requests, changes>>

UpdateMeasurements(c) ==
    /\ In(c, "measure", "act")
    /\ LET a == ask[c].on
           Given(old) == [f \in Columns |-> IF f \in ask[c].fields THEN ask[c].number ELSE old[f]]
       IN  IF avatar[a].row = "gone" THEN UNCHANGED <<avatar, edited>>
           ELSE /\ avatar' = [avatar EXCEPT ![a].columns = Given(@)]
                /\ edited' = [edited EXCEPT ![a] = Given(@)]
    /\ Done(c)
    /\ UNCHANGED <<chosen, crossed, views, requests, changes>>

SoftDelete(c) ==
    /\ In(c, "soft", "act")
    /\ avatar' = [avatar EXCEPT ![ask[c].on].row = IF @ = "live" THEN "deleted" ELSE @]
    /\ DoneUnsettling(c)
    /\ UNCHANGED <<chosen, crossed, edited, views, requests, changes>>
HardDelete(c) ==
    /\ In(c, "hard", "act")
    /\ avatar' = [avatar EXCEPT ![ask[c].on].row = "gone", ![ask[c].on].isDefault = FALSE]
    /\ DoneUnsettling(c)
    /\ UNCHANGED <<chosen, crossed, edited, views, requests, changes>>

-----------------------------------------------------------------------------
(* setDefault: two updates.  Choices overlap from the first of one to the  *)
(* second of another.                                                      *)
Choosing(c) == ask[c].op = "default" /\ ask[c].step = "set"
UnsetDefaults(c) ==
    /\ In(c, "default", "act")
    /\ avatar' = [a \in Avatars |-> [avatar[a] EXCEPT !.isDefault = FALSE]]
    /\ crossed' = (crossed \/ \E d \in Calls : Choosing(d))
    /\ Goto(c, "set")
    /\ UNCHANGED <<chosen, edited, views, requests, changes>>

(* Mutant: the old default is unset after the new one was set.             *)
SetBeforeUnset(c) ==
    /\ In(c, "default", "set")
    /\ avatar' = [a \in Avatars |-> [avatar[a] EXCEPT !.isDefault = FALSE]]
    /\ chosen' = {ask[c].on}
    /\ Done(c)
    /\ UNCHANGED <<crossed, edited, views, requests, changes>>

SetDefault(c) ==
    /\ In(c, "default", "set")
    /\ avatar' = [avatar EXCEPT ![ask[c].on].isDefault = (avatar[ask[c].on].row # "gone")]
    /\ chosen' = {ask[c].on}
    /\ Done(c)
    /\ UNCHANGED <<crossed, edited, views, requests, changes>>

-----------------------------------------------------------------------------
(* getUserStats: four counts, one after the other; what is pending is what *)
(* is left of the first.                                                   *)
With(s) == Cardinality({a \in Avatars : Live(a) /\ avatar[a].status = s})
CountTotal(c) ==
    /\ In(c, "stats", "find")
    /\ ask' = [ask EXCEPT ![c].count.pending = Cardinality({a \in Avatars : Live(a)}), ![c].step = "ready"]
    /\ UNCHANGED <<avatar, chosen, crossed, edited, views, requests, changes>>
CountStatus(c) ==
    /\ ask[c].op = "stats" /\ ask[c].step \in {"ready", "processing", "error"}
    /\ LET s == ask[c].step
           count == ask[c].count IN
         ask' = [ask EXCEPT ![c].count = [count EXCEPT ![s] = With(s), !.pending = @ - With(s)],
                            ![c].step = CASE s = "ready" -> "processing" [] s = "processing" -> "error"
                                          [] OTHER -> "act"]
    /\ UNCHANGED <<avatar, chosen, crossed, edited, views, requests, changes>>
AnswerStats(c) ==
    /\ In(c, "stats", "act") /\ Done(c)
    /\ UNCHANGED <<avatar, chosen, crossed, edited, views, requests, changes>>

-----------------------------------------------------------------------------
(* An await rejects: what was written stays.                               *)
CallFails(c) ==
    /\ ask[c].step # "idle" /\ changes < MaxChanges
    /\ changes' = changes + 1
    /\ crossed' = (crossed \/ Choosing(c))
    /\ Done(c)
    /\ UNCHANGED <<avatar, chosen, edited, views, requests>>

(* The status of an avatar: a creation or a retry writes processing, the   *)
(* processor error; it does not get as far as ready.                       *)
Process ==
    /\ changes < MaxChanges
    /\ changes' = changes + 1
    /\ \E a \in Avatars, s \in {"processing", "error"} :
         /\ avatar[a].row # "gone" /\ s # avatar[a].status
         /\ avatar' = [avatar EXCEPT ![a].status = s]
    /\ ask' = Unsettled
    /\ UNCHANGED <<chosen, crossed, edited, views, requests>>

Next ==
    \/ \E c \in Calls :
        \/ Take(c) \/ FindAvatar(c) \/ IncrementViewCount(c) \/ UpdateAvatar(c)
        \/ FindExisting(c) \/ UpdateMeasurements(c) \/ SoftDelete(c) \/ HardDelete(c)
        \/ UnsetDefaults(c) \/ SetDefault(c)
        \/ CountTotal(c) \/ CountStatus(c) \/ AnswerStats(c) \/ CallFails(c)
    \/ Process

Spec == Init /\ [][Next]_requestVars

-----------------------------------------------------------------------------
(* Unless choices overlap or one fails between its two updates, the avatar *)
(* chosen last is the default, and the only one, until it is deleted for   *)
(* good; two choices that overlap leave no more defaults than there are.   *)
DefaultIsChosen ==
    LET defaults == {a \in Avatars : avatar[a].isDefault}
    IN  ~crossed /\ (\A c \in Calls : ~Choosing(c)) =>
            defaults = {a \in chosen : avatar[a].row # "gone"}

(* Whatever requests overlap, a field has what the last request that gave  *)
(* it wrote, and no view is lost.                                          *)
NoFieldLost ==
    \A a \in Avatars : avatar[a].columns = edited[a] /\ avatar[a].viewCount = views[a]

(* Statistics taken while no avatar changed its status or was deleted add  *)
(* up: what is left of the total is what is pending.                       *)
StatsAddUp ==
    \A c \in Calls :
        In(c, "stats", "act") /\ ask[c].still =>
            \A s \in Statuses : ask[c].count[s] = With(s)
=============================================================================
