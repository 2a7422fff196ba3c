---------------------------- MODULE Services_proofs ----------------------------
(***************************************************************************)
(* The services beside the requests for designs and items, and the         *)
(* database below them, for any number of edits, calls, sockets, files and *)
(* failures: each section is about one part.                               *)
(***************************************************************************)
EXTENDS MCBackground, Sequences, FiniteSetTheorems, TLAPS

(* One element more or less, and the size of a finite set.                 *)
LEMMA OneMoves ==
    ASSUME NEW S, IsFiniteSet(S), NEW T, NEW c, \A d : d # c => (d \in T <=> d \in S)
    PROVE  /\ IsFiniteSet(T) /\ Cardinality(S) \in Nat /\ Cardinality(T) \in Nat
           /\ c \notin S /\ c \in T => Cardinality(T) = Cardinality(S) + 1
           /\ c \in S /\ c \notin T => Cardinality(T) = Cardinality(S) - 1
           /\ (c \in S <=> c \in T) => T = S
<1>0. Cardinality(S) \in Nat
    BY FS_CardinalityType
<1>1. CASE c \notin S /\ c \in T
    <2>1. T = S \cup {c}
        BY <1>1
    <2>2. IsFiniteSet(T) /\ Cardinality(T) = Cardinality(S) + 1
        BY <2>1, <1>1, FS_AddElement
    <2> QED BY <2>2, <1>0, <1>1
<1>2. CASE c \in S /\ c \notin T
    <2>1. T = S \ {c}
        BY <1>2
    <2>2. IsFiniteSet(T) /\ Cardinality(T) = Cardinality(S) - 1
        BY <2>1, <1>2, FS_RemoveElement
    <2>3. Cardinality(T) \in Nat
        BY <2>2, FS_CardinalityType
    <2> QED BY <2>2, <2>3, <1>0, <1>2
<1>3. CASE c \in S <=> c \in T
    <2>1. T = S
        BY <1>3
    <2> QED BY <2>1, <1>0, <1>3
<1> QED BY <1>1, <1>2, <1>3

(* Two sets that have nothing in common.                                   *)
LEMMA CountsAdd ==
    ASSUME NEW S, NEW T, IsFiniteSet(S), IsFiniteSet(T), \A x \in S : x \notin T
    PROVE  /\ IsFiniteSet(S \cup T) /\ Cardinality(S \cup T) = Cardinality(S) + Cardinality(T)
           /\ Cardinality(S \cup T) \in Nat
<1>1. S \cap T = {}
    OBVIOUS
<1>2. Cardinality(S \cap T) = 0
    BY <1>1, FS_EmptySet
<1>3. Cardinality(S) \in Nat /\ Cardinality(T) \in Nat
    BY FS_CardinalityType
<1>4. IsFiniteSet(S \cup T) /\ Cardinality(S \cup T) = Cardinality(S) + Cardinality(T) - Cardinality(S \cap T)
    BY FS_Union
<1> QED BY <1>2, <1>3, <1>4

(* The counting of an instance is that of the library.                     *)
LEMMA CountsAlike ==
    ASSUME NEW S
    PROVE  /\ Request!Cardinality(S) = Cardinality(S) /\ Saves!Cardinality(S) = Cardinality(S)
           /\ Pool!Cardinality(S) = Cardinality(S) /\ Gateway!Cardinality(S) = Cardinality(S)
           /\ Rate!Cardinality(S) = Cardinality(S) /\ Temp!Cardinality(S) = Cardinality(S)
           /\ Batch!Cardinality(S) = Cardinality(S) /\ Multipart!Cardinality(S) = Cardinality(S)
BY DEF Request!Cardinality, Saves!Cardinality, Pool!Cardinality, Gateway!Cardinality,
       Rate!Cardinality, Temp!Cardinality, Batch!Cardinality, Multipart!Cardinality, Cardinality

(* The bounds, each by itself.                                             *)
LEMMA Bounds ==
    /\ MaxEdits \in Nat /\ MaxSaved \in Nat /\ MaxSaveFails \in Nat /\ MaxEvents \in Nat
    /\ MaxReverts \in Nat /\ MaxRequests \in Nat /\ MaxChanges \in Nat /\ MaxChecks \in Nat
    /\ MaxCacheErrors \in Nat /\ MaxErrors \in Nat /\ MaxItems \in Nat /\ MaxRejects \in Nat
    /\ MaxTempCalls \in Nat /\ MaxDiskErrors \in Nat /\ MaxResends \in Nat /\ MaxLost \in Nat
    /\ MaxUploadErrors \in Nat /\ MaxLength \in Nat /\ MaxQueries \in Nat
    /\ MaxReadFailures \in Nat
BY Zenon, BoundsAssumption

(* The limits, each by itself.                                             *)
LEMMA Limits ==
    /\ Keep \in Nat \ {0} /\ Limit \in Nat \ {0} /\ BatchSize \in Nat \ {0}
    /\ MaxAttempts \in Nat \ {0} /\ NumParts \in Nat \ {0} /\ Concurrency \in Nat \ {0}
BY Zenon, LimitsAssumption

(* What a step of any part is for the requests about avatars.              *)
LEMMA RequestMoves ==
    [Next]_vars =>
        \/ UNCHANGED requestVars
        \/ \E c \in Calls :
            \/ Request!Take(c) \/ Request!FindAvatar(c) \/ Request!IncrementViewCount(c)
            \/ Request!UpdateAvatar(c) \/ Request!FindExisting(c) \/ Request!UpdateMeasurements(c)
            \/ Request!SoftDelete(c) \/ Request!HardDelete(c) \/ Request!UnsetDefaults(c)
            \/ Request!SetDefault(c) \/ Request!CountTotal(c) \/ Request!CountStatus(c)
            \/ Request!AnswerStats(c) \/ Request!CallFails(c)
        \/ Request!Process
BY Zenon DEF Next, Services, Database, Utilities, vars, serviceVars, databaseVars, fileVars,
    OnAuto, OnGateway, OnRequest, OnRate, OnMigrate, OnPool, OnAsync, OnBatch, OnTemp,
    OnMultipart, OnUpload, OnArray, OnObject
(***************************************************************************)
(* Requests about avatars.                                                 *)
(***************************************************************************)
RowStates == {"live", "deleted", "gone"}
AvatarRow == [row : RowStates, isDefault : BOOLEAN, status : Request!Statuses, viewCount : Nat,
              columns : [Request!Columns -> Nat]]
AskSteps == {"idle", "find", "view", "act", "set", "existing", "ready", "processing", "error"}
AskOps == {"none", "get", "default", "soft", "hard", "update", "measure", "stats"}
AvatarAsk == [op : AskOps, on : Avatars, step : AskSteps, seen : Request!Statuses, number : Nat,
              fields : SUBSET Request!Columns, count : [Request!Statuses -> Int], still : BOOLEAN]

RequestTypes ==
    /\ avatar \in [Avatars -> AvatarRow] /\ ask \in [Calls -> AvatarAsk]
    /\ edited \in [Avatars -> [Request!Columns -> Nat]] /\ views \in [Avatars -> Nat]
    /\ chosen \subseteq Avatars /\ crossed \in BOOLEAN
    /\ requests \in 0..MaxRequests /\ changes \in 0..MaxChanges

(* Every field has what the last request that gave it wrote; a request has *)
(* a number of its own time, and counts one view at most.                  *)
ToView == {c \in Calls : ask[c].step \in {"find", "view"}}
FieldsKept ==
    /\ \A a \in Avatars :
         /\ avatar[a].columns = edited[a] /\ avatar[a].viewCount = views[a]
         /\ \A f \in Request!Columns : edited[a][f] <= requests
         /\ views[a] + Cardinality(ToView) <= requests
    /\ \A c \in Calls : ask[c].number <= requests

(* A choice that crosses no other has the defaults to itself: there is     *)
(* none between its two updates, and the one it chose after them.          *)
DefaultsKept ==
    /\ \A a \in Avatars : avatar[a].isDefault => avatar[a].row # "gone"
    /\ ~crossed =>
         /\ \A c, d \in Calls : Request!Choosing(c) /\ Request!Choosing(d) => c = d
         /\ \A a \in Avatars : avatar[a].isDefault =>
                a \in chosen /\ \A c \in Calls : ~Request!Choosing(c)
         /\ (\A c \in Calls : ~Request!Choosing(c)) =>
                \A a \in chosen : avatar[a].row # "gone" => avatar[a].isDefault

(* While nothing was unsettled, what has been counted is what there is.    *)
AllLive == {a \in Avatars : avatar[a].row = "live"}
LiveIn(s) == {a \in Avatars : avatar[a].row = "live" /\ avatar[a].status = s}
Counted(c) ==
    ask[c].op = "stats" /\ ask[c].still =>
        /\ ask[c].step = "ready" => ask[c].count["pending"] = Cardinality(AllLive)
        /\ ask[c].step = "processing" =>
             /\ ask[c].count["ready"] = Cardinality(LiveIn("ready"))
             /\ ask[c].count["pending"] = Cardinality(AllLive) - Cardinality(LiveIn("ready"))
        /\ ask[c].step = "error" =>
             /\ ask[c].count["ready"] = Cardinality(LiveIn("ready"))
             /\ ask[c].count["processing"] = Cardinality(LiveIn("processing"))
             /\ ask[c].count["pending"] =
                  Cardinality(AllLive) - Cardinality(LiveIn("ready")) - Cardinality(LiveIn("processing"))
        /\ ask[c].step = "act" =>
             /\ ask[c].count["ready"] = Cardinality(LiveIn("ready"))
             /\ ask[c].count["processing"] = Cardinality(LiveIn("processing"))
             /\ ask[c].count["error"] = Cardinality(LiveIn("error"))
             /\ ask[c].count["pending"] =
                  Cardinality(AllLive) - Cardinality(LiveIn("ready")) - Cardinality(LiveIn("processing"))
                      - Cardinality(LiveIn("error"))
CountsKept == \A c \in Calls : Counted(c) /\ (ask[c].op = "stats" => ask[c].step # "view")

RequestInv == RequestTypes /\ FieldsKept /\ DefaultsKept /\ CountsKept

(* A call that is at rest.                                                 *)
LEMMA AskIdle ==
    /\ Request!Idle \in AvatarAsk
    /\ Request!Idle.op = "none" /\ Request!Idle.step = "idle" /\ Request!Idle.number = 0
<1>1. (CHOOSE a \in Avatars : TRUE) \in Avatars
    BY SetsAssumption
<1>2. [s \in Request!Statuses |-> 0] \in [Request!Statuses -> Int]
    OBVIOUS
<1>3. "ready" \in Request!Statuses
    BY DEF Request!Statuses
<1> QED BY <1>1, <1>2, <1>3 DEF Request!Idle, AvatarAsk, AskOps, AskSteps

(* A call moves, the rows and the default do not.                          *)
AskMoves(c) ==
    \E x \in AvatarAsk :
        /\ ask' = [ask EXCEPT ![c] = x]
        /\ x.number <= requests' /\ requests \in 0..requests' /\ requests' \in 0..MaxRequests
        /\ x.step \in {"find", "view"} => ask[c].step \in {"find", "view"} \/ requests' = requests + 1
        /\ ~(x.op = "default" /\ x.step = "set")
        /\ Request!Choosing(c) => crossed'
        /\ crossed' \in BOOLEAN /\ (crossed => crossed') /\ changes' \in 0..MaxChanges
        /\ x.op = "stats" => x.step # "view" /\ (x.step = "find" \/ Counted(c)')
        /\ UNCHANGED <<avatar, chosen, edited, views>>

(* The calls that are still to count a view.                               *)
LEMMA ViewsToCount ==
    ASSUME RequestTypes, NEW c \in Calls, NEW x \in AvatarAsk, ask' = [ask EXCEPT ![c] = x]
    PROVE  /\ Cardinality(ToView) \in Nat /\ Cardinality(ToView') \in Nat
           /\ (x.step \in {"find", "view"} => ask[c].step \in {"find", "view"}) =>
                  Cardinality(ToView') <= Cardinality(ToView)
           /\ Cardinality(ToView') <= Cardinality(ToView) + 1
           /\ ask[c].step \in {"find", "view"} /\ x.step \notin {"find", "view"} =>
                  Cardinality(ToView') = Cardinality(ToView) - 1
<1>1. IsFiniteSet(ToView)
    BY FS_Subset, SetsAssumption DEF ToView
<1>2. \A d : d # c => (d \in ToView' <=> d \in ToView)
    BY DEF ToView, RequestTypes
<1>3. (c \in ToView' <=> x.step \in {"find", "view"}) /\ (c \in ToView <=> ask[c].step \in {"find", "view"})
    BY DEF ToView, RequestTypes
<1> HIDE DEF ToView
<1>4. ToView' = ToView => Cardinality(ToView') = Cardinality(ToView)
    OBVIOUS
<1> QED BY <1>1, <1>2, <1>3, <1>4, OneMoves

(* A call that moves alone keeps the invariant.                            *)
LEMMA AskMoved == RequestInv /\ (\E c \in Calls : AskMoves(c)) => RequestInv'
<1> SUFFICES ASSUME RequestInv, NEW c \in Calls, AskMoves(c) PROVE RequestInv'
    OBVIOUS
<1>1. PICK x \in AvatarAsk :
        /\ ask' = [ask EXCEPT ![c] = x]
        /\ x.number <= requests' /\ requests \in 0..requests' /\ requests' \in 0..MaxRequests
        /\ x.step \in {"find", "view"} => ask[c].step \in {"find", "view"} \/ requests' = requests + 1
        /\ ~(x.op = "default" /\ x.step = "set")
        /\ Request!Choosing(c) => crossed'
        /\ crossed' \in BOOLEAN /\ (crossed => crossed') /\ changes' \in 0..MaxChanges
        /\ x.op = "stats" => x.step # "view" /\ (x.step = "find" \/ Counted(c)')
        /\ UNCHANGED <<avatar, chosen, edited, views>>
    BY DEF AskMoves
<1>2. RequestTypes'
    BY <1>1 DEF RequestInv, RequestTypes
<1>3. FieldsKept'
    <2>1. /\ Cardinality(ToView) \in Nat /\ Cardinality(ToView') \in Nat
          /\ (x.step \in {"find", "view"} => ask[c].step \in {"find", "view"}) =>
                 Cardinality(ToView') <= Cardinality(ToView)
          /\ Cardinality(ToView') <= Cardinality(ToView) + 1
        BY <1>1, ViewsToCount DEF RequestInv
    <2>2. ASSUME NEW a \in Avatars
          PROVE  /\ avatar'[a].columns = edited'[a] /\ avatar'[a].viewCount = views'[a]
                 /\ \A f \in Request!Columns : edited'[a][f] <= requests'
                 /\ views'[a] + Cardinality(ToView') <= requests'
        <3>1. views[a] \in Nat /\ edited[a] \in [Request!Columns -> Nat] /\ MaxRequests \in Nat
            BY Bounds DEF RequestInv, RequestTypes
        <3>2. views[a] + Cardinality(ToView') <= requests'
            BY <1>1, <2>1, <3>1 DEF RequestInv, FieldsKept, RequestTypes
        <3> QED BY <1>1, <3>1, <3>2 DEF RequestInv, FieldsKept, RequestTypes
    <2>3. \A d \in Calls : ask'[d].number <= requests'
        BY <1>1, Bounds DEF RequestInv, FieldsKept, RequestTypes, AvatarAsk
    <2> QED BY <2>2, <2>3 DEF FieldsKept
<1>4. DefaultsKept'
    <2>1. \A d \in Calls : Request!Choosing(d)' <=> d # c /\ Request!Choosing(d)
        BY <1>1 DEF Request!Choosing, RequestInv, RequestTypes
    <2>2. ~crossed' => ~crossed /\ \A d \in Calls : Request!Choosing(d)' <=> Request!Choosing(d)
        BY <1>1, <2>1 DEF RequestInv, RequestTypes
    <2> HIDE DEF Request!Choosing
    <2> QED BY <1>1, <2>2 DEF RequestInv, DefaultsKept
<1>5. CountsKept'
    <2>1. AllLive' = AllLive /\ \A s : LiveIn(s)' = LiveIn(s)
        BY <1>1 DEF AllLive, LiveIn
    <2>2. ASSUME NEW d \in Calls, d # c PROVE Counted(d)' /\ (ask'[d].op = "stats" => ask'[d].step # "view")
        <3>1. ask'[d] = ask[d]
            BY <1>1, <2>2 DEF RequestInv, RequestTypes
        <3> QED BY <3>1, <2>1 DEF RequestInv, CountsKept, Counted
    <2>3. Counted(c)' /\ (ask'[c].op = "stats" => ask'[c].step # "view")
        <3>1. ask'[c] = x
            BY <1>1 DEF RequestInv, RequestTypes
        <3> QED BY <3>1, <1>1 DEF Counted
    <2> QED BY <2>2, <2>3 DEF CountsKept
<1> QED BY <1>2, <1>3, <1>4, <1>5 DEF RequestInv

(* A call that ends leaves nothing.                                        *)
LEMMA AskEnds ==
    ASSUME RequestTypes, NEW c \in Calls, Request!Done(c), ~Request!Choosing(c),
           UNCHANGED <<avatar, chosen, crossed, edited, views, requests, changes>>
    PROVE  AskMoves(c)
<1>1. PICK x : x = Request!Idle
    OBVIOUS
<1>2. x \in AvatarAsk /\ x.op = "none" /\ x.step = "idle" /\ x.number = 0
    BY <1>1, AskIdle
<1>3. ask' = [ask EXCEPT ![c] = x]
    BY <1>1 DEF Request!Done
<1>4. requests' \in 0..MaxRequests /\ requests \in 0..requests' /\ x.number <= requests'
    BY <1>2, Bounds DEF RequestTypes
<1>5. crossed' \in BOOLEAN /\ changes' \in 0..MaxChanges
    BY DEF RequestTypes
<1> HIDE DEF Request!Choosing
<1> QED BY <1>2, <1>3, <1>4, <1>5 DEF AskMoves

(* A request comes in.                                                     *)
LEMMA RequestTaken == ASSUME RequestTypes, NEW c \in Calls, Request!Take(c) PROVE AskMoves(c)
<1>0. /\ requests < MaxRequests /\ requests' = requests + 1 /\ ask[c].step = "idle"
      /\ UNCHANGED <<avatar, chosen, crossed, edited, views, changes>>
    BY DEF Request!Take
<1>1. requests' \in Nat /\ requests' \in 0..MaxRequests /\ requests \in 0..requests'
    BY <1>0, Bounds DEF RequestTypes
<1>3. ASSUME NEW x \in AvatarAsk, x.step = "find", x.number = requests', ask' = [ask EXCEPT ![c] = x]
      PROVE  AskMoves(c)
    <2>1. ~Request!Choosing(c)
        BY <1>0 DEF Request!Choosing
    <2>2. crossed' \in BOOLEAN /\ changes' \in 0..MaxChanges
        BY <1>0 DEF RequestTypes
    <2>3. x.number <= requests' /\ (crossed => crossed') /\ x.step # "view"
        BY <1>0, <1>1, <1>3
    <2> QED BY Zenon, <1>0, <1>1, <1>3, <2>1, <2>2, <2>3 DEF AskMoves
<1>6. PICK n \in Nat : n = requests'
    BY <1>1
<1>7. PICK I \in AvatarAsk : I = Request!Idle
    BY AskIdle
<1>4. PICK a \in Avatars :
         \/ \E op \in {"get", "default", "soft", "hard"} :
              ask' = [ask EXCEPT ![c] = [Request!Idle EXCEPT !.op = op, !.on = a, !.step = "find", !.number = requests']]
         \/ \E f \in Request!Columns :
              ask' = [ask EXCEPT ![c] = [Request!Idle EXCEPT !.op = IF f = "name" THEN "update" ELSE "measure",
                         !.on = a, !.step = "find", !.number = requests', !.fields = {f}]]
         \/ ask' = [ask EXCEPT ![c] = [Request!Idle EXCEPT !.op = "stats", !.step = "find", !.number = requests']]
    BY DEF Request!Take
<1>5. PICK x \in AvatarAsk : x.step = "find" /\ x.number = requests' /\ ask' = [ask EXCEPT ![c] = x]
    <2>1. CASE \E op \in {"get", "default", "soft", "hard"} :
              ask' = [ask EXCEPT ![c] = [Request!Idle EXCEPT !.op = op, !.on = a, !.step = "find", !.number = requests']]
        <3>1. PICK op \in {"get", "default", "soft", "hard"} :
                ask' = [ask EXCEPT ![c] = [Request!Idle EXCEPT !.op = op, !.on = a, !.step = "find", !.number = requests']]
            BY <2>1
        <3>2. op \in AskOps
            BY DEF AskOps
        <3>3. PICK x : x = [I EXCEPT !.op = op, !.on = a, !.step = "find", !.number = n]
            OBVIOUS
        <3>4. x \in AvatarAsk /\ x.step = "find" /\ x.number = requests'
            BY <3>2, <3>3, <1>6 DEF AvatarAsk, AskSteps
        <3> QED BY <1>6, <1>7, <3>1, <3>3, <3>4
    <2>2. CASE \E f \in Request!Columns :
              ask' = [ask EXCEPT ![c] = [Request!Idle EXCEPT !.op = IF f = "name" THEN "update" ELSE "measure",
                         !.on = a, !.step = "find", !.number = requests', !.fields = {f}]]
        <3>1. PICK f \in Request!Columns :
                ask' = [ask EXCEPT ![c] = [Request!Idle EXCEPT !.op = IF f = "name" THEN "update" ELSE "measure",
                           !.on = a, !.step = "find", !.number = requests', !.fields = {f}]]
            BY <2>2
        <3>2. PICK op \in AskOps : op = IF f = "name" THEN "update" ELSE "measure"
            BY DEF AskOps
        <3>3. PICK x : x = [I EXCEPT !.op = op, !.on = a, !.step = "find", !.number = n, !.fields = {f}]
            OBVIOUS
        <3>4. x \in AvatarAsk /\ x.step = "find" /\ x.number = requests'
            BY <3>2, <3>3, <1>6 DEF AvatarAsk, AskSteps
        <3> QED BY <1>6, <1>7, <3>1, <3>2, <3>3, <3>4
    <2>3. CASE ask' = [ask EXCEPT ![c] = [Request!Idle EXCEPT !.op = "stats", !.step = "find", !.number = requests']]
        <3>2. "stats" \in AskOps
            BY DEF AskOps
        <3>3. PICK x : x = [I EXCEPT !.op = "stats", !.step = "find", !.number = n]
            OBVIOUS
        <3>4. x \in AvatarAsk /\ x.step = "find" /\ x.number = requests'
            BY <3>2, <3>3, <1>6 DEF AvatarAsk, AskSteps
        <3> QED BY <1>6, <1>7, <2>3, <3>3, <3>4
    <2> QED BY <1>4, <2>1, <2>2, <2>3
<1> QED BY <1>3, <1>5

(* An avatar is looked up.                                                *)
LEMMA RequestFinds ==
    ASSUME RequestInv, NEW c \in Calls, Request!FindAvatar(c) \/ Request!FindExisting(c)
    PROVE  AskMoves(c)
<1>1. ~Request!Choosing(c)
    BY DEF Request!FindAvatar, Request!FindExisting, Request!In, Request!Choosing
<1>2. CASE Request!Done(c)
    BY <1>1, <1>2, AskEnds DEF Request!FindAvatar, Request!FindExisting, RequestInv
<1>3. CASE ~Request!Done(c)
    <2>1. PICK now \in {"existing", "view", "act"} :
            /\ \E s \in Request!Statuses : ask' = [ask EXCEPT ![c] = [ask[c] EXCEPT !.seen = s, !.step = now]]
            /\ now = "view" => ask[c].step \in {"find", "view"}
            /\ ask[c].op # "stats"
        <3>1. CASE Request!FindAvatar(c)
            <4>1. ask' = [ask EXCEPT ![c] = [ask[c] EXCEPT
                            !.seen = avatar[ask[c].on].status,
                            !.step = IF ask[c].op = "measure" THEN "existing" ELSE "view"]]
                BY <3>1, <1>3 DEF Request!FindAvatar, RequestInv, RequestTypes
            <4>2. avatar[ask[c].on].status \in Request!Statuses
                BY DEF RequestInv, RequestTypes, AvatarAsk, AvatarRow
            <4> QED BY <4>1, <4>2, <3>1 DEF Request!FindAvatar
        <3>2. CASE Request!FindExisting(c)
            <4>1. ask' = [ask EXCEPT ![c] = [ask[c] EXCEPT !.seen = ask[c].seen, !.step = "act"]]
                BY <3>2, <1>3 DEF Request!FindExisting, Request!Goto, RequestInv, RequestTypes, AvatarAsk
            <4>2. ask[c].seen \in Request!Statuses
                BY DEF RequestInv, RequestTypes, AvatarAsk
            <4> QED BY <4>1, <4>2, <3>2 DEF Request!FindExisting, Request!In
        <3> QED BY <3>1, <3>2
    <2>2. PICK s \in Request!Statuses : ask' = [ask EXCEPT ![c] = [ask[c] EXCEPT !.seen = s, !.step = now]]
        BY <2>1
    <2>3. PICK x : x = [ask[c] EXCEPT !.seen = s, !.step = now]
        OBVIOUS
    <2>4. x \in AvatarAsk /\ x.step = now /\ x.number = ask[c].number /\ x.op = ask[c].op
        BY <2>3 DEF RequestInv, RequestTypes, AvatarAsk, AskSteps
    <2>5. /\ UNCHANGED <<avatar, chosen, crossed, edited, views, requests, changes>>
          /\ crossed' \in BOOLEAN /\ changes' \in 0..MaxChanges
        BY DEF RequestInv, RequestTypes, Request!FindAvatar, Request!FindExisting
    <2>6. requests' \in 0..MaxRequests /\ requests \in 0..requests' /\ x.number <= requests'
        BY <2>4, <2>5, Bounds DEF RequestInv, FieldsKept, RequestTypes
    <2>7. ask' = [ask EXCEPT ![c] = x]
        BY <2>2, <2>3
    <2> QED BY <2>1, <2>4, <2>5, <2>6, <2>7, <1>1 DEF AskMoves
<1> QED BY <1>2, <1>3

(* The live avatars are those of the four statuses.                        *)
LEMMA LiveCounts ==
    ASSUME RequestTypes
    PROVE  /\ Cardinality(AllLive) \in Nat
           /\ \A s : Cardinality(LiveIn(s)) \in Nat
           /\ Cardinality(AllLive) = Cardinality(LiveIn("ready")) + Cardinality(LiveIn("processing"))
                  + Cardinality(LiveIn("error")) + Cardinality(LiveIn("pending"))
           /\ Request!Cardinality({a \in Avatars : Request!Live(a)}) = Cardinality(AllLive)
           /\ \A s : Request!With(s) = Cardinality(LiveIn(s))
<1>1. IsFiniteSet(AllLive) /\ \A s : IsFiniteSet(LiveIn(s))
    BY FS_Subset, SetsAssumption DEF AllLive, LiveIn
<1>2. Cardinality(AllLive) \in Nat /\ \A s : Cardinality(LiveIn(s)) \in Nat
    BY <1>1, FS_CardinalityType
<1>3. AllLive = ((LiveIn("ready") \cup LiveIn("processing")) \cup LiveIn("error")) \cup LiveIn("pending")
    BY DEF AllLive, LiveIn, RequestTypes, AvatarRow, Request!Statuses
<1>4. \A s, t : s # t => \A a \in LiveIn(s) : a \notin LiveIn(t)
    BY DEF LiveIn
<1> HIDE DEF LiveIn
<1>5. /\ IsFiniteSet(LiveIn("ready") \cup LiveIn("processing"))
      /\ Cardinality(LiveIn("ready") \cup LiveIn("processing"))
             = Cardinality(LiveIn("ready")) + Cardinality(LiveIn("processing"))
    BY <1>1, <1>4, CountsAdd
<1>6. PICK RP : RP = LiveIn("ready") \cup LiveIn("processing")
    OBVIOUS
<1>7. PICK RPE : RPE = RP \cup LiveIn("error")
    OBVIOUS
<1>10. IsFiniteSet(RPE) /\ Cardinality(RPE) = Cardinality(RP) + Cardinality(LiveIn("error"))
    BY <1>1, <1>4, <1>5, <1>6, <1>7, CountsAdd
<1>11. Cardinality(RPE \cup LiveIn("pending")) = Cardinality(RPE) + Cardinality(LiveIn("pending"))
    BY <1>1, <1>4, <1>10, <1>6, <1>7, CountsAdd
<1>8. \A s : Request!With(s) = Cardinality(LiveIn(s))
    BY CountsAlike DEF Request!With, LiveIn, Request!Live
<1>9. Request!Cardinality({a \in Avatars : Request!Live(a)}) = Cardinality(AllLive)
    BY CountsAlike DEF AllLive, Request!Live
<1> QED BY <1>2, <1>3, <1>5, <1>6, <1>7, <1>8, <1>9, <1>10, <1>11

(* The calls of the statistics count one status after the other.           *)
LEMMA RequestCounts ==
    ASSUME RequestInv, NEW c \in Calls, Request!CountTotal(c) \/ Request!CountStatus(c)
    PROVE  AskMoves(c)
<1>0. /\ UNCHANGED <<avatar, chosen, crossed, edited, views, requests, changes>>
      /\ crossed' \in BOOLEAN /\ changes' \in 0..MaxChanges /\ RequestTypes
    BY DEF RequestInv, RequestTypes, Request!CountTotal, Request!CountStatus
<1>1. ~Request!Choosing(c) /\ ask[c].op = "stats" /\ ask[c] \in AvatarAsk
    BY DEF Request!CountTotal, Request!CountStatus, Request!In, Request!Choosing, RequestInv, RequestTypes
<1>2. /\ AllLive' = AllLive /\ \A s : LiveIn(s)' = LiveIn(s)
    BY <1>0 DEF AllLive, LiveIn
<1>3. ASSUME NEW x \in AvatarAsk, ask' = [ask EXCEPT ![c] = x], x.number = ask[c].number, x.op = "stats",
             x.step \in {"ready", "processing", "error", "act"}, Counted(c)'
      PROVE  AskMoves(c)
    <2>1. requests' \in 0..MaxRequests /\ requests \in 0..requests' /\ x.number <= requests'
        BY <1>0, <1>3, Bounds DEF RequestInv, FieldsKept, RequestTypes
    <2> HIDE DEF Request!Choosing
    <2> QED BY <1>0, <1>1, <1>3, <2>1 DEF AskMoves
<1>4. CASE Request!CountTotal(c)
    <2>1. PICK n \in Nat : n = Cardinality(AllLive)
        BY <1>0, LiveCounts
    <2>2. Request!Cardinality({a \in Avatars : Request!Live(a)}) = n
        BY <1>0, <2>1, LiveCounts
    <2>3. ask[c].step = "find"
          /\ ask' = [ask EXCEPT ![c].count.pending = n, ![c].step = "ready"]
        BY <2>2, <1>4 DEF Request!CountTotal, Request!In
    <2>9. PICK k : k = [ask[c].count EXCEPT !["pending"] = n]
        OBVIOUS
    <2>10. k \in [Request!Statuses -> Int] /\ k["pending"] = n
        BY <1>1, <2>1, <2>9 DEF AvatarAsk, Request!Statuses
    <2>4. PICK x : x = [ask[c] EXCEPT !.count = k, !.step = "ready"]
        OBVIOUS
    <2>5. /\ x \in AvatarAsk /\ x.number = ask[c].number /\ x.op = "stats" /\ x.step = "ready"
          /\ x.count["pending"] = n
        BY <1>1, <2>4, <2>10 DEF AvatarAsk, AskSteps
    <2>6. ask' = [ask EXCEPT ![c] = x]
        BY <1>0, <1>1, <2>3, <2>4, <2>9 DEF RequestTypes, AvatarAsk
    <2>7. ask'[c] = x
        BY <1>0, <2>6 DEF RequestTypes
    <2>8. Counted(c)'
        BY <1>2, <2>1, <2>5, <2>7 DEF Counted
    <2> QED BY <1>3, <2>5, <2>6, <2>8
<1>5. CASE Request!CountStatus(c)
    <2>0. PICK s \in {"ready", "processing", "error"} : ask[c].step = s
        BY <1>5 DEF Request!CountStatus
    <2>1. PICK n \in Nat : n = Cardinality(LiveIn(s))
        BY <1>0, LiveCounts
    <2>2. Request!With(s) = n
        BY <1>0, <2>1, LiveCounts
    <2>9. PICK now \in {"processing", "error", "act"} :
             now = CASE s = "ready" -> "processing" [] s = "processing" -> "error" [] OTHER -> "act"
        BY <2>0
    <2>3. ask' = [ask EXCEPT ![c].count = [ask[c].count EXCEPT ![s] = n, !.pending = @ - n], ![c].step = now]
        BY <2>0, <2>2, <2>9, <1>5 DEF Request!CountStatus
    <2>10. ask[c].count \in [Request!Statuses -> Int] /\ s \in Request!Statuses /\ "pending" \in Request!Statuses
           /\ ask[c].count["pending"] \in Int /\ s # "pending"
        BY <1>1, <2>0 DEF AvatarAsk, Request!Statuses
    <2>11. PICK k : k = [ask[c].count EXCEPT ![s] = n, !["pending"] = ask[c].count["pending"] - n]
        OBVIOUS
    <2>12. /\ k \in [Request!Statuses -> Int] /\ k[s] = n /\ k["pending"] = ask[c].count["pending"] - n
           /\ \A t \in Request!Statuses : t \notin {s, "pending"} => k[t] = ask[c].count[t]
        BY <2>1, <2>10, <2>11
    <2>4. PICK x : x = [ask[c] EXCEPT !.count = k, !.step = now]
        OBVIOUS
    <2>5. /\ x \in AvatarAsk /\ x.number = ask[c].number /\ x.op = "stats" /\ x.step = now
          /\ x.count = k /\ x.still = ask[c].still
        BY <1>1, <2>4, <2>12, <2>9 DEF AvatarAsk, AskSteps
    <2>6. ask' = [ask EXCEPT ![c] = x]
        <3>1. ask \in [Calls -> AvatarAsk]
            BY <1>0 DEF RequestTypes
        <3>2. [ask[c].count EXCEPT ![s] = n, !.pending = @ - n] = k
            BY <2>10, <2>11
        <3>3. ask' = [ask EXCEPT ![c].count = k, ![c].step = now]
            BY <2>3, <3>2
        <3> QED BY <3>1, <3>3, <2>4, <1>1 DEF AvatarAsk
    <2>7. ask'[c] = x
        BY <1>0, <2>6 DEF RequestTypes
    <2>13. Counted(c) /\ \A t : Cardinality(LiveIn(t)) \in Nat
        BY <1>0, LiveCounts DEF RequestInv, CountsKept
    <2>14. Cardinality(AllLive) \in Nat
        BY <1>0, LiveCounts
    <2>15. "ready" \in Request!Statuses /\ "processing" \in Request!Statuses /\ "error" \in Request!Statuses
        BY DEF Request!Statuses
    <2>16. AllLive' = AllLive /\ \A t : LiveIn(t)' = LiveIn(t)
        BY <1>2
    <2> HIDE DEF LiveIn, AllLive
    <2>8. Counted(c)'
        <3>1. CASE s = "ready"
            BY <1>1, <2>0, <2>1, <2>5, <2>7, <2>9, <2>12, <2>13, <2>14, <2>15, <2>16, <3>1 DEF Counted
        <3>2. CASE s = "processing"
            BY <1>1, <2>0, <2>1, <2>5, <2>7, <2>9, <2>12, <2>13, <2>14, <2>15, <2>16, <3>2 DEF Counted
        <3>3. CASE s = "error"
            BY <1>1, <2>0, <2>1, <2>5, <2>7, <2>9, <2>12, <2>13, <2>14, <2>15, <2>16, <3>3 DEF Counted
        <3> QED BY <3>1, <3>2, <3>3
    <2> QED BY <1>3, <2>5, <2>6, <2>8, <2>9
<1> QED BY <1>4, <1>5

(* A call that ends before its answer, and an answer.                      *)
LEMMA RequestStops ==
    ASSUME RequestInv, NEW c \in Calls, Request!AnswerStats(c) \/ Request!CallFails(c)
    PROVE  AskMoves(c)
<1>1. CASE Request!AnswerStats(c)
    <2>1. ~Request!Choosing(c) /\ Request!Done(c)
          /\ UNCHANGED <<avatar, chosen, crossed, edited, views, requests, changes>>
        BY <1>1 DEF Request!AnswerStats, Request!In, Request!Choosing
    <2> QED BY <2>1, AskEnds DEF RequestInv
<1>2. CASE Request!CallFails(c)
    <2>1. PICK x : x = Request!Idle
        OBVIOUS
    <2>2. x \in AvatarAsk /\ x.op = "none" /\ x.step = "idle" /\ x.number = 0
        BY <2>1, AskIdle
    <2>3. ask' = [ask EXCEPT ![c] = x]
        BY <2>1, <1>2 DEF Request!CallFails, Request!Done
    <2>4. /\ UNCHANGED <<avatar, chosen, edited, views, requests>>
          /\ crossed' = (crossed \/ Request!Choosing(c)) /\ changes < MaxChanges /\ changes' = changes + 1
        BY <1>2 DEF Request!CallFails
    <2>5. requests' \in 0..MaxRequests /\ requests \in 0..requests' /\ x.number <= requests'
        BY <2>2, <2>4, Bounds DEF RequestInv, RequestTypes
    <2>6. changes' \in 0..MaxChanges
        BY <2>4, Bounds DEF RequestInv, RequestTypes
    <2> HIDE DEF Request!Choosing
    <2>7. crossed' \in BOOLEAN
        BY Zenon, <2>4
    <2> QED BY <2>2, <2>3, <2>4, <2>5, <2>6, <2>7 DEF AskMoves
<1> QED BY <1>1, <1>2

(* What a call does beside the choice of a default leaves the choice.      *)
LEMMA DefaultsStay ==
    ASSUME RequestTypes, DefaultsKept, NEW c \in Calls, NEW x \in AvatarAsk,
           ask' = [ask EXCEPT ![c] = x], ~Request!Choosing(c), ~(x.op = "default" /\ x.step = "set"),
           \A a \in Avatars : /\ avatar'[a].isDefault <=> avatar[a].isDefault
                              /\ avatar'[a].row = "gone" <=> avatar[a].row = "gone",
           UNCHANGED <<chosen, crossed>>
    PROVE  DefaultsKept'
<1>1. \A d \in Calls : Request!Choosing(d)' <=> Request!Choosing(d)
    BY DEF Request!Choosing, RequestTypes
<1> HIDE DEF Request!Choosing
<1>2. \A a \in Avatars : avatar'[a].isDefault => avatar'[a].row # "gone"
    BY DEF DefaultsKept
<1>3. ASSUME ~crossed'
      PROVE  /\ \A d, e \in Calls : Request!Choosing(d)' /\ Request!Choosing(e)' => d = e
             /\ \A a \in Avatars : avatar'[a].isDefault =>
                    a \in chosen' /\ \A d \in Calls : ~Request!Choosing(d)'
             /\ (\A d \in Calls : ~Request!Choosing(d)') =>
                    \A a \in chosen' : avatar'[a].row # "gone" => avatar'[a].isDefault
    <2>1. ~crossed /\ chosen' = chosen /\ chosen \subseteq Avatars
        BY <1>3 DEF RequestTypes
    <2>2. \A d, e \in Calls : Request!Choosing(d)' /\ Request!Choosing(e)' => d = e
        BY <1>1, <2>1 DEF DefaultsKept
    <2>3. \A a \in Avatars : avatar'[a].isDefault => a \in chosen' /\ \A d \in Calls : ~Request!Choosing(d)'
        BY <1>1, <2>1 DEF DefaultsKept
    <2>4. ASSUME \A d \in Calls : ~Request!Choosing(d)', NEW a \in chosen', avatar'[a].row # "gone"
          PROVE  avatar'[a].isDefault
        BY <1>1, <2>1, <2>4 DEF DefaultsKept
    <2> QED BY <2>2, <2>3, <2>4
<1> QED BY <1>2, <1>3 DEF DefaultsKept

(* What leaves the rows and the statuses leaves what was counted.          *)
LEMMA CountsStay ==
    ASSUME RequestTypes, CountsKept, NEW c \in Calls, NEW x \in AvatarAsk,
           ask' = [ask EXCEPT ![c] = x], x.op # "stats",
           \A a \in Avatars : avatar'[a].row = avatar[a].row /\ avatar'[a].status = avatar[a].status
    PROVE  CountsKept'
<1>1. AllLive' = AllLive /\ \A s : LiveIn(s)' = LiveIn(s)
    BY DEF AllLive, LiveIn
<1>2. \A d \in Calls : d # c => ask'[d] = ask[d]
    BY DEF RequestTypes
<1>3. ask'[c] = x
    BY DEF RequestTypes
<1> HIDE DEF AllLive, LiveIn
<1>4. ASSUME NEW d \in Calls, d # c PROVE Counted(d)' /\ (ask'[d].op = "stats" => ask'[d].step # "view")
    BY <1>1, <1>2, <1>4 DEF CountsKept, Counted
<1>5. Counted(c)' /\ ask'[c].op # "stats"
    BY <1>3 DEF Counted
<1> QED BY <1>4, <1>5 DEF CountsKept

(* A view is counted once, by the request that comes to count it.          *)
LEMMA RequestViews ==
    ASSUME RequestInv, NEW c \in Calls, Request!IncrementViewCount(c)
    PROVE  RequestInv'
<1>0. /\ RequestTypes /\ FieldsKept /\ DefaultsKept /\ CountsKept
      /\ ask[c].step = "view" /\ ask[c].op # "stats" /\ ask[c] \in AvatarAsk
      /\ UNCHANGED <<chosen, crossed, edited, requests, changes>>
    BY DEF RequestInv, RequestTypes, CountsKept, Request!IncrementViewCount
<1>1. PICK x \in AvatarAsk : /\ ask' = [ask EXCEPT ![c] = x] /\ x.number <= requests
                             /\ x.step \in {"idle", "act"} /\ x.op # "stats"
    <2>1. CASE Request!Done(c)
        <3>1. PICK x : x = Request!Idle
            OBVIOUS
        <3>2. x \in AvatarAsk /\ x.op = "none" /\ x.step = "idle" /\ x.number = 0
            BY <3>1, AskIdle
        <3>3. x.number <= requests
            BY <1>0, <3>2, Bounds DEF RequestTypes
        <3> QED BY <2>1, <3>1, <3>2, <3>3 DEF Request!Done
    <2>2. CASE Request!Goto(c, "act")
        <3>1. PICK x : x = [ask[c] EXCEPT !.step = "act"]
            OBVIOUS
        <3>2. x \in AvatarAsk /\ x.op = ask[c].op /\ x.step = "act" /\ x.number = ask[c].number
            BY <1>0, <3>1 DEF AvatarAsk, AskSteps
        <3>3. x.number <= requests
            BY <1>0, <3>2 DEF FieldsKept
        <3>4. ask' = [ask EXCEPT ![c] = x]
            BY <1>0, <2>2, <3>1 DEF Request!Goto, RequestTypes
        <3> QED BY <1>0, <3>2, <3>3, <3>4
    <2> QED BY <2>1, <2>2 DEF Request!IncrementViewCount
<1>2. PICK a \in Avatars : a = ask[c].on
    BY <1>0 DEF AvatarAsk
<1>3. PICK n \in Nat : n = IF avatar[a].row = "gone" THEN views[a] ELSE views[a] + 1
    BY <1>0 DEF RequestTypes
<1>4. PICK r : r = [avatar[a] EXCEPT !.viewCount = n]
    OBVIOUS
<1>5. /\ r \in AvatarRow /\ r.row = avatar[a].row /\ r.isDefault = avatar[a].isDefault
      /\ r.status = avatar[a].status /\ r.viewCount = n /\ r.columns = avatar[a].columns
    BY <1>0, <1>4 DEF RequestTypes, AvatarRow
<1>6. avatar' = [avatar EXCEPT ![a] = r] /\ views' = [views EXCEPT ![a] = n]
    <2>1. avatar[a].viewCount = views[a] /\ avatar[a] \in AvatarRow
        BY <1>0 DEF FieldsKept, RequestTypes
    <2>2. avatar' = [avatar EXCEPT ![a].viewCount = n]
        BY <1>2, <1>3, <2>1 DEF Request!IncrementViewCount
    <2>3. views' = [views EXCEPT ![a] = n]
        BY <1>2, <1>3 DEF Request!IncrementViewCount
    <2> QED BY <1>0, <1>4, <2>1, <2>2, <2>3 DEF RequestTypes, AvatarRow
<1>7. RequestTypes'
    BY <1>0, <1>1, <1>5, <1>6 DEF RequestTypes
<1>8. FieldsKept'
    <2>1. /\ Cardinality(ToView) \in Nat /\ Cardinality(ToView') \in Nat
          /\ Cardinality(ToView') = Cardinality(ToView) - 1
        BY <1>0, <1>1, ViewsToCount
    <2>2. requests \in Nat /\ views[a] \in Nat /\ n <= views[a] + 1
        BY <1>0, <1>3, Bounds DEF RequestTypes
    <2>3. ASSUME NEW b \in Avatars
          PROVE  /\ avatar'[b].columns = edited'[b] /\ avatar'[b].viewCount = views'[b]
                 /\ \A f \in Request!Columns : edited'[b][f] <= requests'
                 /\ views'[b] + Cardinality(ToView') <= requests'
        <3>1. CASE b = a
            BY <1>0, <1>5, <1>6, <2>1, <2>2, <3>1 DEF RequestTypes, FieldsKept
        <3>2. CASE b # a
            <4>1. avatar'[b] = avatar[b] /\ views'[b] = views[b] /\ views[b] \in Nat
                BY <1>0, <1>6, <3>2 DEF RequestTypes
            <4> QED BY <1>0, <2>1, <2>2, <4>1 DEF FieldsKept
        <3> QED BY <3>1, <3>2
    <2>4. \A d \in Calls : ask'[d].number <= requests'
        BY <1>0, <1>1 DEF RequestTypes, FieldsKept
    <2> QED BY <2>3, <2>4 DEF FieldsKept
<1>9. \A b \in Avatars : /\ avatar'[b].isDefault <=> avatar[b].isDefault
                         /\ avatar'[b].row = avatar[b].row /\ avatar'[b].status = avatar[b].status
    BY <1>0, <1>5, <1>6 DEF RequestTypes
<1>10. DefaultsKept'
    <2>1. ~Request!Choosing(c)
        BY <1>0 DEF Request!Choosing
    <2> HIDE DEF Request!Choosing
    <2> QED BY <1>0, <1>1, <1>9, <2>1, DefaultsStay
<1>11. CountsKept'
    BY <1>0, <1>1, <1>9, CountsStay
<1> QED BY <1>7, <1>8, <1>10, <1>11 DEF RequestInv

(* An update writes the fields it was given, with its own number.          *)
LEMMA RequestWrites ==
    ASSUME RequestInv, NEW c \in Calls, Request!UpdateAvatar(c) \/ Request!UpdateMeasurements(c)
    PROVE  RequestInv'
<1>0. /\ RequestTypes /\ FieldsKept /\ DefaultsKept /\ CountsKept
      /\ ask[c].step = "act" /\ ask[c].op \in {"update", "measure"} /\ ask[c] \in AvatarAsk
      /\ UNCHANGED <<chosen, crossed, views, requests, changes>> /\ Request!Done(c)
    BY DEF RequestInv, RequestTypes, Request!UpdateAvatar, Request!UpdateMeasurements, Request!In
<1>1. PICK x : x = Request!Idle
    OBVIOUS
<1>2. x \in AvatarAsk /\ x.op = "none" /\ x.step = "idle" /\ x.number = 0 /\ ask' = [ask EXCEPT ![c] = x]
    BY <1>0, <1>1, AskIdle DEF Request!Done
<1>3. PICK a \in Avatars : a = ask[c].on
    BY <1>0 DEF AvatarAsk
<1>4. PICK g \in [Request!Columns -> Nat] :
         /\ avatar' = [avatar EXCEPT ![a].columns = g] /\ edited' = [edited EXCEPT ![a] = g]
         /\ \A f \in Request!Columns : g[f] <= requests
    <2>1. avatar[a].columns = edited[a] /\ avatar[a] \in AvatarRow /\ edited[a] \in [Request!Columns -> Nat]
        BY <1>0 DEF FieldsKept, RequestTypes
    <2>2. CASE avatar[a].row = "gone"
        <3>1. avatar' = avatar /\ edited' = edited
            BY <1>3, <2>2 DEF Request!UpdateAvatar, Request!UpdateMeasurements
        <3>2. avatar' = [avatar EXCEPT ![a].columns = edited[a]]
            BY <1>0, <2>1, <3>1 DEF RequestTypes, AvatarRow
        <3>3. edited' = [edited EXCEPT ![a] = edited[a]]
            BY <1>0, <3>1 DEF RequestTypes
        <3>4. \A f \in Request!Columns : edited[a][f] <= requests
            BY <1>0 DEF FieldsKept
        <3> QED BY <2>1, <3>2, <3>3, <3>4
    <2>3. CASE avatar[a].row # "gone"
        <3>1. PICK g : g = [f \in Request!Columns |-> IF f \in ask[c].fields THEN ask[c].number ELSE edited[a][f]]
            OBVIOUS
        <3>2. ask[c].number \in Nat /\ ask[c].number <= requests
            BY <1>0 DEF AvatarAsk, FieldsKept
        <3>3. g \in [Request!Columns -> Nat] /\ \A f \in Request!Columns : g[f] <= requests
            BY <1>0, <2>1, <3>1, <3>2 DEF FieldsKept
        <3>4. avatar' = [avatar EXCEPT ![a].columns = g] /\ edited' = [edited EXCEPT ![a] = g]
            BY <1>3, <2>1, <2>3, <3>1 DEF Request!UpdateAvatar, Request!UpdateMeasurements
        <3> QED BY <3>3, <3>4
    <2> QED BY <2>2, <2>3
<1>5. PICK r : r = [avatar[a] EXCEPT !.columns = g]
    OBVIOUS
<1>6. /\ r \in AvatarRow /\ r.row = avatar[a].row /\ r.isDefault = avatar[a].isDefault
      /\ r.status = avatar[a].status /\ r.viewCount = avatar[a].viewCount /\ r.columns = g
    BY <1>0, <1>5 DEF RequestTypes, AvatarRow
<1>7. avatar' = [avatar EXCEPT ![a] = r]
    BY <1>0, <1>4, <1>5 DEF RequestTypes, AvatarRow
<1>8. RequestTypes'
    BY <1>0, <1>2, <1>4, <1>6, <1>7 DEF RequestTypes
<1>9. FieldsKept'
    <2>1. /\ Cardinality(ToView) \in Nat /\ Cardinality(ToView') \in Nat
          /\ Cardinality(ToView') <= Cardinality(ToView)
        BY <1>0, <1>2, ViewsToCount
    <2>2. requests \in Nat
        BY <1>0, Bounds DEF RequestTypes
    <2>3. ASSUME NEW b \in Avatars
          PROVE  /\ avatar'[b].columns = edited'[b] /\ avatar'[b].viewCount = views'[b]
                 /\ \A f \in Request!Columns : edited'[b][f] <= requests'
                 /\ views'[b] + Cardinality(ToView') <= requests'
        <3>1. avatar'[b].columns = edited'[b] /\ avatar'[b].viewCount = views'[b]
              /\ \A f \in Request!Columns : edited'[b][f] <= requests'
            BY <1>0, <1>4, <1>6, <1>7 DEF RequestTypes, FieldsKept
        <3>2. views'[b] = views[b] /\ views[b] \in Nat
            BY <1>0 DEF RequestTypes
        <3> QED BY <1>0, <2>1, <2>2, <3>1, <3>2 DEF FieldsKept
    <2>4. \A d \in Calls : ask'[d].number <= requests'
        BY <1>0, <1>2, <2>2 DEF RequestTypes, FieldsKept
    <2> QED BY <2>3, <2>4 DEF FieldsKept
<1>10. \A b \in Avatars : /\ avatar'[b].isDefault <=> avatar[b].isDefault
                          /\ avatar'[b].row = avatar[b].row /\ avatar'[b].status = avatar[b].status
    BY <1>0, <1>6, <1>7 DEF RequestTypes
<1>11. DefaultsKept'
    <2>1. ~Request!Choosing(c)
        BY <1>0 DEF Request!Choosing
    <2> HIDE DEF Request!Choosing
    <2> QED BY <1>0, <1>2, <1>10, <2>1, DefaultsStay
<1>12. CountsKept'
    BY <1>0, <1>2, <1>10, CountsStay
<1> QED BY <1>8, <1>9, <1>11, <1>12 DEF RequestInv

(* A change of a status or a deletion unsettles what is being counted.     *)
LEMMA AllUnsettled ==
    ASSUME RequestTypes
    PROVE  /\ Request!Unsettled \in [Calls -> AvatarAsk]
           /\ \A d \in Calls : /\ Request!Unsettled[d].op = ask[d].op
                               /\ Request!Unsettled[d].step = ask[d].step
                               /\ Request!Unsettled[d].number = ask[d].number
                               /\ Request!Unsettled[d].still = FALSE
<1>1. ASSUME NEW d \in Calls
      PROVE  /\ Request!Unsettled[d] \in AvatarAsk
             /\ Request!Unsettled[d].op = ask[d].op
             /\ Request!Unsettled[d].step = ask[d].step
             /\ Request!Unsettled[d].number = ask[d].number
             /\ Request!Unsettled[d].still = FALSE
    <2>1. PICK u : u = [ask[d] EXCEPT !.still = FALSE]
        OBVIOUS
    <2>2. Request!Unsettled[d] = u /\ ask[d] \in AvatarAsk
        BY <2>1 DEF Request!Unsettled, RequestTypes
    <2>3. /\ u \in AvatarAsk /\ u.op = ask[d].op /\ u.step = ask[d].step
          /\ u.number = ask[d].number /\ u.still = FALSE
        BY <2>1, <2>2 DEF AvatarAsk
    <2> QED BY <2>2, <2>3
<1>2. Request!Unsettled = [d \in Calls |-> Request!Unsettled[d]]
    BY DEF Request!Unsettled
<1> QED BY <1>1, <1>2

(* A deletion takes the default along when it takes the row.               *)
LEMMA RequestDeletes ==
    ASSUME RequestInv, NEW c \in Calls, Request!SoftDelete(c) \/ Request!HardDelete(c)
    PROVE  RequestInv'
<1>0. /\ RequestTypes /\ FieldsKept /\ DefaultsKept /\ CountsKept
      /\ ask[c].step = "act" /\ ask[c].op \in {"soft", "hard"} /\ ask[c] \in AvatarAsk
      /\ UNCHANGED <<chosen, crossed, edited, views, requests, changes>> /\ Request!DoneUnsettling(c)
    BY DEF RequestInv, RequestTypes, Request!SoftDelete, Request!HardDelete, Request!In
<1>1. PICK x : x = Request!Idle
    OBVIOUS
<1>2. x \in AvatarAsk /\ x.op = "none" /\ x.step = "idle" /\ x.number = 0
    BY <1>1, AskIdle
<1>3. ask' \in [Calls -> AvatarAsk] /\ ask'[c] = x
      /\ \A d \in Calls : d # c => /\ ask'[d].op = ask[d].op /\ ask'[d].step = ask[d].step
                                   /\ ask'[d].number = ask[d].number /\ ask'[d].still = FALSE
    <2>1. PICK U : U = Request!Unsettled
        OBVIOUS
    <2>2. U \in [Calls -> AvatarAsk]
          /\ \A d \in Calls : /\ U[d].op = ask[d].op /\ U[d].step = ask[d].step
                              /\ U[d].number = ask[d].number /\ U[d].still = FALSE
        BY <1>0, <2>1, AllUnsettled
    <2>3. ask' = [U EXCEPT ![c] = x]
        BY <1>0, <1>1, <2>1 DEF Request!DoneUnsettling
    <2> QED BY <1>2, <2>2, <2>3
<1>4. PICK a \in Avatars : a = ask[c].on
    BY <1>0 DEF AvatarAsk
<1>5. PICK r \in AvatarRow :
         /\ avatar' = [avatar EXCEPT ![a] = r]
         /\ r.columns = avatar[a].columns /\ r.viewCount = avatar[a].viewCount
         /\ r.row = "gone" => ~r.isDefault
         /\ r.row # "gone" => avatar[a].row # "gone" /\ r.isDefault = avatar[a].isDefault
    <2>1. avatar[a] \in AvatarRow /\ avatar \in [Avatars -> AvatarRow]
        BY <1>0 DEF RequestTypes
    <2>2. CASE Request!SoftDelete(c)
        <3>1. PICK s \in RowStates : s = IF avatar[a].row = "live" THEN "deleted" ELSE avatar[a].row
            BY <2>1 DEF AvatarRow, RowStates
        <3>2. PICK r : r = [avatar[a] EXCEPT !.row = s]
            OBVIOUS
        <3>3. avatar' = [avatar EXCEPT ![a] = r]
            BY <1>4, <2>1, <2>2, <3>1, <3>2 DEF Request!SoftDelete, AvatarRow
        <3>4. /\ r \in AvatarRow /\ r.columns = avatar[a].columns /\ r.viewCount = avatar[a].viewCount
              /\ r.row = s /\ r.isDefault = avatar[a].isDefault
            BY <2>1, <3>2 DEF AvatarRow
        <3>5. avatar[a].row = "gone" => ~avatar[a].isDefault
            BY <1>0 DEF DefaultsKept
        <3>6. r.row = "gone" <=> avatar[a].row = "gone"
            BY <3>1, <3>4
        <3> QED BY <3>3, <3>4, <3>5, <3>6
    <2>3. CASE Request!HardDelete(c)
        <3>1. PICK r : r = [avatar[a] EXCEPT !.row = "gone", !.isDefault = FALSE]
            OBVIOUS
        <3>2. avatar' = [avatar EXCEPT ![a] = r]
            BY <1>4, <2>1, <2>3, <3>1 DEF Request!HardDelete, AvatarRow
        <3>3. /\ r \in AvatarRow /\ r.columns = avatar[a].columns /\ r.viewCount = avatar[a].viewCount
              /\ r.row = "gone" /\ r.isDefault = FALSE
            BY <2>1, <3>1 DEF AvatarRow, RowStates
        <3> QED BY <3>2, <3>3
    <2> QED BY <2>2, <2>3
<1>6. RequestTypes'
    BY <1>0, <1>3, <1>5 DEF RequestTypes
<1>7. FieldsKept'
    <2>1. ToView' = ToView
        BY <1>0, <1>2, <1>3 DEF ToView
    <2>2. ASSUME NEW b \in Avatars
          PROVE  /\ avatar'[b].columns = edited'[b] /\ avatar'[b].viewCount = views'[b]
                 /\ \A f \in Request!Columns : edited'[b][f] <= requests'
                 /\ views'[b] + Cardinality(ToView') <= requests'
        <3>1. avatar'[b].columns = avatar[b].columns /\ avatar'[b].viewCount = avatar[b].viewCount
            BY <1>0, <1>5 DEF RequestTypes
        <3> QED BY <1>0, <2>1, <3>1 DEF FieldsKept
    <2>3. \A d \in Calls : ask'[d].number <= requests'
        BY <1>0, <1>2, <1>3, Bounds DEF RequestTypes, FieldsKept
    <2> QED BY <2>2, <2>3 DEF FieldsKept
<1>8. DefaultsKept'
    <2>1. \A d \in Calls : Request!Choosing(d)' <=> Request!Choosing(d)
        BY <1>0, <1>2, <1>3 DEF Request!Choosing
    <2>2. \A b \in Avatars : avatar'[b].row # "gone" =>
              avatar[b].row # "gone" /\ avatar'[b].isDefault = avatar[b].isDefault
        BY <1>0, <1>5 DEF RequestTypes
    <2>3. \A b \in Avatars : avatar'[b].isDefault => avatar'[b].row # "gone"
        <3>1. \A b \in Avatars : b # a => avatar'[b] = avatar[b]
            BY <1>0, <1>5 DEF RequestTypes
        <3>2. avatar'[a] = r
            BY <1>0, <1>5 DEF RequestTypes
        <3> QED BY <1>0, <1>5, <3>1, <3>2 DEF DefaultsKept
    <2>4. chosen \subseteq Avatars
        BY <1>0 DEF RequestTypes
    <2> HIDE DEF Request!Choosing
    <2>5. ASSUME ~crossed'
          PROVE  /\ \A d, e \in Calls : Request!Choosing(d)' /\ Request!Choosing(e)' => d = e
                 /\ \A b \in Avatars : avatar'[b].isDefault =>
                        b \in chosen' /\ \A d \in Calls : ~Request!Choosing(d)'
                 /\ (\A d \in Calls : ~Request!Choosing(d)') =>
                        \A b \in chosen' : avatar'[b].row # "gone" => avatar'[b].isDefault
        BY <1>0, <2>1, <2>2, <2>3, <2>4, <2>5 DEF DefaultsKept
    <2> QED BY <2>3, <2>5 DEF DefaultsKept
<1>9. CountsKept'
    <2>1. ASSUME NEW d \in Calls PROVE Counted(d)' /\ (ask'[d].op = "stats" => ask'[d].step # "view")
        <3>1. CASE d = c
            BY <1>2, <1>3, <3>1 DEF Counted
        <3>2. CASE d # c
            BY <1>0, <1>3, <3>2 DEF Counted, CountsKept
        <3> QED BY <3>1, <3>2
    <2> QED BY <2>1 DEF CountsKept
<1> QED BY <1>6, <1>7, <1>8, <1>9 DEF RequestInv

(* The processing of an avatar moves its status.                           *)
LEMMA RequestProcesses ==
    ASSUME RequestInv, Request!Process
    PROVE  RequestInv'
<1>0. /\ RequestTypes /\ FieldsKept /\ DefaultsKept /\ CountsKept
      /\ UNCHANGED <<chosen, crossed, edited, views, requests>> /\ changes < MaxChanges /\ changes' = changes + 1
    BY DEF RequestInv, Request!Process
<1>3. ask' \in [Calls -> AvatarAsk]
      /\ \A d \in Calls : /\ ask'[d].op = ask[d].op /\ ask'[d].step = ask[d].step
                          /\ ask'[d].number = ask[d].number /\ ask'[d].still = FALSE
    BY <1>0, AllUnsettled DEF Request!Process
<1>4. PICK a \in Avatars : \E s \in Request!Statuses : avatar' = [avatar EXCEPT ![a].status = s]
    BY DEF Request!Process, Request!Statuses
<1>5. PICK r \in AvatarRow :
         /\ avatar' = [avatar EXCEPT ![a] = r]
         /\ r.columns = avatar[a].columns /\ r.viewCount = avatar[a].viewCount
         /\ r.row = avatar[a].row /\ r.isDefault = avatar[a].isDefault
    <2>1. avatar[a] \in AvatarRow /\ avatar \in [Avatars -> AvatarRow]
        BY <1>0 DEF RequestTypes
    <2>2. PICK s \in Request!Statuses : avatar' = [avatar EXCEPT ![a].status = s]
        BY <1>4
    <2>3. PICK r : r = [avatar[a] EXCEPT !.status = s]
        OBVIOUS
    <2>4. /\ r \in AvatarRow /\ r.columns = avatar[a].columns /\ r.viewCount = avatar[a].viewCount
          /\ r.row = avatar[a].row /\ r.isDefault = avatar[a].isDefault
        BY <2>1, <2>2, <2>3 DEF AvatarRow
    <2>5. avatar' = [avatar EXCEPT ![a] = r]
        BY <2>1, <2>2, <2>3 DEF AvatarRow
    <2> QED BY <2>4, <2>5
<1>6. RequestTypes'
    BY <1>0, <1>3, <1>5, Bounds DEF RequestTypes
<1>7. \A b \in Avatars : /\ avatar'[b].columns = avatar[b].columns /\ avatar'[b].viewCount = avatar[b].viewCount
                         /\ avatar'[b].row = avatar[b].row /\ avatar'[b].isDefault = avatar[b].isDefault
    BY <1>0, <1>5 DEF RequestTypes
<1>8. FieldsKept'
    <2>1. ToView' = ToView
        BY <1>3 DEF ToView
    <2> QED BY <1>0, <1>3, <1>7, <2>1 DEF FieldsKept
<1>9. DefaultsKept'
    <2>1. \A d \in Calls : Request!Choosing(d)' <=> Request!Choosing(d)
        BY <1>3 DEF Request!Choosing
    <2>2. chosen \subseteq Avatars
        BY <1>0 DEF RequestTypes
    <2> HIDE DEF Request!Choosing
    <2> QED BY <1>0, <1>7, <2>1, <2>2 DEF DefaultsKept
<1>10. CountsKept'
    BY <1>0, <1>3 DEF CountsKept, Counted
<1> QED BY <1>6, <1>8, <1>9, <1>10 DEF RequestInv

(* A choice unsets the defaults, then sets its own.                        *)
LEMMA RequestChooses ==
    ASSUME RequestInv, NEW c \in Calls, Request!UnsetDefaults(c) \/ Request!SetDefault(c)
    PROVE  RequestInv'
<1>0. /\ RequestTypes /\ FieldsKept /\ DefaultsKept /\ CountsKept
      /\ ask[c].op = "default" /\ ask[c].step \in {"act", "set"} /\ ask[c] \in AvatarAsk
      /\ UNCHANGED <<edited, views, requests, changes>>
    BY DEF RequestInv, RequestTypes, Request!UnsetDefaults, Request!SetDefault, Request!In
<1>1. PICK x \in AvatarAsk : /\ ask' = [ask EXCEPT ![c] = x] /\ x.number <= requests /\ x.op # "stats"
                             /\ x.step \in {"idle", "set"}
                             /\ Request!UnsetDefaults(c) => x.op = "default" /\ x.step = "set"
                             /\ Request!SetDefault(c) => x.step = "idle"
    <2>1. CASE Request!SetDefault(c)
        <3>1. PICK x : x = Request!Idle
            OBVIOUS
        <3>2. x \in AvatarAsk /\ x.op = "none" /\ x.step = "idle" /\ x.number = 0
            BY <3>1, AskIdle
        <3>3. x.number <= requests
            BY <1>0, <3>2, Bounds DEF RequestTypes
        <3>4. ask' = [ask EXCEPT ![c] = x] /\ ask[c].step = "set"
            BY <2>1, <3>1 DEF Request!SetDefault, Request!Done, Request!In
        <3>5. ~Request!UnsetDefaults(c)
            BY <3>4 DEF Request!UnsetDefaults, Request!In
        <3> HIDE DEF Request!UnsetDefaults, Request!SetDefault
        <3> QED BY <3>2, <3>3, <3>4, <3>5
    <2>2. CASE Request!UnsetDefaults(c)
        <3>1. PICK x : x = [ask[c] EXCEPT !.step = "set"]
            OBVIOUS
        <3>2. x \in AvatarAsk /\ x.op = ask[c].op /\ x.step = "set" /\ x.number = ask[c].number
            BY <1>0, <3>1 DEF AvatarAsk, AskSteps
        <3>3. x.number <= requests
            BY <1>0, <3>2 DEF FieldsKept
        <3>4. ask' = [ask EXCEPT ![c] = x] /\ ask[c].step = "act"
            BY <1>0, <2>2, <3>1 DEF Request!UnsetDefaults, Request!Goto, RequestTypes, Request!In
        <3>5. ~Request!SetDefault(c)
            BY <3>4 DEF Request!SetDefault, Request!In
        <3> HIDE DEF Request!UnsetDefaults, Request!SetDefault
        <3> QED BY <1>0, <3>2, <3>3, <3>4, <3>5
    <2> QED BY <2>1, <2>2
<1>2. PICK a \in Avatars : a = ask[c].on
    BY <1>0 DEF AvatarAsk
<1>3. /\ avatar' \in [Avatars -> AvatarRow]
      /\ \A b \in Avatars : /\ avatar'[b].columns = avatar[b].columns /\ avatar'[b].viewCount = avatar[b].viewCount
                            /\ avatar'[b].row = avatar[b].row /\ avatar'[b].status = avatar[b].status
      /\ Request!UnsetDefaults(c) => \A b \in Avatars : avatar'[b].isDefault = FALSE
      /\ Request!SetDefault(c) => \A b \in Avatars :
             avatar'[b].isDefault = IF b = a THEN avatar[b].row # "gone" ELSE avatar[b].isDefault
    <2>0. avatar \in [Avatars -> AvatarRow]
        BY <1>0 DEF RequestTypes
    <2>1. CASE Request!UnsetDefaults(c)
        <3>1. avatar' = [b \in Avatars |-> [avatar[b] EXCEPT !.isDefault = FALSE]] /\ ~Request!SetDefault(c)
            BY <2>1 DEF Request!UnsetDefaults, Request!SetDefault, Request!In
        <3>2. ASSUME NEW b \in Avatars
              PROVE  /\ avatar'[b] \in AvatarRow
                     /\ avatar'[b].columns = avatar[b].columns /\ avatar'[b].viewCount = avatar[b].viewCount
                     /\ avatar'[b].row = avatar[b].row /\ avatar'[b].status = avatar[b].status
                     /\ avatar'[b].isDefault = FALSE
            <4>1. PICK r : r = [avatar[b] EXCEPT !.isDefault = FALSE]
                OBVIOUS
            <4>2. avatar'[b] = r
                BY <3>1, <4>1
            <4> QED BY <2>0, <4>1, <4>2 DEF AvatarRow
        <3> HIDE DEF Request!UnsetDefaults, Request!SetDefault
        <3> QED BY <3>1, <3>2
    <2>2. CASE Request!SetDefault(c)
        <3>1. PICK v \in BOOLEAN : v = (avatar[a].row # "gone")
            OBVIOUS
        <3>2. avatar' = [avatar EXCEPT ![a].isDefault = v] /\ ~Request!UnsetDefaults(c)
            BY <1>2, <2>2, <3>1 DEF Request!UnsetDefaults, Request!SetDefault, Request!In
        <3>3. PICK r : r = [avatar[a] EXCEPT !.isDefault = v]
            OBVIOUS
        <3>4. /\ r \in AvatarRow /\ r.columns = avatar[a].columns /\ r.viewCount = avatar[a].viewCount
              /\ r.row = avatar[a].row /\ r.status = avatar[a].status /\ r.isDefault = v
            BY <2>0, <3>3 DEF AvatarRow
        <3>5. avatar' = [avatar EXCEPT ![a] = r]
            BY <2>0, <3>2, <3>3 DEF AvatarRow
        <3>6. avatar'[a] = r /\ \A b \in Avatars : b # a => avatar'[b] = avatar[b]
            BY <2>0, <3>5
        <3>7. avatar' \in [Avatars -> AvatarRow]
            BY <2>0, <3>4, <3>5
        <3> HIDE DEF Request!UnsetDefaults, Request!SetDefault
        <3> QED BY <3>1, <3>2, <3>4, <3>6, <3>7
    <2> QED BY <2>1, <2>2
<1>4. RequestTypes'
    <2>1. chosen' \subseteq Avatars
        BY <1>0, <1>2 DEF RequestTypes, Request!UnsetDefaults, Request!SetDefault
    <2>2. crossed' \in BOOLEAN
        <3>1. (crossed' = (crossed \/ \E d \in Calls : Request!Choosing(d))) \/ crossed' = crossed
            BY DEF Request!UnsetDefaults, Request!SetDefault
        <3> HIDE DEF Request!Choosing
        <3> QED BY Zenon, <1>0, <3>1 DEF RequestTypes
    <2> QED BY <1>0, <1>1, <1>3, <2>1, <2>2 DEF RequestTypes
<1>5. FieldsKept'
    <2>1. /\ Cardinality(ToView) \in Nat /\ Cardinality(ToView') \in Nat
          /\ Cardinality(ToView') <= Cardinality(ToView)
        BY <1>0, <1>1, ViewsToCount
    <2>2. requests \in Nat
        BY <1>0, Bounds DEF RequestTypes
    <2>3. ASSUME NEW b \in Avatars
          PROVE  /\ avatar'[b].columns = edited'[b] /\ avatar'[b].viewCount = views'[b]
                 /\ \A f \in Request!Columns : edited'[b][f] <= requests'
                 /\ views'[b] + Cardinality(ToView') <= requests'
        <3>1. views[b] \in Nat
            BY <1>0 DEF RequestTypes
        <3> QED BY <1>0, <1>3, <2>1, <2>2, <3>1 DEF FieldsKept
    <2>4. \A d \in Calls : ask'[d].number <= requests'
        BY <1>0, <1>1, <2>2 DEF RequestTypes, FieldsKept
    <2> QED BY <2>3, <2>4 DEF FieldsKept
<1>6. DefaultsKept'
    <2>1. \A d \in Calls : d # c => (Request!Choosing(d)' <=> Request!Choosing(d))
        BY <1>0, <1>1 DEF Request!Choosing, RequestTypes
    <2>2. CASE Request!UnsetDefaults(c)
        <3>1. Request!Choosing(c)'
            BY <1>0, <1>1, <2>2 DEF Request!Choosing, RequestTypes
        <3>2. crossed' = (crossed \/ \E d \in Calls : Request!Choosing(d)) /\ chosen' = chosen
            BY <2>2 DEF Request!UnsetDefaults
        <3>3. \A b \in Avatars : avatar'[b].isDefault = FALSE
            BY <1>3, <2>2
        <3> HIDE DEF Request!Choosing
        <3> QED BY <2>1, <3>1, <3>2, <3>3 DEF DefaultsKept
    <2>3. CASE Request!SetDefault(c)
        <3>1. Request!Choosing(c) /\ ~Request!Choosing(c)'
            BY <1>0, <1>1, <2>3 DEF Request!Choosing, RequestTypes, Request!SetDefault, Request!In
        <3>2. crossed' = crossed /\ chosen' = {a}
            BY <2>3, <1>2 DEF Request!SetDefault
        <3>3. \A b \in Avatars : /\ avatar'[b].row = avatar[b].row
                                 /\ avatar'[b].isDefault = IF b = a THEN avatar[b].row # "gone" ELSE avatar[b].isDefault
            BY <1>3, <2>3
        <3>4. \A b \in Avatars : avatar'[b].isDefault => avatar'[b].row # "gone"
            BY <1>0, <3>3 DEF DefaultsKept
        <3> HIDE DEF Request!Choosing
        <3>5. ASSUME ~crossed'
              PROVE  /\ \A d, e \in Calls : Request!Choosing(d)' /\ Request!Choosing(e)' => d = e
                     /\ \A b \in Avatars : avatar'[b].isDefault =>
                            b \in chosen' /\ \A d \in Calls : ~Request!Choosing(d)'
                     /\ (\A d \in Calls : ~Request!Choosing(d)') =>
                            \A b \in chosen' : avatar'[b].row # "gone" => avatar'[b].isDefault
            <4>1. \A d \in Calls : ~Request!Choosing(d)'
                BY <1>0, <2>1, <3>1, <3>2, <3>5 DEF DefaultsKept
            <4>2. \A b \in Avatars : ~avatar[b].isDefault
                BY <1>0, <3>1, <3>2, <3>5 DEF DefaultsKept
            <4>3. \A b \in Avatars : avatar'[b].isDefault => b = a
                BY <3>3, <4>2
            <4>4. avatar'[a].row # "gone" => avatar'[a].isDefault
                BY <3>3
            <4> QED BY <3>2, <4>1, <4>3, <4>4
        <3> QED BY <3>4, <3>5 DEF DefaultsKept
    <2> QED BY <2>2, <2>3
<1>7. CountsKept'
    BY <1>0, <1>1, <1>3, CountsStay
<1> QED BY <1>4, <1>5, <1>6, <1>7 DEF RequestInv

(* Nothing was asked yet.                                                  *)
LEMMA RequestInit == Request!Init => RequestInv
<1> SUFFICES ASSUME Request!Init PROVE RequestInv
    OBVIOUS
<1>1. PICK I \in AvatarAsk : I = Request!Idle /\ I.op = "none" /\ I.step = "idle" /\ I.number = 0
    BY AskIdle
<1>2. ask = [c \in Calls |-> I]
    BY <1>1 DEF Request!Init
<1>3. PICK k \in [Request!Columns -> Nat] : k = [f \in Request!Columns |-> 0]
    OBVIOUS
<1>4. PICK r : r = [row |-> "live", isDefault |-> FALSE, status |-> "error", viewCount |-> 0, columns |-> k]
    OBVIOUS
<1>5. r \in AvatarRow /\ r.isDefault = FALSE /\ r.row = "live" /\ r.columns = k /\ r.viewCount = 0
    BY <1>4 DEF AvatarRow, RowStates, Request!Statuses
<1>6. avatar = [a \in Avatars |-> r] /\ edited = [a \in Avatars |-> k]
    BY <1>3, <1>4 DEF Request!Init
<1>7. chosen = {} /\ crossed = FALSE /\ views = [a \in Avatars |-> 0] /\ requests = 0 /\ changes = 0
    BY DEF Request!Init
<1>8. RequestTypes
    <2>1. ask \in [Calls -> AvatarAsk] /\ avatar \in [Avatars -> AvatarRow]
          /\ edited \in [Avatars -> [Request!Columns -> Nat]]
        BY <1>1, <1>2, <1>3, <1>5, <1>6
    <2>2. views \in [Avatars -> Nat] /\ requests \in 0..MaxRequests /\ changes \in 0..MaxChanges
        BY <1>7, Bounds
    <2> QED BY <1>7, <2>1, <2>2 DEF RequestTypes
<1>9. FieldsKept
    <2>1. ToView = {}
        BY <1>1, <1>2 DEF ToView
    <2>2. Cardinality(ToView) = 0
        BY <2>1, FS_EmptySet
    <2>3. \A f \in Request!Columns : k[f] = 0
        BY <1>3
    <2> QED BY <1>1, <1>2, <1>5, <1>6, <1>7, <2>2, <2>3 DEF FieldsKept
<1>10. DefaultsKept
    BY <1>1, <1>2, <1>5, <1>6, <1>7 DEF DefaultsKept, Request!Choosing
<1>11. CountsKept
    BY <1>1, <1>2 DEF CountsKept, Counted
<1> QED BY <1>8, <1>9, <1>10, <1>11 DEF RequestInv

(* The other parts leave the requests alone.                               *)
LEMMA RequestRests == RequestInv /\ UNCHANGED requestVars => RequestInv'
<1> SUFFICES ASSUME RequestInv, UNCHANGED requestVars PROVE RequestInv'
    OBVIOUS
<1>1. UNCHANGED <<avatar, ask, chosen, crossed, edited, views, requests, changes>>
    BY DEF requestVars
<1>2. RequestTypes'
    BY <1>1 DEF RequestInv, RequestTypes
<1>3. FieldsKept'
    <2>1. ToView' = ToView
        BY <1>1 DEF ToView
    <2> QED BY <1>1, <2>1 DEF RequestInv, FieldsKept
<1>4. DefaultsKept'
    <2>1. \A d \in Calls : Request!Choosing(d)' <=> Request!Choosing(d)
        BY <1>1 DEF Request!Choosing
    <2> HIDE DEF Request!Choosing
    <2> QED BY <1>1, <2>1 DEF RequestInv, DefaultsKept
<1>5. CountsKept'
    <2>1. AllLive' = AllLive /\ \A s : LiveIn(s)' = LiveIn(s)
        BY <1>1 DEF AllLive, LiveIn
    <2> HIDE DEF AllLive, LiveIn
    <2> QED BY <1>1, <2>1 DEF RequestInv, CountsKept, Counted
<1> QED BY <1>2, <1>3, <1>4, <1>5 DEF RequestInv

(* What the invariant says of the defaults, the fields and the statistics. *)
LEMMA RequestKeeps ==
    RequestInv => Request!TypeOK /\ Request!DefaultIsChosen /\ Request!NoFieldLost /\ Request!StatsAddUp
<1> SUFFICES ASSUME RequestInv
             PROVE  Request!TypeOK /\ Request!DefaultIsChosen /\ Request!NoFieldLost /\ Request!StatsAddUp
    OBVIOUS
<1>0. RequestTypes /\ FieldsKept /\ DefaultsKept /\ CountsKept
    BY DEF RequestInv
<1>1. Request!NoFieldLost
    BY <1>0 DEF FieldsKept, Request!NoFieldLost
<1>2. Request!DefaultIsChosen
    <2> SUFFICES ASSUME ~crossed, \A c \in Calls : ~Request!Choosing(c)
                 PROVE  {a \in Avatars : avatar[a].isDefault} = {a \in chosen : avatar[a].row # "gone"}
        BY DEF Request!DefaultIsChosen
    <2> HIDE DEF Request!Choosing
    <2> QED BY <1>0 DEF DefaultsKept, RequestTypes
<1>3. Request!StatsAddUp
    <2> SUFFICES ASSUME NEW c \in Calls, ask[c].op = "stats", ask[c].step = "act", ask[c].still,
                        NEW s \in Request!Statuses
                 PROVE  ask[c].count[s] = Request!With(s)
        BY DEF Request!StatsAddUp, Request!In
    <2>1. Request!With(s) = Cardinality(LiveIn(s))
        BY <1>0, LiveCounts
    <2>2. Counted(c)
        BY <1>0 DEF CountsKept
    <2>3. /\ Cardinality(LiveIn("ready")) \in Nat /\ Cardinality(LiveIn("processing")) \in Nat
          /\ Cardinality(LiveIn("error")) \in Nat /\ Cardinality(LiveIn("pending")) \in Nat
          /\ Cardinality(AllLive) = Cardinality(LiveIn("ready")) + Cardinality(LiveIn("processing"))
                 + Cardinality(LiveIn("error")) + Cardinality(LiveIn("pending"))
        BY <1>0, LiveCounts
    <2> HIDE DEF LiveIn, AllLive
    <2>4. ask[c].count[s] = Cardinality(LiveIn(s))
        <3>1. /\ ask[c].count["ready"] = Cardinality(LiveIn("ready"))
              /\ ask[c].count["processing"] = Cardinality(LiveIn("processing"))
              /\ ask[c].count["error"] = Cardinality(LiveIn("error"))
              /\ ask[c].count["pending"] = Cardinality(LiveIn("pending"))
            BY <2>2, <2>3 DEF Counted
        <3> QED BY <3>1 DEF Request!Statuses
    <2> QED BY <2>1, <2>4
<1>4. Request!TypeOK
    <2>1. ASSUME NEW a \in Avatars
          PROVE  /\ avatar[a].row \in {"live", "deleted", "gone"} /\ avatar[a].isDefault \in BOOLEAN
                 /\ avatar[a].status \in Request!Statuses /\ avatar[a].viewCount \in 0..MaxRequests
                 /\ avatar[a].columns \in [Request!Columns -> 0..MaxRequests]
        <3>1. avatar[a] \in AvatarRow /\ avatar[a].columns = edited[a] /\ avatar[a].viewCount = views[a]
              /\ views[a] + Cardinality(ToView) <= requests
              /\ \A f \in Request!Columns : edited[a][f] <= requests
            BY <1>0 DEF RequestTypes, FieldsKept
        <3>2. Cardinality(ToView) \in Nat
            BY SetsAssumption, FS_Subset, FS_CardinalityType DEF ToView
        <3>3. views[a] \in Nat /\ requests \in 0..MaxRequests /\ MaxRequests \in Nat
            BY <1>0, Bounds DEF RequestTypes
        <3>4. avatar[a].viewCount \in 0..MaxRequests
            BY <3>1, <3>2, <3>3
        <3>5. edited[a] \in [Request!Columns -> 0..MaxRequests]
            BY <1>0, <3>1, <3>3 DEF RequestTypes
        <3> QED BY <3>1, <3>4, <3>5 DEF AvatarRow, RowStates
    <2>2. \A c \in Calls : ask[c].step \in AskSteps
        BY <1>0 DEF RequestTypes, AvatarAsk
    <2> QED BY <1>0, <2>1, <2>2 DEF Request!TypeOK, RequestTypes, AskSteps
<1> QED BY <1>1, <1>2, <1>3, <1>4

(* Every step keeps the invariant.                                         *)
LEMMA RequestNext == RequestInv /\ [Next]_vars => RequestInv'
<1> SUFFICES ASSUME RequestInv, [Next]_vars PROVE RequestInv'
    OBVIOUS
<1>1. CASE UNCHANGED requestVars
    BY <1>1, RequestRests
<1>2. ASSUME NEW c \in Calls,
             \/ Request!Take(c) \/ Request!FindAvatar(c) \/ Request!FindExisting(c)
             \/ Request!CountTotal(c) \/ Request!CountStatus(c) \/ Request!AnswerStats(c)
             \/ Request!CallFails(c)
      PROVE  RequestInv'
    <2>1. RequestTypes
        BY DEF RequestInv
    <2>2. AskMoves(c)
        BY Zenon, <1>2, <2>1, RequestTaken, RequestFinds, RequestCounts, RequestStops
    <2> QED BY Zenon, <2>2, AskMoved
<1>3. ASSUME NEW c \in Calls,
             \/ Request!IncrementViewCount(c) \/ Request!UpdateAvatar(c) \/ Request!UpdateMeasurements(c)
             \/ Request!SoftDelete(c) \/ Request!HardDelete(c) \/ Request!UnsetDefaults(c)
             \/ Request!SetDefault(c)
      PROVE  RequestInv'
    BY Zenon, <1>3, RequestViews, RequestWrites, RequestDeletes, RequestChooses
<1>4. CASE Request!Process
    BY Zenon, <1>4, RequestProcesses
<1> QED BY Zenon, <1>1, <1>2, <1>3, <1>4, RequestMoves

(* Avatars keep what their requests wrote: the default is the one chosen   *)
(* last unless choices crossed, no field and no view is lost, and the      *)
(* statistics of a moment add up.                                          *)
THEOREM RequestsKept ==
    Spec => [](Request!TypeOK /\ Request!DefaultIsChosen /\ Request!NoFieldLost /\ Request!StatsAddUp)
<1>1. Init => RequestInv
    <2>1. Init => Request!Init
        BY Zenon DEF Init
    <2> QED BY Zenon, <2>1, RequestInit
<1> QED BY <1>1, RequestNext, RequestKeeps, PTL DEF Spec

-----------------------------------------------------------------------------
(***************************************************************************)
(* Auto-save.                                                              *)
(***************************************************************************)
USE DEF Saves!designVars, Saves!timerVars, Saves!docVars
SaveSteps == {"idle", "read", "latest", "create", "list", "delete"}
SaveDoc == [id : Nat, number : Nat, holds : Nat]
SaveRun == [step : SaveSteps, by : SUBSET Saves!Timers, read : Nat, number : Nat, old : SUBSET SaveDoc]

SaveTypes ==
    /\ content \in Nat /\ reached \in 0..content /\ overlapped \in BOOLEAN
    /\ written \in Nat /\ expired \in 0..written
    /\ docs \subseteq SaveDoc
    /\ run \in [Runs -> SaveRun]

(* The last autosave written is there until it is too old, and no other    *)
(* has its id.                                                             *)
LastThere ==
    /\ docs = {} <=> written = expired
    /\ docs # {} => \E d \in docs : d.id = written
    /\ \A d \in docs : d.id \in expired + 1..written /\ d.holds <= content
    /\ \A d, e \in docs : d.id = e.id => d = e

(* No cleanup has it on its list.                                          *)
ListsOld == \A r \in Runs : Saves!In(r, "delete") => \A d \in run[r].old : d.id < written

(* Saves that never overlapped are alone, and write no less than there is. *)
ReadsPast == \A r \in Runs : run[r].read <= content
Alone ==
    ~overlapped => \A r \in Runs : ~Saves!In(r, "idle") =>
        /\ \A q \in Runs \ {r} : Saves!In(q, "idle")
        /\ run[r].step \in {"latest", "create"} => reached <= run[r].read

SaveInv == SaveTypes /\ LastThere /\ ListsOld /\ ReadsPast /\ Alone

recovered == IF docs = {} THEN [id |-> 0, holds |-> 0]
          ELSE [id |-> Saves!Latest.id, holds |-> Saves!Latest.holds]

-----------------------------------------------------------------------------
(* Latest is the last autosave written.                                    *)
LEMMA LatestIsLast ==
    ASSUME SaveTypes, LastThere, docs # {}
    PROVE  Saves!Latest \in docs /\ Saves!Latest.id = written
<1>1. PICK d \in docs : d.id = written
  BY DEF LastThere
<1>2. \A e \in docs : e.id <= d.id
  BY <1>1 DEF LastThere, SaveTypes, SaveDoc
<1>3. Saves!Latest \in docs /\ \A e \in docs : e.id <= Saves!Latest.id
  BY <1>1, <1>2 DEF Saves!Latest
<1>4. Saves!Latest.id = written
  BY <1>1, <1>3 DEF LastThere, SaveTypes, SaveDoc
<1>5. QED
  BY <1>3, <1>4

(* A list of those that have enough newer ones leaves out the last.        *)
LEMMA NewerExists ==
    ASSUME NEW d \in docs, Saves!Cardinality(Saves!Newer(d)) >= Keep
    PROVE  \E e \in docs : e.id > d.id
<1>1. CASE Saves!Newer(d) = {}
  <2>1. Saves!Cardinality(Saves!Newer(d)) = 0
    BY <1>1, FS_EmptySet, CountsAlike
  <2>2. QED
    BY <2>1, Limits
<1>2. CASE Saves!Newer(d) # {}
  BY <1>2 DEF Saves!Newer
<1>3. QED
  BY <1>1, <1>2

-----------------------------------------------------------------------------
(* A step that only moves saves: one that is alone before stays alone.     *)
LEMMA SaveEnds ==
    ASSUME SaveInv, NEW r \in Runs, run' = [run EXCEPT ![r] = Saves!Resting],
           UNCHANGED <<content, docs, written, expired, reached, overlapped>>
    PROVE  SaveInv'
<1>1. Saves!Resting \in SaveRun
  BY DEF Saves!Resting, SaveRun, SaveSteps, SaveDoc, Saves!Timers
<1>2. SaveTypes' /\ LastThere'
  BY <1>1 DEF SaveInv, SaveTypes, LastThere
<1>3. ListsOld' /\ ReadsPast'
  BY DEF SaveInv, SaveTypes, ListsOld, ReadsPast, Saves!In, Saves!Resting, SaveRun
<1>4. Alone'
  BY DEF SaveInv, SaveTypes, Alone, Saves!In, Saves!Resting, SaveRun
<1>5. QED
  BY <1>2, <1>3, <1>4 DEF SaveInv

(* A save that starts while another goes on makes the saves overlap.       *)
LEMMA SaveStarts ==
    ASSUME SaveInv, NEW r \in Runs, NEW x \in SaveRun, x.step = "read", x.read = 0,
           Saves!In(r, "idle"), run' = [run EXCEPT ![r] = x],
           overlapped' = Saves!Overlaps, UNCHANGED <<content, docs, written, expired, reached>>
    PROVE  SaveInv'
<1>2. overlapped' \in BOOLEAN
  BY DEF SaveInv, SaveTypes, Saves!Overlaps
<1>3. SaveTypes' /\ LastThere'
  BY <1>2 DEF SaveInv, SaveTypes, LastThere
<1>4. ListsOld' /\ ReadsPast'
  BY DEF SaveInv, SaveTypes, ListsOld, ReadsPast, Saves!In, SaveRun
<1>5. Alone'
  BY DEF SaveInv, SaveTypes, Alone, Saves!In, SaveRun, Saves!Overlaps
<1>6. QED
  BY <1>3, <1>4, <1>5 DEF SaveInv

(* The autosave recovered stays what it is while none is added or removed. *)
LEMMA SameRecovered ==
    ASSUME docs' = docs
    PROVE  recovered' = recovered
BY DEF recovered, Saves!Latest

(* While there are autosaves, the one recovered is the last written.       *)
LEMMA WhatIsRecovered ==
    ASSUME SaveTypes, LastThere
    PROVE  /\ recovered.id = IF docs = {} THEN 0 ELSE written
           /\ docs # {} => \E d \in docs : d.id = written /\ recovered.holds = d.holds
           /\ docs = {} => recovered.holds = 0
           /\ recovered = [id |-> recovered.id, holds |-> recovered.holds]
<1>1. CASE docs = {}
  BY <1>1 DEF recovered, LastThere
<1>2. CASE docs # {}
  BY <1>2, LatestIsLast DEF recovered
<1>3. QED
  BY <1>1, <1>2

-----------------------------------------------------------------------------
(* The next query of a save.                                               *)
LEMMA SaveReads ==
    ASSUME SaveInv, NEW r \in Runs, Saves!ReadState(r) \/ Saves!ReadLatest(r)
    PROVE  SaveInv'
<1>1. CASE Saves!ReadState(r) /\ Saves!EndRun(r)
  BY <1>1, SaveEnds DEF Saves!ReadState, Saves!EndRun
<1>4. CASE Saves!ReadState(r) /\ run' = [run EXCEPT ![r].step = "latest", ![r].read = content]
  <2> USE <1>4 DEF Saves!ReadState
  <2> DEFINE x == [run[r] EXCEPT !.step = "latest", !.read = content]
  <2>1. x \in SaveRun /\ run' = [run EXCEPT ![r] = x]
    BY DEF SaveInv, SaveTypes, SaveRun, SaveSteps
  <2>5. SaveTypes' /\ LastThere'
    BY <2>1 DEF SaveInv, SaveTypes, LastThere
  <2>2. ListsOld' /\ ReadsPast'
    BY DEF SaveInv, SaveTypes, ListsOld, ReadsPast, Saves!In, SaveRun
  <2>3. Alone'
    BY DEF SaveInv, SaveTypes, LastThere, Alone, Saves!In, SaveRun
  <2>4. QED
    BY <2>5, <2>2, <2>3 DEF SaveInv
<1>2. CASE Saves!ReadLatest(r)
  <2>0. PICK n : n = IF docs = {} THEN 1 ELSE Saves!Latest.number + 1
    OBVIOUS
  <2>1. n \in Nat
    BY <2>0, LatestIsLast DEF SaveInv, SaveTypes, SaveDoc
  <2>7. PICK x : x = [run[r] EXCEPT !.step = "create", !.number = n]
    OBVIOUS
  <2>8. /\ run' = [run EXCEPT ![r].step = "create", ![r].number = n] /\ run[r].step = "latest"
        /\ UNCHANGED <<content, docs, written, expired, reached, overlapped>>
    BY <1>2, <2>0 DEF Saves!ReadLatest, Saves!In
  <2>6. /\ x \in SaveRun /\ x.step = "create" /\ x.read = run[r].read /\ x.old = run[r].old
        /\ run' = [run EXCEPT ![r] = x]
    BY <2>1, <2>7, <2>8 DEF SaveInv, SaveTypes, SaveRun, SaveSteps
  <2>2. SaveTypes' /\ LastThere'
    BY <2>6, <2>8 DEF SaveInv, SaveTypes, LastThere
  <2>3. ListsOld' /\ ReadsPast'
    BY <2>6, <2>8 DEF SaveInv, SaveTypes, ListsOld, ReadsPast, Saves!In
  <2>4. Alone'
    BY <2>6, <2>8 DEF SaveInv, SaveTypes, Alone, Saves!In
  <2>5. QED
    BY <2>2, <2>3, <2>4 DEF SaveInv
<1>3. QED
  BY <1>1, <1>2, <1>4 DEF Saves!ReadState

(* A new autosave is the last one.                                         *)
LEMMA SaveWrites ==
    ASSUME SaveInv, NEW r \in Runs, Saves!CreateAutosave(r)
    PROVE  SaveInv' /\ Saves!Recovered!Save
<1> DEFINE new == [id |-> written + 1, number |-> run[r].number, holds |-> run[r].read]
<1> USE DEF Saves!CreateAutosave
<1>1. new \in SaveDoc /\ written + 1 \in Nat /\ run[r].read \in 0..content
  BY DEF SaveInv, SaveTypes, SaveDoc, SaveRun, ReadsPast
<1>2. SaveTypes'
  BY <1>1 DEF SaveInv, SaveTypes, SaveRun, SaveSteps
<1>3. LastThere'
  <2>1. \A d \in docs : d.id # written + 1 /\ d.id \in expired + 1..(written + 1)
    BY DEF SaveInv, SaveTypes, LastThere
  <2>2. docs' = docs \cup {new} /\ written' = written + 1 /\ new.id = written + 1 /\ expired' = expired
    OBVIOUS
  <2>3. \A d \in docs' : d.id \in expired' + 1..written' /\ d.holds <= content'
    BY <1>1, <2>1, <2>2 DEF SaveInv, SaveTypes, LastThere
  <2>4. \A d, e \in docs' : d.id = e.id => d = e
    BY <2>1, <2>2 DEF SaveInv, LastThere
  <2>7. written' # expired'
    BY <2>2 DEF SaveInv, SaveTypes
  <2>5. docs' # {} /\ written' # expired' /\ \E d \in docs' : d.id = written'
    <3>1. new \in docs' /\ new.id = written'
      BY <2>2
    <3>2. QED
      BY <3>1, <2>7
  <2>6. QED
    BY <2>3, <2>4, <2>5 DEF LastThere
<1>4. ListsOld' /\ ReadsPast'
  BY <1>1 DEF SaveInv, SaveTypes, ListsOld, ReadsPast, Saves!In, SaveRun, SaveDoc
<1>5. Alone'
  BY <1>1 DEF SaveInv, SaveTypes, Alone, Saves!In, SaveRun
<1>6. overlapped \/ run[r].read >= reached
  BY <1>1 DEF SaveInv, SaveTypes, Alone, Saves!In, SaveRun
<1>7. recovered' = [id |-> written + 1, holds |-> run[r].read]
  <2>1. docs' = docs \cup {new} /\ \A d \in docs : d.id < new.id
    BY DEF SaveInv, SaveTypes, LastThere
  <2>2. \A e \in docs' : e.id <= new.id
    BY <1>1, <2>1 DEF SaveInv, SaveTypes, SaveDoc
  <2>3. ASSUME NEW d \in docs', \A e \in docs' : e.id <= d.id
        PROVE  d = new
    <3>1. new.id <= d.id
      BY <2>1, <2>3
    <3>2. d \in docs => d.id \in Nat /\ d.id < new.id /\ new.id \in Nat
      BY <1>1, <2>1 DEF SaveInv, SaveTypes, SaveDoc
    <3>3. d \notin docs
      BY <3>1, <3>2
    <3>4. QED
      BY <2>1, <3>3
  <2>4. Saves!Latest' = new
    BY <2>1, <2>2, <2>3 DEF Saves!Latest
  <2>5. QED
    BY <2>1, <2>4 DEF recovered
<1>8. Saves!Recovered!Save
  BY <1>1, <1>6, <1>7 DEF Saves!Recovered!Save, recovered
<1>9. QED
  BY <1>2, <1>3, <1>4, <1>5, <1>8 DEF SaveInv

(* A cleanup lists only autosaves that have a newer one.                   *)
LEMMA SaveLists ==
    ASSUME SaveInv, NEW r \in Runs, Saves!ListOldAutosaves(r)
    PROVE  SaveInv'
<1>0. PICK old : old = {d \in docs : Saves!Cardinality(Saves!Newer(d)) >= Keep}
  OBVIOUS
<1>8. /\ run' = [run EXCEPT ![r].step = "delete", ![r].old = old]
      /\ UNCHANGED <<content, docs, written, expired, reached, overlapped>> /\ run[r].step = "list"
  BY <1>0 DEF Saves!ListOldAutosaves, Saves!In
<1>9. PICK x : x = [run[r] EXCEPT !.step = "delete", !.old = old]
  OBVIOUS
<1>1. /\ x \in SaveRun /\ run' = [run EXCEPT ![r] = x] /\ x.old = old /\ x.step = "delete"
      /\ x.read = run[r].read
  <2>1. old \subseteq SaveDoc
    BY <1>0 DEF SaveInv, SaveTypes
  <2>2. QED
    BY <1>8, <1>9, <2>1 DEF SaveInv, SaveTypes, SaveRun, SaveSteps
<1>2. SaveTypes' /\ LastThere'
  BY <1>1, <1>8 DEF SaveInv, SaveTypes, LastThere
<1>3. \A d \in old : d.id < written
  <2>1. ASSUME NEW d \in old
        PROVE  d.id < written
    <3>1. PICK e \in docs : e.id > d.id
      BY <1>0, NewerExists
    <3>2. d.id \in Nat /\ e.id \in expired + 1..written
      BY <1>0 DEF SaveInv, SaveTypes, LastThere, SaveDoc
    <3>3. QED
      BY <3>1, <3>2 DEF SaveInv, SaveTypes
  <2>2. QED
    BY <2>1
<1>4. ListsOld'
  BY <1>1, <1>3, <1>8 DEF SaveInv, SaveTypes, ListsOld, Saves!In
<1>5. ReadsPast'
  BY <1>1, <1>8 DEF SaveInv, SaveTypes, ReadsPast
<1>6. Alone'
  BY <1>1, <1>8 DEF SaveInv, SaveTypes, Alone, Saves!In
<1>7. QED
  BY <1>2, <1>4, <1>5, <1>6 DEF SaveInv

(* So what it deletes is not what is recovered.                            *)
LEMMA SaveDeletes ==
    ASSUME SaveInv, NEW r \in Runs, Saves!DeleteOldAutosaves(r)
    PROVE  SaveInv' /\ recovered' = recovered
<1> USE DEF Saves!DeleteOldAutosaves
<1>1. docs' = docs \ run[r].old /\ run' = [run EXCEPT ![r] = Saves!Resting]
  BY DEF Saves!EndRun
<1>2. \A d \in run[r].old : d.id < written
  BY DEF SaveInv, ListsOld
<1>3. \A d \in docs : d.id = written => d \in docs'
  BY <1>1, <1>2 DEF SaveInv, SaveTypes
<1>4. docs' \subseteq docs /\ (docs # {} => docs' # {})
  BY <1>1, <1>3 DEF SaveInv, LastThere
<1>5. Saves!Resting \in SaveRun
  BY DEF Saves!Resting, SaveRun, SaveSteps, SaveDoc, Saves!Timers
<1>6. SaveTypes' /\ LastThere'
  <2>1. SaveTypes'
    BY <1>1, <1>4, <1>5 DEF SaveInv, SaveTypes
  <2>2. LastThere'
    BY <1>3, <1>4 DEF SaveInv, LastThere
  <2>3. QED
    BY <2>1, <2>2
<1>7. ListsOld' /\ ReadsPast'
  BY <1>1 DEF SaveInv, SaveTypes, ListsOld, ReadsPast, Saves!In, Saves!Resting, SaveRun
<1>8. Alone'
  BY <1>1, <1>4 DEF SaveInv, SaveTypes, Alone, Saves!In, Saves!Resting, SaveRun
<1>9. recovered' = recovered
  <2>1. CASE docs = {}
    BY <1>4, <2>1 DEF recovered
  <2>2. CASE docs # {}
    <3>1. Saves!Latest \in docs' /\ Saves!Latest.id = written
      BY <1>3, <2>2, LatestIsLast DEF SaveInv
    <3>2. \A e \in docs' : e.id <= Saves!Latest.id
      BY <1>4, <3>1 DEF SaveInv, SaveTypes, LastThere, SaveDoc
    <3>3. ASSUME NEW d \in docs', \A e \in docs' : e.id <= d.id
          PROVE  d = Saves!Latest
      <4>1. d.id = Saves!Latest.id
        BY <1>4, <3>1, <3>2, <3>3 DEF SaveInv, SaveTypes, LastThere, SaveDoc
      <4>2. QED
        BY <1>4, <3>1, <4>1 DEF SaveInv, LastThere
    <3>4. Saves!Latest' = Saves!Latest
      BY <3>1, <3>2, <3>3 DEF Saves!Latest
    <3>5. QED
      BY <1>4, <2>2, <3>4 DEF recovered
  <2>3. QED
    BY <2>1, <2>2
<1>10. QED
  BY <1>6, <1>7, <1>8, <1>9 DEF SaveInv

(* The oldest autosave is the last one when there is no other.             *)
LEMMA SaveExpires ==
    ASSUME SaveInv, Saves!ExpireAutosave
    PROVE  SaveInv' /\ Saves!Recovered!Expire
<1>1. PICK d \in docs : (\A e \in docs : d.id <= e.id) /\ docs' = docs \ {d} /\ expired' = d.id
  BY DEF Saves!ExpireAutosave
<1>2. UNCHANGED <<content, run, written, reached, overlapped>>
  BY DEF Saves!ExpireAutosave
<1>3. /\ SaveTypes /\ LastThere /\ ListsOld /\ ReadsPast /\ Alone
      /\ d.id \in Nat /\ d.id \in expired + 1..written /\ written \in Nat /\ expired \in 0..written
  BY DEF SaveInv, SaveTypes, SaveDoc, LastThere
<1>4. \A e \in docs : e.id \in Nat /\ e.id <= written /\ (e # d => d.id < e.id)
  BY <1>1, <1>3 DEF SaveTypes, SaveDoc, LastThere
<1>5. docs' = {} <=> d.id = written
  <2>1. PICK last \in docs : last.id = written
    BY <1>3 DEF LastThere
  <2>2. CASE d.id = written
    BY <1>1, <1>4, <2>2
  <2>3. CASE d.id # written
    BY <1>1, <2>1, <2>3
  <2>4. QED
    BY <2>2, <2>3
<1>6. SaveTypes' /\ LastThere'
  <2>1. SaveTypes'
    BY <1>1, <1>2, <1>3 DEF SaveTypes
  <2>2. \A e \in docs' : e \in docs /\ e # d /\ e.id \in expired' + 1..written' /\ e.holds <= content'
    BY <1>1, <1>2, <1>3, <1>4 DEF LastThere
  <2>3. docs' # {} => \E e \in docs' : e.id = written'
    BY <1>1, <1>2, <1>3, <1>5 DEF LastThere
  <2>4. docs' = {} <=> written' = expired'
    BY <1>1, <1>2, <1>5
  <2>5. \A e, f \in docs' : e.id = f.id => e = f
    BY <1>3, <2>2 DEF LastThere
  <2>6. QED
    BY <2>1, <2>2, <2>3, <2>4, <2>5 DEF LastThere
<1>7. ListsOld' /\ ReadsPast' /\ Alone'
  BY <1>2, <1>3 DEF ListsOld, ReadsPast, Alone, Saves!In
<1>8. recovered' = IF recovered.id <= d.id THEN Saves!Recovered!Nothing ELSE recovered
  <2>1. recovered.id = written
    BY <1>1, <1>3, WhatIsRecovered
  <2>2. CASE d.id = written
    BY <1>3, <1>5, <2>1, <2>2 DEF recovered, Saves!Recovered!Nothing
  <2>3. CASE d.id # written
    <3>1. Saves!Latest \in docs' /\ Saves!Latest.id = written
      BY <1>1, <1>3, <2>3, LatestIsLast
    <3>2. \A e \in docs' : e \in docs /\ e.id <= Saves!Latest.id
      BY <1>1, <1>4, <3>1
    <3>3. ASSUME NEW e \in docs', \A f \in docs' : f.id <= e.id
          PROVE  e = Saves!Latest
      <4>1. e.id = Saves!Latest.id
        BY <1>4, <3>1, <3>2, <3>3
      <4>2. QED
        BY <1>3, <3>1, <3>2, <4>1 DEF LastThere
    <3>4. Saves!Latest' = Saves!Latest
      BY <3>1, <3>2, <3>3 DEF Saves!Latest
    <3>5. docs # {} /\ docs' # {} /\ ~(recovered.id <= d.id)
      BY <1>3, <1>5, <2>1, <2>3
    <3>6. QED
      BY <3>4, <3>5 DEF recovered
  <2>4. QED
    BY <2>2, <2>3
<1>9. Saves!Recovered!Expire
  BY <1>1, <1>2, <1>3, <1>8 DEF Saves!Recovered!Expire, recovered
<1>10. QED
  BY <1>6, <1>7, <1>9 DEF SaveInv

-----------------------------------------------------------------------------
(* Every step keeps the invariant, and is a step of Recovery or none.      *)
LEMMA SaveNext ==
    ASSUME SaveInv, [Saves!Next]_autoVars
    PROVE  SaveInv' /\ [Saves!Recovered!Next]_<<content, overlapped, written, reached, expired, recovered>>
<1> DEFINE Stutters == UNCHANGED <<content, overlapped, written, reached, expired, recovered>>
           Overlapping == SaveInv' /\ (Stutters \/ Saves!Recovered!Overlap)
<1>1. CASE Saves!CancelAutoSave
  <2>1. SaveInv' /\ Stutters
    BY <1>1, SameRecovered DEF Saves!CancelAutoSave, SaveInv, SaveTypes, LastThere, ListsOld, ReadsPast, Alone, Saves!In
  <2>2. QED
    BY <2>1
<1>2. CASE Saves!ScheduleAutoSave
  <2>1. content' = content + 1 /\ UNCHANGED <<run, docs, written, expired, reached, overlapped>>
    BY <1>2 DEF Saves!ScheduleAutoSave
  <2>2. SaveInv'
    BY <2>1 DEF SaveInv, SaveTypes, LastThere, ListsOld, ReadsPast, Alone, Saves!In, SaveDoc, SaveRun
  <2>3. Saves!Recovered!Edit
    BY <2>1, SameRecovered DEF Saves!Recovered!Edit, recovered
  <2>4. QED
    BY <2>2, <2>3 DEF Saves!Recovered!Next
<1>3. ASSUME NEW r \in Runs, NEW x \in SaveRun, x.step = "read", x.read = 0,
             Saves!In(r, "idle"), run' = [run EXCEPT ![r] = x],
             overlapped' = Saves!Overlaps, UNCHANGED <<content, docs, written, expired, reached>>
      PROVE  Overlapping
  <2>1. SaveInv'
    BY <1>3, SaveStarts
  <2>2. recovered' = recovered
    BY <1>3, SameRecovered
  <2>3. overlapped' = overlapped \/ overlapped' = TRUE
    BY <1>3 DEF Saves!Overlaps, SaveInv, SaveTypes
  <2>4. QED
    BY <1>3, <2>1, <2>2, <2>3 DEF Saves!Recovered!Overlap, recovered
<1>4. CASE Saves!TimerFires
  <2>1. PICK t \in Saves!Timers, r \in Runs :
          /\ Saves!In(r, "idle")
          /\ run' = [run EXCEPT ![r] = [Saves!Resting EXCEPT !.step = "read", !.by = {t}]]
    BY ONLY <1>4 DEF Saves!TimerFires, Saves!Timely
  <2> DEFINE x == [Saves!Resting EXCEPT !.step = "read", !.by = {t}]
  <2>2. x \in SaveRun /\ x.step = "read" /\ x.read = 0
    BY DEF Saves!Resting, SaveRun, SaveSteps, SaveDoc
  <2>3. run' = [run EXCEPT ![r] = x]
    BY <2>1
  <2>4. Overlapping
    <3> HIDE DEF x
    <3>1. QED
      BY <1>3, <1>4, <2>1, <2>2, <2>3 DEF Saves!TimerFires
  <2>5. QED
    BY <2>4 DEF Saves!Recovered!Next
<1>5. CASE Saves!OnModuleDestroy
  <2>1. CASE pending
    <3>1. PICK r \in Runs :
            /\ Saves!In(r, "idle")
            /\ run' = [run EXCEPT ![r] = [Saves!Resting EXCEPT !.step = "read"]]
      BY <1>5, <2>1 DEF Saves!OnModuleDestroy
    <3> DEFINE x == [Saves!Resting EXCEPT !.step = "read"]
    <3>2. x \in SaveRun /\ x.step = "read" /\ x.read = 0
      BY DEF Saves!Resting, SaveRun, SaveSteps, SaveDoc, Saves!Timers
    <3>5. run' = [run EXCEPT ![r] = x]
      BY <3>1
    <3>3. Overlapping
      <4> HIDE DEF x
      <4>1. QED
        BY <1>3, <1>5, <2>1, <3>1, <3>2, <3>5 DEF Saves!OnModuleDestroy
    <3>4. QED
      BY <3>3 DEF Saves!Recovered!Next
  <2>2. CASE ~pending
    <3>1. SaveInv' /\ Stutters
      BY <1>5, <2>2, SameRecovered
         DEF Saves!OnModuleDestroy, SaveInv, SaveTypes, LastThere, ListsOld, ReadsPast, Alone, Saves!In
    <3>2. QED
      BY <3>1
  <2>3. QED
    BY <2>1, <2>2
<1>6. CASE Saves!ShutDown
  <2>1. run' = [r \in Runs |-> Saves!Resting] /\ UNCHANGED <<content, docs, written, expired, reached, overlapped>>
    BY <1>6 DEF Saves!ShutDown
  <2>2. Saves!Resting \in SaveRun /\ Saves!Resting.step = "idle" /\ Saves!Resting.read = 0
    BY DEF Saves!Resting, SaveRun, SaveSteps, SaveDoc, Saves!Timers
  <2>3. SaveInv'
    BY <2>1, <2>2 DEF SaveInv, SaveTypes, LastThere, ListsOld, ReadsPast, Alone, Saves!In
  <2>4. Stutters
    BY <2>1, SameRecovered
  <2>5. QED
    BY <2>3, <2>4
<1>7. CASE \E r \in Runs : Saves!SaveFails(r)
  <2>1. PICK r \in Runs : Saves!SaveFails(r)
    BY <1>7
  <2>2. SaveInv' /\ Stutters
    BY <2>1, SaveEnds, SameRecovered DEF Saves!SaveFails, Saves!EndRun
  <2>3. QED
    BY <2>2
<1>8. CASE \E r \in Runs : Saves!SaveStep(r)
  <2>1. PICK r \in Runs : Saves!SaveStep(r)
    BY <1>8
  <2>2. CASE Saves!ReadState(r) \/ Saves!ReadLatest(r)
    <3>1. SaveInv' /\ Stutters
      BY <2>2, SaveReads, SameRecovered DEF Saves!ReadState, Saves!ReadLatest
    <3>2. QED
      BY <3>1
  <2>3. CASE Saves!CreateAutosave(r)
    BY <2>3, SaveWrites DEF Saves!Recovered!Next
  <2>4. CASE Saves!ListOldAutosaves(r)
    <3>1. SaveInv' /\ Stutters
      BY <2>4, SaveLists, SameRecovered DEF Saves!ListOldAutosaves
    <3>2. QED
      BY <3>1
  <2>5. CASE Saves!DeleteOldAutosaves(r)
    <3>1. SaveInv' /\ Stutters
      BY <2>5, SaveDeletes DEF Saves!DeleteOldAutosaves
    <3>2. QED
      BY <3>1
  <2>6. QED
    BY <2>1, <2>2, <2>3, <2>4, <2>5 DEF Saves!SaveStep
<1>9. CASE UNCHANGED autoVars
  <2>1. SaveInv' /\ Stutters
    BY <1>9, SameRecovered DEF autoVars, SaveInv, SaveTypes, LastThere, ListsOld, ReadsPast, Alone, Saves!In
  <2>2. QED
    BY <2>1
<1>11. CASE Saves!DeleteDesign
  <2>1. SaveInv' /\ Stutters
    BY <1>11, SameRecovered DEF Saves!DeleteDesign, SaveInv, SaveTypes, LastThere, ListsOld, ReadsPast, Alone, Saves!In
  <2>2. QED
    BY <2>1
<1>12. CASE Saves!ExpireAutosave
  BY <1>12, SaveExpires DEF Saves!Recovered!Next
<1>10. QED
  BY Zenon, <1>1, <1>2, <1>4, <1>5, <1>6, <1>7, <1>8, <1>9, <1>11, <1>12 DEF Saves!Next

(* Before the first edit there is nothing to recover.                      *)
LEMMA SaveInit ==
    ASSUME Saves!Init
    PROVE  SaveInv /\ Saves!Recovered!Init
<1>1. Saves!Resting \in SaveRun /\ Saves!Resting.step = "idle" /\ Saves!Resting.read = 0
  BY DEF Saves!Resting, SaveRun, SaveSteps, SaveDoc, Saves!Timers
<1>2. SaveInv
  <2>1. run = [r \in Runs |-> Saves!Resting] /\ docs = {} /\ content = 0
    BY DEF Saves!Init
  <2>6. run \in [Runs -> SaveRun]
    BY <1>1, <2>1
  <2>7. content = 0 /\ reached = 0 /\ written = 0 /\ expired = 0 /\ overlapped = FALSE /\ docs = {}
    BY DEF Saves!Init
  <2>2. SaveTypes
    <3>1. reached \in 0..content /\ expired \in 0..written /\ content \in Nat /\ written \in Nat
      BY <2>7
    <3>2. docs \subseteq SaveDoc /\ overlapped \in BOOLEAN
      BY Zenon, <2>7
    <3>3. QED
      BY Zenon, <2>6, <3>1, <3>2 DEF SaveTypes
  <2>5. LastThere
    BY <2>1 DEF Saves!Init, LastThere
  <2>3. ListsOld /\ ReadsPast /\ Alone
    BY <1>1, <2>1 DEF ListsOld, ReadsPast, Alone, Saves!In
  <2>4. QED
    BY <2>2, <2>5, <2>3 DEF SaveInv
<1>3. Saves!Recovered!Init
  BY DEF Saves!Init, Saves!Recovered!Init, Saves!Recovered!Nothing
<1>4. QED
  BY <1>2, <1>3

-----------------------------------------------------------------------------
(* The rest of what is kept: the timers and the map that knows one of      *)
(* them;                                                                   *)
SaveShapes ==
    /\ timer \in [Saves!Timers -> {"unused", "armed", "running", "over", "cleared", "cancelled"}]
    /\ current = {} \/ \E t \in Saves!Timers : current = {t}
    /\ pending \in BOOLEAN /\ app \in {"up", "closing", "down"}
    /\ foreign \subseteq 1..content /\ deleted \in BOOLEAN /\ saveFails \in 0..MaxSaveFails

(* the last autosave holds the most, unless saves have overlapped;         *)
HoldsMost ==
    ~overlapped => \A d \in docs : d.id = written => d.holds = reached

(* and once the cleanups under way have deleted what they listed, whatever *)
(* their order, there are as many autosaves as are kept, one for every     *)
(* failure, and one for every other save that is to clean up.              *)
Deleting == {r \in Runs : run[r].step = "delete"}
ToCleanUp == {r \in Runs : run[r].step \in {"list", "delete"}}
Left(S) == {d \in docs : \A r \in S : d \notin run[r].old}
CleanedUp ==
    /\ IsFiniteSet(docs)
    /\ app # "down" =>
         \A S \in SUBSET Deleting : Cardinality(Left(S)) <= Keep + saveFails + Cardinality(ToCleanUp \ S)

SaveRests == SaveShapes /\ HoldsMost /\ CleanedUp

(* What is there to count.                                                 *)
LEMMA CleanupCounts ==
    ASSUME IsFiniteSet(docs), NEW S
    PROVE  /\ IsFiniteSet(Left(S)) /\ Cardinality(Left(S)) \in Nat
           /\ IsFiniteSet(ToCleanUp \ S) /\ Cardinality(ToCleanUp \ S) \in Nat
<1>1. IsFiniteSet(Left(S)) /\ IsFiniteSet(ToCleanUp \ S)
    BY FS_Subset, SetsAssumption DEF Left, ToCleanUp
<1> QED BY <1>1, FS_CardinalityType

(* Those with few newer ones are few: all of them but the oldest are newer *)
(* than the oldest.                                                        *)
LEMMA FewAreNew ==
    ASSUME SaveTypes, LastThere, IsFiniteSet(docs), NEW K,
           \A d \in K : d \in docs /\ ~(Cardinality(Saves!Newer(d)) >= Keep)
    PROVE  IsFiniteSet(K) /\ Cardinality(K) <= Keep
<1>0. IsFiniteSet(K) /\ Cardinality(K) \in Nat
    BY FS_Subset, FS_CardinalityType
<1>1. CASE K = {}
    <2>1. Cardinality(K) = 0
        BY <1>1, FS_EmptySet
    <2> QED BY <1>0, <2>1, Limits
<1>2. CASE K # {}
    <2>0. PICK N : N = {low \in Nat : \E d \in K : d.id = low}
        OBVIOUS
    <2>1. PICK low \in N : \A j \in N : ~(j < low)
        <3>1. N \subseteq Nat /\ N # {}
            BY <1>2, <2>0 DEF SaveTypes, SaveDoc
        <3>2. \A j \in Nat, k \in N : <<j, k>> \in OpToRel(<, Nat) <=> j < k
            BY <3>1 DEF OpToRel
        <3>3. PICK low \in N : \A j \in N : <<j, low>> \notin OpToRel(<, Nat)
            BY <3>1, NatLessThanWellFounded, WFMin
        <3> QED BY <3>1, <3>2, <3>3
    <2>2. PICK d \in K : d.id = low
        BY <2>0, <2>1
    <2>3. \A e \in K : e = d \/ e \in Saves!Newer(d)
        <3> SUFFICES ASSUME NEW e \in K PROVE e = d \/ e \in Saves!Newer(d)
            OBVIOUS
        <3>1. e \in docs /\ d \in docs
            OBVIOUS
        <3>2. e.id \in Nat /\ d.id \in Nat
            BY <3>1 DEF SaveTypes, SaveDoc
        <3>3. e.id \in N
            BY <2>0, <3>2
        <3>4. e.id = d.id \/ e.id > d.id
            BY <2>1, <2>2, <3>2, <3>3
        <3>5. e.id = d.id => e = d
            BY <3>1 DEF LastThere
        <3> QED BY <3>1, <3>4, <3>5 DEF Saves!Newer
    <2>4. K \subseteq Saves!Newer(d) \cup {d}
        BY <2>3
    <2>5. IsFiniteSet(Saves!Newer(d)) /\ d \notin Saves!Newer(d)
        <3>1. d.id \in Nat
            BY <2>2 DEF SaveTypes, SaveDoc
        <3> QED BY FS_Subset, <3>1 DEF Saves!Newer
    <2>6. Cardinality(Saves!Newer(d)) \in Nat
        BY <2>5, FS_CardinalityType
    <2> HIDE DEF Saves!Newer
    <2>7. Cardinality(Saves!Newer(d) \cup {d}) = Cardinality(Saves!Newer(d)) + 1
          /\ IsFiniteSet(Saves!Newer(d) \cup {d})
        BY <2>5, FS_AddElement
    <2>8. Cardinality(K) <= Cardinality(Saves!Newer(d) \cup {d})
        BY <2>4, <2>7, FS_Subset
    <2>9. ~(Cardinality(Saves!Newer(d)) >= Keep)
        BY <2>2
    <2> QED BY <1>0, <2>6, <2>7, <2>8, <2>9, Limits
<1> QED BY <1>1, <1>2

(* A step that leaves the autosaves and what is listed.                    *)
LEMMA CleanupRests ==
    ASSUME CleanedUp, docs' = docs, saveFails \in Nat, saveFails' \in Nat, saveFails <= saveFails',
           Deleting' = Deleting, ToCleanUp' = ToCleanUp, \A r \in Deleting : run'[r].old = run[r].old,
           app' # "down" => app # "down"
    PROVE  CleanedUp'
<1> SUFFICES ASSUME app' # "down", NEW S \in SUBSET Deleting
             PROVE  Cardinality(Left(S)') <= Keep + saveFails' + Cardinality(ToCleanUp' \ S)
    BY DEF CleanedUp
<1>1. Left(S)' = Left(S)
    BY DEF Left
<1>2. Cardinality(Left(S)) \in Nat /\ Cardinality(ToCleanUp \ S) \in Nat
    BY CleanupCounts DEF CleanedUp
<1>3. Cardinality(Left(S)) <= Keep + saveFails + Cardinality(ToCleanUp \ S)
    BY DEF CleanedUp
<1> HIDE DEF Left, ToCleanUp, Deleting
<1> QED BY <1>1, <1>2, <1>3, Limits

(* A step that only takes autosaves away.                                  *)
LEMMA CleanupShrinks ==
    ASSUME CleanedUp, docs' \subseteq docs, UNCHANGED <<run, saveFails, app>>, saveFails \in Nat
    PROVE  CleanedUp'
<1>1. IsFiniteSet(docs')
    BY FS_Subset DEF CleanedUp
<1>2. ASSUME app' # "down", NEW S \in SUBSET Deleting
      PROVE  Cardinality(Left(S)') <= Keep + saveFails' + Cardinality(ToCleanUp' \ S)
    <2>1. Left(S)' \subseteq Left(S) /\ ToCleanUp' = ToCleanUp
        BY DEF Left, ToCleanUp
    <2>2. /\ IsFiniteSet(Left(S)) /\ Cardinality(Left(S)) \in Nat /\ Cardinality(ToCleanUp \ S) \in Nat
        BY CleanupCounts DEF CleanedUp
    <2>3. Cardinality(Left(S)) <= Keep + saveFails + Cardinality(ToCleanUp \ S)
        BY <1>2 DEF CleanedUp
    <2> HIDE DEF Left, ToCleanUp, Deleting
    <2>4. Cardinality(Left(S)') <= Cardinality(Left(S)) /\ Cardinality(Left(S)') \in Nat
        BY <2>1, <2>2, FS_Subset, FS_CardinalityType
    <2> QED BY <2>1, <2>2, <2>3, <2>4, Limits
<1>3. Deleting' = Deleting
    BY DEF Deleting
<1> QED BY <1>1, <1>2, <1>3 DEF CleanedUp

(* The last autosave stays the one that holds the most.                    *)
LEMMA HoldsRests ==
    ASSUME HoldsMost, docs' \subseteq docs, UNCHANGED <<written, reached>>,
           overlapped => overlapped'
    PROVE  HoldsMost'
BY DEF HoldsMost

(* A save that starts, or reads, leaves the rest.                          *)
LEMMA RunRests ==
    ASSUME SaveInv, SaveRests, NEW r \in Runs, NEW x \in SaveRun, run' = [run EXCEPT ![r] = x],
           run[r].step \notin {"list", "delete"}, x.step \notin {"list", "delete"}, overlapped => overlapped',
           UNCHANGED <<docs, written, reached, saveFails>>, app' # "down" => app # "down"
    PROVE  HoldsMost' /\ CleanedUp'
<1>0. SaveTypes /\ LastThere /\ HoldsMost /\ CleanedUp /\ SaveShapes
    BY DEF SaveInv, SaveRests
<1>1. HoldsMost'
    BY <1>0, HoldsRests
<1>2. /\ Deleting' = Deleting /\ ToCleanUp' = ToCleanUp
      /\ \A q \in Deleting : run'[q].old = run[q].old
    BY <1>0 DEF Deleting, ToCleanUp, SaveTypes
<1>3. saveFails \in Nat /\ saveFails' \in Nat /\ saveFails <= saveFails'
    BY <1>0, Bounds DEF SaveShapes
<1> QED BY <1>0, <1>1, <1>2, <1>3, CleanupRests

(* A save that ends by its cleanup, or by a failure.                       *)
LEMMA CleanupEnds ==
    ASSUME SaveInv, SaveRests, NEW q \in Runs, run' = [run EXCEPT ![q] = Saves!Resting], app' = app,
           \/ run[q].step = "delete" /\ docs' = docs \ run[q].old /\ saveFails' = saveFails
           \/ docs' = docs /\ saveFails' = saveFails + 1
    PROVE  CleanedUp'
<1>0. SaveTypes /\ CleanedUp /\ SaveShapes /\ IsFiniteSet(docs) /\ saveFails \in Nat
    BY Bounds DEF SaveInv, SaveRests, SaveShapes, CleanedUp
<1>1. Deleting' = Deleting \ {q} /\ ToCleanUp' = ToCleanUp \ {q}
      /\ \A r \in Deleting' : run'[r].old = run[r].old
    BY <1>0 DEF Deleting, ToCleanUp, SaveTypes, Saves!Resting
<1>2. IsFiniteSet(docs')
    BY <1>0, FS_Subset
<1>3. ASSUME app' # "down", NEW S \in SUBSET Deleting'
      PROVE  Cardinality(Left(S)') <= Keep + saveFails' + Cardinality(ToCleanUp' \ S)
    <2>1. S \in SUBSET Deleting /\ q \notin S
        BY <1>1
    <2>2. Cardinality(ToCleanUp \ S) \in Nat /\ Cardinality(Left(S)) \in Nat
          /\ Cardinality(ToCleanUp' \ S) \in Nat /\ IsFiniteSet(ToCleanUp \ S)
        <3>1. Cardinality(ToCleanUp' \ S) \in Nat
            BY FS_Subset, FS_CardinalityType, SetsAssumption DEF ToCleanUp
        <3> QED BY <1>0, <3>1, CleanupCounts
    <2>3. CASE run[q].step = "delete" /\ docs' = docs \ run[q].old /\ saveFails' = saveFails
        <3>1. S \cup {q} \in SUBSET Deleting
            BY <2>1, <2>3 DEF Deleting
        <3>2. Left(S)' = Left(S \cup {q})
            BY <1>1, <2>3 DEF Left
        <3>3. ToCleanUp' \ S = ToCleanUp \ (S \cup {q})
            BY <1>1
        <3>4. Cardinality(Left(S \cup {q})) <= Keep + saveFails + Cardinality(ToCleanUp \ (S \cup {q}))
            BY <1>0, <1>3, <3>1 DEF CleanedUp
        <3> QED BY <2>3, <3>2, <3>3, <3>4
    <2>4. CASE docs' = docs /\ saveFails' = saveFails + 1
        <3>1. Left(S)' = Left(S)
            BY <1>1, <2>4 DEF Left
        <3>2. Cardinality(Left(S)) <= Keep + saveFails + Cardinality(ToCleanUp \ S)
            BY <1>0, <1>3, <2>1 DEF CleanedUp
        <3>3. \A r : r # q => (r \in ToCleanUp' \ S <=> r \in ToCleanUp \ S)
            BY <1>1
        <3>4. q \notin ToCleanUp' \ S
            BY <1>1
        <3>5. Cardinality(ToCleanUp \ S) <= Cardinality(ToCleanUp' \ S) + 1
            <4>1. PICK A : A = ToCleanUp \ S
                OBVIOUS
            <4>2. PICK B : B = ToCleanUp' \ S
                OBVIOUS
            <4>3. /\ q \in A /\ q \notin B => Cardinality(B) = Cardinality(A) - 1
                  /\ (q \in A <=> q \in B) => B = A
                <5>1. IsFiniteSet(A) /\ \A r : r # q => (r \in B <=> r \in A)
                    BY <4>1, <4>2, <2>2, <3>3
                <5> QED BY <5>1, OneMoves
            <4>4. Cardinality(A) \in Nat /\ Cardinality(B) \in Nat
                BY <4>1, <4>2, <2>2
            <4>5. q \notin B
                BY <4>2, <3>4
            <4> QED BY <4>1, <4>2, <4>3, <4>4, <4>5
        <3> QED BY <1>0, <2>2, <2>4, <3>1, <3>2, <3>5, Limits
    <2> QED BY <1>3, <2>3, <2>4
<1> QED BY <1>2, <1>3 DEF CleanedUp

(* A save that writes is one more that is to clean up.                     *)
LEMMA CleanupWrites ==
    ASSUME SaveInv, SaveRests, NEW q \in Runs, Saves!CreateAutosave(q)
    PROVE  CleanedUp'
<1>0. SaveTypes /\ CleanedUp /\ SaveShapes /\ IsFiniteSet(docs) /\ saveFails \in Nat
    BY Bounds DEF SaveInv, SaveRests, SaveShapes, CleanedUp
<1>1. PICK new : new = [id |-> written + 1, number |-> run[q].number, holds |-> run[q].read]
    OBVIOUS
<1>2. docs' = docs \cup {new} /\ saveFails' = saveFails /\ app' = app /\ run[q].step = "create"
      /\ run' = [run EXCEPT ![q].step = "list"]
    BY <1>1 DEF Saves!CreateAutosave, Saves!In
<1>3. Deleting' = Deleting /\ ToCleanUp' = ToCleanUp \cup {q} /\ q \notin ToCleanUp
      /\ \A r \in Deleting : run'[r].old = run[r].old
    BY <1>0, <1>2 DEF Deleting, ToCleanUp, SaveTypes, SaveRun
<1>4. IsFiniteSet(docs')
    BY <1>0, <1>2, FS_AddElement
<1>5. ASSUME app' # "down", NEW S \in SUBSET Deleting'
      PROVE  Cardinality(Left(S)') <= Keep + saveFails' + Cardinality(ToCleanUp' \ S)
    <2>1. S \in SUBSET Deleting /\ q \notin S
        BY <1>3 DEF Deleting, ToCleanUp
    <2>2. /\ IsFiniteSet(Left(S)) /\ Cardinality(Left(S)) \in Nat
          /\ IsFiniteSet(ToCleanUp \ S) /\ Cardinality(ToCleanUp \ S) \in Nat
        BY <1>0, CleanupCounts
    <2>3. Left(S)' \subseteq Left(S) \cup {new}
        BY <1>2, <1>3, <2>1 DEF Left
    <2>4. ToCleanUp' \ S = (ToCleanUp \ S) \cup {q} /\ q \notin ToCleanUp \ S
        BY <1>3, <2>1
    <2>5. Cardinality(Left(S)) <= Keep + saveFails + Cardinality(ToCleanUp \ S)
        BY <1>0, <1>2, <1>5, <2>1 DEF CleanedUp
    <2> HIDE DEF Left, ToCleanUp
    <2>6. IsFiniteSet(Left(S) \cup {new}) /\ Cardinality(Left(S) \cup {new}) <= Cardinality(Left(S)) + 1
        <3>1. IsFiniteSet(Left(S) \cup {new})
              /\ Cardinality(Left(S) \cup {new}) =
                     IF new \in Left(S) THEN Cardinality(Left(S)) ELSE Cardinality(Left(S)) + 1
            BY <2>2, FS_AddElement
        <3> QED BY <2>2, <3>1
    <2>7. Cardinality(Left(S)') <= Cardinality(Left(S) \cup {new}) /\ Cardinality(Left(S)') \in Nat
          /\ Cardinality(Left(S) \cup {new}) \in Nat
        BY <2>3, <2>6, FS_Subset, FS_CardinalityType
    <2>8. Cardinality(ToCleanUp' \ S) = Cardinality(ToCleanUp \ S) + 1
        BY <2>2, <2>4, FS_AddElement
    <2> QED BY <1>0, <1>2, <2>2, <2>5, <2>6, <2>7, <2>8, Limits
<1> QED BY <1>4, <1>5 DEF CleanedUp

(* A save that has listed what is to go leaves as many as are kept.        *)
LEMMA CleanupLists ==
    ASSUME SaveInv, SaveRests, NEW q \in Runs, Saves!ListOldAutosaves(q)
    PROVE  CleanedUp'
<1>0. SaveTypes /\ CleanedUp /\ SaveShapes /\ LastThere /\ IsFiniteSet(docs) /\ saveFails \in Nat
    BY Bounds DEF SaveInv, SaveRests, SaveShapes, CleanedUp
<1>1. PICK old : old = {d \in docs : Cardinality(Saves!Newer(d)) >= Keep}
    OBVIOUS
<1>2. docs' = docs /\ saveFails' = saveFails /\ app' = app /\ run[q].step = "list"
      /\ run' = [run EXCEPT ![q].step = "delete", ![q].old = old]
    <2>1. \A d : Saves!Cardinality(Saves!Newer(d)) = Cardinality(Saves!Newer(d))
        BY CountsAlike
    <2>2. old = {d \in docs : Saves!Cardinality(Saves!Newer(d)) >= Keep}
        BY <1>1, <2>1
    <2> QED BY <2>2 DEF Saves!ListOldAutosaves, Saves!In
<1>3. /\ ToCleanUp' = ToCleanUp /\ Deleting' = Deleting \cup {q} /\ q \notin Deleting
      /\ \A r \in Deleting : run'[r].old = run[r].old
      /\ run'[q].old = old
    BY <1>0, <1>2 DEF Deleting, ToCleanUp, SaveTypes, SaveRun
<1>4. ASSUME app' # "down", NEW S \in SUBSET Deleting'
      PROVE  Cardinality(Left(S)') <= Keep + saveFails' + Cardinality(ToCleanUp' \ S)
    <2>1. Cardinality(ToCleanUp \ S) \in Nat /\ Cardinality(Left(S)) \in Nat
        BY <1>0, CleanupCounts
    <2>2. CASE q \in S
        <3>1. \A d \in Left(S)' : d \in docs /\ ~(Cardinality(Saves!Newer(d)) >= Keep)
            BY <1>1, <1>2, <1>3, <2>2 DEF Left
        <3>2. IsFiniteSet(Left(S)') /\ Cardinality(Left(S)') <= Keep
            BY <1>0, <3>1, FewAreNew
        <3>3. Cardinality(Left(S)') \in Nat
            BY <3>2, FS_CardinalityType
        <3> QED BY <1>0, <1>2, <1>3, <2>1, <3>2, <3>3, Limits
    <2>3. CASE q \notin S
        <3>1. S \in SUBSET Deleting
            BY <1>3, <2>3
        <3>2. Left(S)' = Left(S)
            BY <1>2, <1>3, <3>1 DEF Left
        <3> QED BY <1>0, <1>2, <1>3, <1>4, <3>1, <3>2 DEF CleanedUp
    <2> QED BY <2>2, <2>3
<1> QED BY <1>0, <1>2, <1>4 DEF CleanedUp

(* The shapes are kept by every step.                                      *)
LEMMA ShapesKept ==
    ASSUME SaveInv, SaveRests, Saves!Next
    PROVE  SaveShapes'
<1>0. SaveTypes /\ SaveShapes /\ content \in Nat /\ saveFails \in 0..MaxSaveFails
    BY DEF SaveInv, SaveRests, SaveShapes, SaveTypes
<1>1. CASE Saves!CancelAutoSave
    BY <1>0, <1>1 DEF Saves!CancelAutoSave, Saves!Stopped, SaveShapes
<1>2. CASE Saves!ScheduleAutoSave
    <2>1. PICK t \in Saves!Timers : timer' = [Saves!Cleared EXCEPT ![t] = "armed"] /\ current' = {t}
        BY <1>2 DEF Saves!ScheduleAutoSave
    <2>2. Saves!Cleared \in [Saves!Timers -> {"unused", "armed", "running", "over", "cleared", "cancelled"}]
        BY <1>0 DEF Saves!Cleared, Saves!Stopped, SaveShapes
    <2>3. timer' \in [Saves!Timers -> {"unused", "armed", "running", "over", "cleared", "cancelled"}]
        BY <2>1, <2>2
    <2>4. UNCHANGED <<deleted, saveFails, app>> /\ pending' = TRUE
        BY <1>2 DEF Saves!ScheduleAutoSave
    <2>5. content' = content + 1 /\ foreign' \in {foreign, foreign \cup {content + 1}}
        BY <1>2 DEF Saves!ScheduleAutoSave
    <2>6. foreign' \subseteq 1..content'
        BY <1>0, <2>5 DEF SaveShapes
    <2> QED BY <1>0, <2>1, <2>3, <2>4, <2>6 DEF SaveShapes
<1>3. CASE Saves!TimerFires
    <2>1. PICK t : t \in Saves!Timers /\ timer' = [timer EXCEPT ![t] = "running"]
        BY <1>3 DEF Saves!TimerFires, Saves!Timely
    <2> QED BY <1>0, <1>3, <2>1 DEF SaveShapes, Saves!TimerFires
<1>4. CASE Saves!OnModuleDestroy
    <2>1. (timer' = Saves!Cleared /\ current' = {}) \/ UNCHANGED <<timer, current>>
        BY <1>4 DEF Saves!OnModuleDestroy
    <2>2. UNCHANGED <<content, foreign, deleted, pending, saveFails>> /\ app' = "closing"
        BY <1>4 DEF Saves!OnModuleDestroy
    <2> QED BY <1>0, <2>1, <2>2 DEF SaveShapes, Saves!Cleared, Saves!Stopped
<1>5. CASE Saves!ShutDown
    BY <1>0, <1>5 DEF SaveShapes, Saves!ShutDown
<1>6. ASSUME NEW r \in Runs, Saves!EndRun(r), UNCHANGED <<content, foreign, deleted, app>>, saveFails' \in 0..MaxSaveFails
      PROVE  SaveShapes'
    <2>1. UNCHANGED <<timer, current, pending>> \/ (current' = {} /\ pending' = FALSE
              /\ timer' = [t \in Saves!Timers |-> IF t \in run[r].by THEN "over" ELSE timer[t]])
        BY <1>6 DEF Saves!EndRun
    <2> QED BY <1>0, <1>6, <2>1 DEF SaveShapes
<1>7. ASSUME NEW r \in Runs, Saves!SaveFails(r)
      PROVE  SaveShapes'
    <2>1. Saves!EndRun(r) /\ UNCHANGED <<content, foreign, deleted, app>> /\ saveFails' \in 0..MaxSaveFails
        BY <1>0, <1>7, Bounds DEF Saves!SaveFails
    <2> QED BY <1>6, <2>1
<1>8. ASSUME NEW r \in Runs,
             Saves!ReadLatest(r) \/ Saves!CreateAutosave(r) \/ Saves!ListOldAutosaves(r)
      PROVE  SaveShapes'
    BY <1>0, <1>8 DEF SaveShapes, Saves!ReadLatest, Saves!CreateAutosave, Saves!ListOldAutosaves
<1>9. ASSUME NEW r \in Runs, Saves!ReadState(r)
      PROVE  SaveShapes'
    <2>1. UNCHANGED <<content, foreign, deleted, app, saveFails>>
          /\ (Saves!EndRun(r) \/ UNCHANGED <<timer, current, pending>>)
        BY <1>9 DEF Saves!ReadState
    <2>2. CASE Saves!EndRun(r)
        BY <1>0, <1>6, <2>1, <2>2
    <2>3. CASE UNCHANGED <<timer, current, pending>>
        BY <1>0, <2>1, <2>3 DEF SaveShapes
    <2> QED BY <2>1, <2>2, <2>3
<1>11. CASE Saves!DeleteDesign
    BY <1>0, <1>11 DEF SaveShapes, Saves!DeleteDesign
<1>12. CASE Saves!ExpireAutosave
    BY <1>0, <1>12 DEF SaveShapes, Saves!ExpireAutosave
<1>10. ASSUME NEW r \in Runs, Saves!DeleteOldAutosaves(r)
       PROVE  SaveShapes'
    <2>1. Saves!EndRun(r) /\ UNCHANGED <<content, foreign, deleted, app>> /\ saveFails' \in 0..MaxSaveFails
        BY <1>0, <1>10 DEF Saves!DeleteOldAutosaves
    <2> QED BY <1>6, <2>1
<1> QED BY Zenon, <1>1, <1>2, <1>3, <1>4, <1>5, <1>7, <1>8, <1>9, <1>10, <1>11, <1>12 DEF Saves!Next, Saves!SaveStep

(* So is what holds the most, and what is cleaned up.                      *)
LEMMA SaveKeeps ==
    ASSUME SaveInv, SaveRests, Saves!Next
    PROVE  HoldsMost' /\ CleanedUp'
<1>0. /\ SaveTypes /\ LastThere /\ HoldsMost /\ CleanedUp /\ SaveShapes /\ Alone /\ ListsOld
      /\ saveFails \in Nat /\ content \in Nat
    BY Bounds DEF SaveInv, SaveRests, SaveShapes, SaveTypes
<1>1. CASE Saves!CancelAutoSave \/ Saves!ScheduleAutoSave \/ Saves!DeleteDesign
    <2>1. UNCHANGED <<run, docs, written, reached, overlapped, saveFails, app>>
        BY <1>1 DEF Saves!CancelAutoSave, Saves!ScheduleAutoSave, Saves!DeleteDesign
    <2>2. Deleting' = Deleting /\ ToCleanUp' = ToCleanUp
        BY <2>1 DEF Deleting, ToCleanUp
    <2>3. CleanedUp'
        BY <1>0, <2>1, <2>2, CleanupRests
    <2> QED BY <1>0, <2>1, <2>3, HoldsRests
<1>2. ASSUME NEW r \in Runs, NEW x \in SaveRun, x.step = "read", Saves!In(r, "idle"),
             run' = [run EXCEPT ![r] = x], overlapped' = Saves!Overlaps \/ overlapped' = overlapped,
             UNCHANGED <<docs, written, reached, saveFails>>, app # "down"
      PROVE  HoldsMost' /\ CleanedUp'
    <2>1. overlapped => overlapped'
        BY <1>2 DEF Saves!Overlaps
    <2>2. run[r].step \notin {"list", "delete"} /\ x.step \notin {"list", "delete"}
        BY <1>2 DEF Saves!In
    <2> QED BY <1>2, <2>1, <2>2, RunRests
<1>3. CASE Saves!TimerFires
    <2>1. PICK t \in Saves!Timers, r \in Runs :
              Saves!In(r, "idle") /\ run' = [run EXCEPT ![r] = [Saves!Resting EXCEPT !.step = "read", !.by = {t}]]
        BY ONLY <1>3 DEF Saves!TimerFires, Saves!Timely
    <2>2. PICK x : x = [Saves!Resting EXCEPT !.step = "read", !.by = {t}]
        OBVIOUS
    <2>3. x \in SaveRun /\ x.step = "read"
        BY <2>2 DEF Saves!Resting, SaveRun, SaveSteps, SaveDoc
    <2>4. run' = [run EXCEPT ![r] = x]
        BY <2>1, <2>2
    <2>5. overlapped' = Saves!Overlaps /\ UNCHANGED <<docs, written, reached, saveFails>> /\ app # "down"
        BY <1>3 DEF Saves!TimerFires
    <2> HIDE DEF Saves!Overlaps
    <2> QED BY <1>2, <2>1, <2>3, <2>4, <2>5
<1>4. CASE Saves!OnModuleDestroy
    <2>0. UNCHANGED <<docs, written, reached, saveFails>> /\ app # "down"
        BY <1>4 DEF Saves!OnModuleDestroy
    <2>1. CASE pending
        <3>1. PICK r \in Runs :
                  Saves!In(r, "idle") /\ run' = [run EXCEPT ![r] = [Saves!Resting EXCEPT !.step = "read"]]
            BY <1>4, <2>1 DEF Saves!OnModuleDestroy
        <3>2. PICK x : x = [Saves!Resting EXCEPT !.step = "read"]
            OBVIOUS
        <3>3. x \in SaveRun /\ x.step = "read"
            BY <3>2 DEF Saves!Resting, SaveRun, SaveSteps, SaveDoc, Saves!Timers
        <3>4. run' = [run EXCEPT ![r] = x]
            BY <3>1, <3>2
        <3>5. overlapped' = Saves!Overlaps
            BY <1>4, <2>1 DEF Saves!OnModuleDestroy
        <3> HIDE DEF Saves!Overlaps
        <3> QED BY <1>2, <2>0, <3>1, <3>3, <3>4, <3>5
    <2>2. CASE ~pending
        <3>1. UNCHANGED <<run, overlapped>>
            BY <1>4, <2>2 DEF Saves!OnModuleDestroy
        <3>2. Deleting' = Deleting /\ ToCleanUp' = ToCleanUp
            BY <3>1 DEF Deleting, ToCleanUp
        <3>3. CleanedUp'
            BY <1>0, <2>0, <3>1, <3>2, CleanupRests
        <3> QED BY <1>0, <2>0, <3>1, <3>3, HoldsRests
    <2> QED BY <2>1, <2>2
<1>5. CASE Saves!ShutDown
    <2>1. app' = "down" /\ UNCHANGED <<docs, written, reached, overlapped>>
        BY <1>5 DEF Saves!ShutDown
    <2>2. CleanedUp'
        BY <1>0, <2>1 DEF CleanedUp
    <2> QED BY <1>0, <2>1, <2>2, HoldsRests
<1>6. ASSUME NEW r \in Runs, Saves!SaveFails(r)
      PROVE  HoldsMost' /\ CleanedUp'
    <2>1. /\ UNCHANGED <<docs, written, reached, overlapped, app>> /\ saveFails' = saveFails + 1
          /\ run' = [run EXCEPT ![r] = Saves!Resting]
        BY <1>6 DEF Saves!SaveFails, Saves!EndRun
    <2>2. CleanedUp'
        BY <2>1, CleanupEnds
    <2> QED BY <1>0, <2>1, <2>2, HoldsRests
<1>7. ASSUME NEW r \in Runs, Saves!ReadState(r)
      PROVE  HoldsMost' /\ CleanedUp'
    <2>1. \/ run' = [run EXCEPT ![r] = Saves!Resting]
          \/ run' = [run EXCEPT ![r].step = "latest", ![r].read = content]
        BY <1>7 DEF Saves!ReadState, Saves!EndRun
    <2>2. PICK x \in SaveRun : x.step \in {"idle", "latest"} /\ run' = [run EXCEPT ![r] = x]
        <3>1. Saves!Resting \in SaveRun /\ Saves!Resting.step = "idle"
            BY DEF Saves!Resting, SaveRun, SaveSteps, SaveDoc, Saves!Timers
        <3>2. PICK x : x = [run[r] EXCEPT !.step = "latest", !.read = content]
            OBVIOUS
        <3>3. x \in SaveRun /\ x.step = "latest"
            BY <1>0, <3>2 DEF SaveTypes, SaveRun, SaveSteps
        <3> QED BY <2>1, <3>1, <3>2, <3>3
    <2>4. run[r].step = "read"
        BY <1>7 DEF Saves!ReadState, Saves!In
    <2>3. UNCHANGED <<docs, written, reached, overlapped, saveFails, app>>
        BY <1>7 DEF Saves!ReadState
    <2> QED BY <2>2, <2>3, <2>4, RunRests
<1>8. ASSUME NEW r \in Runs, Saves!ReadLatest(r)
      PROVE  HoldsMost' /\ CleanedUp'
    <2>1. PICK n : n = IF docs = {} THEN 1 ELSE Saves!Latest.number + 1
        OBVIOUS
    <2>2. n \in Nat
        BY <1>0, <2>1, LatestIsLast DEF SaveTypes, SaveDoc
    <2>3. PICK x : x = [run[r] EXCEPT !.step = "create", !.number = n]
        OBVIOUS
    <2>4. x \in SaveRun /\ x.step = "create" /\ run' = [run EXCEPT ![r] = x] /\ run[r].step = "latest"
        BY <1>0, <1>8, <2>1, <2>2, <2>3 DEF Saves!ReadLatest, Saves!In, SaveTypes, SaveRun, SaveSteps
    <2>5. UNCHANGED <<docs, written, reached, overlapped, saveFails, app>>
        BY <1>8 DEF Saves!ReadLatest
    <2> QED BY <2>4, <2>5, RunRests
<1>9. ASSUME NEW r \in Runs, Saves!CreateAutosave(r)
      PROVE  HoldsMost' /\ CleanedUp'
    <2>1. CleanedUp'
        BY <1>9, CleanupWrites
    <2>2. HoldsMost'
        <3>1. PICK new : new = [id |-> written + 1, number |-> run[r].number, holds |-> run[r].read]
            OBVIOUS
        <3>2. /\ docs' = docs \cup {new} /\ written' = written + 1 /\ overlapped' = overlapped
              /\ reached' = IF run[r].read > reached THEN run[r].read ELSE reached
              /\ run[r].step = "create"
            BY <1>9, <3>1 DEF Saves!CreateAutosave, Saves!In
        <3>3. \A d \in docs : d.id # written + 1
            BY <1>0 DEF LastThere, SaveTypes, SaveDoc
        <3>4. ~overlapped => reached <= run[r].read
            BY <1>0, <3>2 DEF Alone, Saves!In
        <3>5. run[r].read \in Nat /\ reached \in Nat
            BY <1>0 DEF SaveTypes, SaveRun
        <3>6. ~overlapped => reached' = run[r].read
            BY <3>2, <3>4, <3>5
        <3>7. \A d \in docs' : d.id = written' => d = new
            BY <3>2, <3>3
        <3> QED BY <3>1, <3>2, <3>6, <3>7 DEF HoldsMost
    <2> QED BY <2>1, <2>2
<1>10. ASSUME NEW r \in Runs, Saves!ListOldAutosaves(r)
       PROVE  HoldsMost' /\ CleanedUp'
    <2>1. UNCHANGED <<docs, written, reached, overlapped>>
        BY <1>10 DEF Saves!ListOldAutosaves
    <2>2. CleanedUp'
        BY <1>10, CleanupLists
    <2> QED BY <1>0, <2>1, <2>2, HoldsRests
<1>11. ASSUME NEW r \in Runs, Saves!DeleteOldAutosaves(r)
       PROVE  HoldsMost' /\ CleanedUp'
    <2>1. /\ docs' = docs \ run[r].old /\ run' = [run EXCEPT ![r] = Saves!Resting] /\ run[r].step = "delete"
          /\ UNCHANGED <<written, reached, overlapped, saveFails, app>>
        BY <1>11 DEF Saves!DeleteOldAutosaves, Saves!EndRun, Saves!In
    <2>2. CleanedUp'
        BY <2>1, CleanupEnds
    <2>3. docs' \subseteq docs
        BY <2>1
    <2> QED BY <1>0, <2>1, <2>2, <2>3, HoldsRests
<1>12. CASE Saves!ExpireAutosave
    <2>1. docs' \subseteq docs /\ UNCHANGED <<run, written, reached, overlapped, saveFails, app>>
        BY <1>12 DEF Saves!ExpireAutosave
    <2>2. CleanedUp'
        BY <1>0, <2>1, CleanupShrinks
    <2> QED BY <1>0, <2>1, <2>2, HoldsRests
<1> QED BY Zenon, <1>1, <1>3, <1>4, <1>5, <1>6, <1>7, <1>8, <1>9, <1>10, <1>11, <1>12 DEF Saves!Next, Saves!SaveStep

(* Nothing was edited yet.                                                 *)
LEMMA SaveBegins == Saves!Init => SaveRests
<1> SUFFICES ASSUME Saves!Init PROVE SaveRests
    OBVIOUS
<1>1. SaveShapes
    <2>1. foreign \subseteq 1..content /\ deleted = FALSE /\ saveFails \in 0..MaxSaveFails /\ current = {}
        BY Bounds DEF Saves!Init
    <2>2. timer = [t \in Saves!Timers |-> "unused"] /\ pending = FALSE /\ app = "up"
        BY DEF Saves!Init
    <2>3. timer \in [Saves!Timers -> {"unused", "armed", "running", "over", "cleared", "cancelled"}]
        BY <2>2
    <2> QED BY <2>1, <2>2, <2>3 DEF SaveShapes
<1>2. HoldsMost
    BY DEF Saves!Init, HoldsMost
<1>3. CleanedUp
    <2>0. docs = {} /\ saveFails = 0
        BY DEF Saves!Init
    <2>1. IsFiniteSet(docs)
        BY <2>0, FS_EmptySet
    <2>2. ASSUME NEW S
          PROVE  Cardinality(Left(S)) <= Keep + saveFails + Cardinality(ToCleanUp \ S)
        <3>1. Left(S) = {}
            BY <2>0 DEF Left
        <3>2. Cardinality(Left(S)) = 0 /\ Cardinality(ToCleanUp \ S) \in Nat
            BY <2>1, <3>1, FS_EmptySet, CleanupCounts
        <3> QED BY <2>0, <3>2, Limits
    <2> QED BY <2>1, <2>2 DEF CleanedUp
<1> QED BY <1>1, <1>2, <1>3 DEF SaveRests

(* The other parts leave the autosaves alone.                              *)
LEMMA SavesRest == SaveInv /\ SaveRests /\ UNCHANGED autoVars => SaveInv' /\ SaveRests'
<1> SUFFICES ASSUME SaveInv, SaveRests, UNCHANGED autoVars PROVE SaveInv' /\ SaveRests'
    OBVIOUS
<1>1. SaveInv'
    BY SaveNext
<1>2. UNCHANGED <<content, foreign, deleted, timer, current, pending, run, docs, written, expired, reached,
                overlapped, saveFails, app>>
    BY DEF autoVars
<1>3. SaveShapes'
    BY <1>2 DEF SaveRests, SaveShapes
<1>4. HoldsMost'
    BY <1>2 DEF SaveRests, HoldsMost
<1>5. CleanedUp'
    <2>1. ToCleanUp' = ToCleanUp /\ Deleting' = Deleting /\ \A S : Left(S)' = Left(S)
        BY <1>2 DEF ToCleanUp, Deleting, Left
    <2> HIDE DEF ToCleanUp, Deleting, Left
    <2> QED BY <1>2, <2>1 DEF SaveRests, CleanedUp
<1> QED BY <1>1, <1>3, <1>4, <1>5 DEF SaveRests

(* What the invariant says of the collection and of the newest autosave.   *)
LEMMA SavesKept ==
    SaveInv /\ SaveRests => Saves!TypeOK /\ Saves!CollectionBounded /\ Saves!NewestHoldsMost
<1> SUFFICES ASSUME SaveInv, SaveRests
             PROVE  Saves!TypeOK /\ Saves!CollectionBounded /\ Saves!NewestHoldsMost
    OBVIOUS
<1>0. /\ SaveTypes /\ LastThere /\ ReadsPast /\ SaveShapes /\ HoldsMost /\ CleanedUp
      /\ saveFails \in Nat
    BY Bounds DEF SaveInv, SaveRests, SaveShapes
<1>1. Saves!NewestHoldsMost
    BY <1>0, LatestIsLast DEF Saves!NewestHoldsMost, HoldsMost
<1>2. Saves!CollectionBounded
    <2> SUFFICES ASSUME app # "down"
                 PROVE  Cardinality(docs) <= Keep + saveFails + Cardinality({r \in Runs : ~Saves!In(r, "idle")})
        BY CountsAlike DEF Saves!CollectionBounded
    <2>1. Left({}) = docs /\ ToCleanUp \ {} = ToCleanUp
        BY DEF Left
    <2>2. Cardinality(docs) <= Keep + saveFails + Cardinality(ToCleanUp)
        BY <1>0, <2>1 DEF CleanedUp
    <2>3. ToCleanUp \subseteq {r \in Runs : ~Saves!In(r, "idle")}
        BY DEF ToCleanUp, Saves!In
    <2>4. IsFiniteSet({r \in Runs : ~Saves!In(r, "idle")})
        BY FS_Subset, SetsAssumption
    <2> HIDE DEF ToCleanUp
    <2>5. /\ Cardinality(ToCleanUp) <= Cardinality({r \in Runs : ~Saves!In(r, "idle")})
          /\ Cardinality(ToCleanUp) \in Nat /\ Cardinality({r \in Runs : ~Saves!In(r, "idle")}) \in Nat
        BY <2>3, <2>4, FS_Subset, FS_CardinalityType
    <2>6. Cardinality(docs) \in Nat
        BY <1>0, FS_CardinalityType DEF CleanedUp
    <2> QED BY <1>0, <2>2, <2>5, <2>6, Limits
<1>3. Saves!TypeOK
    <2>1. ASSUME NEW r \in Runs
          PROVE  /\ run[r].step \in {"idle", "read", "latest", "create", "list", "delete"}
                 /\ run[r].by \subseteq Saves!Timers /\ run[r].read \in 0..content
        BY <1>0 DEF SaveTypes, SaveRun, SaveSteps, ReadsPast
    <2>2. \A d \in docs : d.id \in 1..written /\ d.holds \in 0..content /\ d.number \in Nat
        BY <1>0 DEF SaveTypes, SaveDoc, LastThere
    <2>3. current \subseteq Saves!Timers /\ Saves!Cardinality(current) <= 1
        <3>1. CASE current = {}
            <4>1. Cardinality(current) = 0
                BY <3>1, FS_EmptySet
            <4> QED BY <3>1, <4>1, CountsAlike
        <3>2. ASSUME NEW t \in Saves!Timers, current = {t} PROVE current \subseteq Saves!Timers /\ Saves!Cardinality(current) <= 1
            <4>1. Cardinality(current) = 1
                BY <3>2, FS_Singleton
            <4> QED BY <3>2, <4>1, CountsAlike
        <3> QED BY <1>0, <3>1, <3>2 DEF SaveShapes
    <2> QED BY <1>0, <2>1, <2>2, <2>3 DEF Saves!TypeOK, SaveTypes, SaveShapes
<1> QED BY <1>1, <1>2, <1>3

(* What a step of any part is for the autosaves.                           *)
LEMMA SaveMoves == [Next]_vars => Saves!Next \/ UNCHANGED autoVars
BY Zenon DEF Next, Services, Database, Utilities, vars, serviceVars, databaseVars, fileVars, OnAuto,
       OnGateway, OnRequest, OnRate, OnMigrate, OnPool, OnAsync, OnBatch, OnTemp, OnMultipart,
       OnUpload, OnArray, OnObject, Saves!Next

(* Every step of the system keeps what auto-save keeps.                    *)
LEMMA SavesNext ==
    SaveInv /\ SaveRests /\ [Next]_vars =>
        SaveInv' /\ SaveRests' /\ [Saves!Recovered!Next]_<<content, overlapped, written, reached, expired, recovered>>
<1> SUFFICES ASSUME SaveInv, SaveRests, [Next]_vars
             PROVE  SaveInv' /\ SaveRests' /\ [Saves!Recovered!Next]_<<content, overlapped, written, reached, expired, recovered>>
    OBVIOUS
<1>1. [Saves!Next]_autoVars
    BY Zenon, SaveMoves
<1>2. SaveInv' /\ [Saves!Recovered!Next]_<<content, overlapped, written, reached, expired, recovered>>
    BY Zenon, <1>1, SaveNext
<1>3. SaveRests'
    <2>1. CASE UNCHANGED autoVars
        BY Zenon, <2>1, SavesRest
    <2>2. CASE Saves!Next
        BY Zenon, <2>2, ShapesKept, SaveKeeps DEF SaveRests
    <2> QED BY <1>1, <2>1, <2>2
<1> QED BY Zenon, <1>2, <1>3

(* auto-save.service.ts implements Recovery: whatever overlaps, fails, is  *)
(* cancelled or is deleted with it, recoverDesign returns the last         *)
(* autosave that was written until the collection's index deletes it for   *)
(* its age, and that one holds no less than any before unless saves have   *)
(* overlapped.                                                             *)
THEOREM RecoveryImplemented == Spec => ImplementsRecovery
<1>1. Init => SaveInv /\ SaveRests /\ Saves!Recovered!Init
    <2>1. Init => Saves!Init
        BY Zenon DEF Init
    <2> QED BY Zenon, <2>1, SaveInit, SaveBegins
<1>2. [Saves!Recovered!Next]_<<content, overlapped, written, reached, expired, recovered>> => [Saves!Recovered!Next]_Saves!Recovered!recoveryVars
    BY DEF Saves!Recovered!recoveryVars, recovered
<1> QED BY <1>1, <1>2, SavesNext, PTL DEF Spec, ImplementsRecovery, Saves!ImplementsRecovery, Saves!Recovered!Spec

(* The invariant it rests on, and what else it says: the autosaves outgrow *)
(* their limit by the saves in flight and the failures alone, and unless   *)
(* saves have overlapped the newest autosave holds the most.               *)
THEOREM AutosavesKept ==
    Spec => [](SaveInv /\ SaveRests /\ Saves!TypeOK /\ Saves!CollectionBounded /\ Saves!NewestHoldsMost)
<1>1. Init => SaveInv /\ SaveRests
    <2>1. Init => Saves!Init
        BY Zenon DEF Init
    <2> QED BY Zenon, <2>1, SaveInit, SaveBegins
<1> QED BY <1>1, SavesNext, SavesKept, PTL DEF Spec

HIDE DEF Saves!designVars, Saves!timerVars, Saves!docVars

-----------------------------------------------------------------------------
(***************************************************************************)
(* The pool's monitor.                                                     *)
(***************************************************************************)
SessionStates == {"none", "active", "lock", "idle"}
PoolTypes ==
    /\ session \in [Connections -> SessionStates] /\ monitoring \in BOOLEAN
    /\ queries \in 0..MaxQueries /\ readFailures \in 0..MaxReadFailures

(* The connections the monitor reads with are active.                      *)
ReadsItself == reading \subseteq Connections /\ \A c \in reading : session[c] = "active"
Agrees(s) ==
    /\ s.stats.total <= Cardinality(Connections) /\ s.isHealthy \in BOOLEAN
    /\ s.stats.active + s.stats.idle = s.stats.total
    /\ s.isHealthy <=> s.warnings \cap {"critical", "waiting"} = {}
    /\ "critical" \in s.warnings => "low idle" \in s.warnings /\ "warning" \notin s.warnings
PoolInv == PoolTypes /\ ReadsItself /\ \A s \in status : Agrees(s)

(* The sessions in a state, counted.                                       *)
LEMMA SessionsCounted ==
    ASSUME NEW A
    PROVE  /\ Pool!CountOf(A) = Cardinality({c \in Connections : session[c] \in A})
           /\ Pool!CountOf(A) \in Nat /\ Pool!CountOf(A) <= Cardinality(Connections)
           /\ Cardinality(Connections) \in Nat
<1>1. PICK S : S = {c \in Connections : session[c] \in A}
    OBVIOUS
<1>2. Pool!CountOf(A) = Cardinality(S)
    BY <1>1, CountsAlike DEF Pool!CountOf
<1>3. IsFiniteSet(S) /\ S \subseteq Connections /\ IsFiniteSet(Connections)
    BY <1>1, FS_Subset, SetsAssumption
<1>4. Cardinality(S) \in Nat /\ Cardinality(Connections) \in Nat /\ Cardinality(S) <= Cardinality(Connections)
    BY <1>3, FS_Subset, FS_CardinalityType
<1> QED BY <1>1, <1>2, <1>4

(* A report of statistics that add up agrees with itself: 95 of a hundred  *)
(* active leave less than ten idle.                                        *)
LEMMA ReportAgrees ==
    ASSUME NEW total \in Nat, NEW act \in Nat, NEW idle \in Nat, NEW waiting \in Nat,
           act + idle = total, total <= Cardinality(Connections),
           NEW s, s = [total |-> total, active |-> act, idle |-> idle, waiting |-> waiting]
    PROVE  Agrees(Pool!Report(s))
<1>1. s.total = total /\ s.active = act /\ s.idle = idle /\ s.waiting = waiting
    OBVIOUS
<1>2. Pool!Utilized(s, 95) => total > 0 /\ 100 * idle < 10 * total
    BY <1>1 DEF Pool!Utilized
<1>3. PICK r : r = Pool!Report(s)
    OBVIOUS
<1>4. r.stats = s /\ r.isHealthy = (~Pool!Utilized(s, 95) /\ s.waiting = 0)
    BY <1>3 DEF Pool!Report
<1>5. /\ "critical" \in r.warnings <=> Pool!Utilized(s, 95)
      /\ "waiting" \in r.warnings <=> s.waiting > 0
      /\ "warning" \in r.warnings <=> Pool!Utilized(s, 80) /\ ~Pool!Utilized(s, 95)
      /\ "low idle" \in r.warnings <=> s.total > 0 /\ 100 * s.idle < 10 * s.total
    <2> HIDE DEF Pool!Utilized
    <2> QED BY <1>3 DEF Pool!Report
<1> HIDE DEF Pool!Utilized, Pool!Report
<1>6. r.isHealthy \in BOOLEAN
    BY <1>4
<1>7. r.isHealthy <=> "critical" \notin r.warnings /\ "waiting" \notin r.warnings
    <2>1. s.waiting = 0 <=> ~(s.waiting > 0)
        BY ONLY <1>1
    <2> QED BY ONLY Zenon, <1>4, <1>5, <2>1
<1>8. r.isHealthy <=> r.warnings \cap {"critical", "waiting"} = {}
    BY <1>7
<1>9. "critical" \in r.warnings => "low idle" \in r.warnings /\ "warning" \notin r.warnings
    BY <1>1, <1>2, <1>5
<1>10. r.stats.total <= Cardinality(Connections) /\ r.stats.active + r.stats.idle = r.stats.total
    BY <1>1, <1>4
<1>11. Agrees(r)
    BY <1>6, <1>8, <1>9, <1>10 DEF Agrees
<1> QED BY ONLY <1>3, <1>11

(* The sessions add up, and so do zeros.                                   *)
LEMMA SessionsAgree ==
    ASSUME PoolTypes
    PROVE  Agrees(Pool!Report(Pool!Stats)) /\ Agrees(Pool!Report(Pool!NoStats))
<1>0. Cardinality(Connections) \in Nat
    BY SessionsCounted
<1>1. PICK total \in Nat : total = Pool!CountOf({"active", "lock", "idle"})
    BY SessionsCounted
<1>2. PICK act \in Nat : act = Pool!CountOf({"active", "lock"})
    BY SessionsCounted
<1>3. PICK idle \in Nat : idle = Pool!CountOf({"idle"})
    BY SessionsCounted
<1>4. PICK waiting \in Nat : waiting = Pool!CountOf({"lock", "idle"})
    BY SessionsCounted
<1>5. total <= Cardinality(Connections)
    BY <1>1, SessionsCounted
<1>6. act + idle = total
    <2>1. PICK S : S = {c \in Connections : session[c] \in {"active", "lock"}}
        OBVIOUS
    <2>2. PICK T : T = {c \in Connections : session[c] \in {"idle"}}
        OBVIOUS
    <2>3. S \cup T = {c \in Connections : session[c] \in {"active", "lock", "idle"}}
        BY <2>1, <2>2
    <2>4. IsFiniteSet(S) /\ IsFiniteSet(T) /\ \A x \in S : x \notin T
        BY <2>1, <2>2, FS_Subset, SetsAssumption
    <2>5. Cardinality(S \cup T) = Cardinality(S) + Cardinality(T)
        BY <2>4, CountsAdd
    <2>6. act = Cardinality(S) /\ idle = Cardinality(T) /\ total = Cardinality(S \cup T)
        BY <1>1, <1>2, <1>3, <2>1, <2>2, <2>3, SessionsCounted
    <2> QED BY <2>5, <2>6
<1>7. Pool!Stats = [total |-> total, active |-> act, idle |-> idle, waiting |-> waiting]
    BY <1>1, <1>2, <1>3, <1>4 DEF Pool!Stats
<1>8. Pool!NoStats = [total |-> 0, active |-> 0, idle |-> 0, waiting |-> 0]
    BY DEF Pool!NoStats
<1> HIDE DEF Agrees, Pool!Report, Pool!Stats, Pool!NoStats
<1> QED BY <1>0, <1>5, <1>6, <1>7, <1>8, ReportAgrees

(* Every step of the pool keeps the invariant.                             *)
LEMMA PoolSteps ==
    ASSUME PoolInv, Pool!Next
    PROVE  PoolInv'
<1>0. PoolTypes /\ ReadsItself /\ (\A s \in status : Agrees(s)) /\ MaxQueries \in Nat /\ MaxReadFailures \in Nat
    BY Bounds DEF PoolInv
<1>1. PoolTypes'
    <2>1. session' = session \/ \E c \in Connections, s \in SessionStates : session' = [session EXCEPT ![c] = s]
        BY DEF SessionStates, Pool!Next, Pool!Query, Pool!Wait, Pool!Answered, Pool!Close,
               Pool!GetPoolHealth, Pool!GetPoolStats, Pool!StopMonitoring
    <2>2. queries' = queries \/ (queries < MaxQueries /\ queries' = queries + 1)
        BY DEF Pool!Next, Pool!Query, Pool!Wait, Pool!Answered, Pool!Close,
               Pool!GetPoolHealth, Pool!GetPoolStats, Pool!StopMonitoring
    <2>3. readFailures' = readFailures \/ (readFailures < MaxReadFailures /\ readFailures' = readFailures + 1)
        BY DEF Pool!Next, Pool!Query, Pool!Wait, Pool!Answered, Pool!Close,
               Pool!GetPoolHealth, Pool!GetPoolStats, Pool!StopMonitoring
    <2>4. monitoring' = monitoring \/ monitoring' = FALSE
        BY DEF Pool!Next, Pool!Query, Pool!Wait, Pool!Answered, Pool!Close,
               Pool!GetPoolHealth, Pool!GetPoolStats, Pool!StopMonitoring
    <2>5. session' \in [Connections -> SessionStates]
        <3>1. ASSUME NEW c \in Connections, NEW s \in SessionStates, session' = [session EXCEPT ![c] = s]
              PROVE  session' \in [Connections -> SessionStates]
            BY <1>0, <3>1 DEF PoolTypes
        <3> QED BY <1>0, <2>1, <3>1 DEF PoolTypes
    <2>6. monitoring' \in BOOLEAN
        BY Zenon, <1>0, <2>4 DEF PoolTypes
    <2>7. queries' \in 0..MaxQueries /\ readFailures' \in 0..MaxReadFailures
        BY <1>0, <2>2, <2>3 DEF PoolTypes
    <2> QED BY Zenon, <2>5, <2>6, <2>7 DEF PoolTypes
<1>2. ReadsItself'
    BY <1>0 DEF PoolTypes, ReadsItself, Pool!Next, Pool!Query, Pool!Wait, Pool!Answered, Pool!Close,
                Pool!GetPoolHealth, Pool!GetPoolStats, Pool!StopMonitoring
<1>3. \A s \in status' : Agrees(s)
    <2>1. CASE status' = status
        BY <1>0, <2>1
    <2>2. ASSUME NEW c \in Connections, Pool!GetPoolStats(c)
          PROVE  \A s \in status' : Agrees(s)
        <3>2. status' = {Pool!Report(Pool!Stats)} \/ status' = {Pool!Report(Pool!NoStats)}
            BY <2>2 DEF Pool!GetPoolStats
        <3> HIDE DEF Agrees, Pool!Report, Pool!Stats, Pool!NoStats
        <3> QED BY <1>0, <3>2, SessionsAgree
    <2>3. status' = status \/ \E c \in Connections : Pool!GetPoolStats(c)
        BY DEF Pool!Next, Pool!Query, Pool!Wait, Pool!Answered, Pool!Close, Pool!GetPoolHealth, Pool!StopMonitoring
    <2> QED BY <2>1, <2>2, <2>3
<1> QED BY <1>1, <1>2, <1>3 DEF PoolInv

(* The pool at its start.                                                  *)
LEMMA PoolInit == Pool!Init => PoolInv
BY Bounds DEF Pool!Init, PoolInv, PoolTypes, SessionStates, ReadsItself
(* The other parts leave it alone.                                         *)
LEMMA PoolRests == PoolInv /\ UNCHANGED poolVars => PoolInv'
BY DEF PoolInv, PoolTypes, ReadsItself, poolVars

(* What the invariant says of the reports.                                 *)
LEMMA PoolKept == PoolInv => Pool!TypeOK /\ Pool!ReportsAgree
<1> SUFFICES ASSUME PoolInv PROVE Pool!TypeOK /\ Pool!ReportsAgree
    OBVIOUS
<1>1. Pool!ReportsAgree
    BY DEF PoolInv, ReadsItself, Agrees, Pool!ReportsAgree
<1>2. Pool!Cardinality(Connections) = Cardinality(Connections)
    BY CountsAlike
<1> QED BY <1>1, <1>2 DEF PoolInv, PoolTypes, ReadsItself, SessionStates, Agrees, Pool!TypeOK

-----------------------------------------------------------------------------
(***************************************************************************)
(* The books of the gateways.                                              *)
(***************************************************************************)
Kinds == {"catalog", "avatar"}
Holders == Members \cup {"anonymous"}
Holds(s, n, u) == s \in DOMAIN user /\ Namespace[s] = n /\ user[s] = u

(* A user is in the book of a gateway exactly when a socket is theirs, and *)
(* the entry names their sockets;                                          *)
UsersBooked ==
    /\ DOMAIN user \subseteq Sockets /\ \A s \in DOMAIN user : user[s] \in Holders
    /\ DOMAIN userSockets = Kinds /\ \A n \in Kinds : DOMAIN userSockets[n] \subseteq Holders
    /\ \A n \in Kinds, u \in Holders :
         /\ u \in DOMAIN userSockets[n] <=> \E s \in DOMAIN user : Holds(s, n, u)
         /\ u \in DOMAIN userSockets[n] => \A s : s \in userSockets[n][u] <=> Holds(s, n, u)

(* rooms and the book of the categories know of open sockets alone.        *)
CategoryRoom(c) == <<"catalog:category", c>>
RoomsBooked ==
    /\ rooms \subseteq Sockets \X (Gateway!Rooms.catalog \cup Gateway!Rooms.avatar)
    /\ \A r \in rooms : r[1] \in DOMAIN user
    /\ DOMAIN categorySubscriptions \subseteq Categories
    /\ \A c \in DOMAIN categorySubscriptions :
         categorySubscriptions[c] # {} /\ categorySubscriptions[c] \subseteq DOMAIN user
    /\ \A s \in DOMAIN user, c \in Categories :
         <<s, CategoryRoom(c)>> \in rooms => c \in DOMAIN categorySubscriptions /\ s \in categorySubscriptions[c]
Heard == received \in [Sockets -> 0..3] /\ events \in 0..MaxEvents
GatewayInv == UsersBooked /\ RoomsBooked /\ Heard

(* What a map of sets is with an id more ...                               *)
LEMMA AddedTo ==
    ASSUME NEW map, NEW key, NEW id, NEW m, m = Gateway!Added(map, key, id)
    PROVE  /\ \A k : k \in DOMAIN m <=> k \in DOMAIN map \/ k = key
           /\ \A k \in DOMAIN m : \A x :
                x \in m[k] <=> (k \in DOMAIN map /\ x \in map[k]) \/ (k = key /\ x = id)
BY DEF Gateway!Added

(* ... and with an id less.                                                *)
LEMMA RemovedFrom ==
    ASSUME NEW map, NEW keys, NEW id, NEW m, m = Gateway!Removed(map, keys, id)
    PROVE  /\ \A k : k \in DOMAIN m <=>
                k \in DOMAIN map /\ (k \in keys => \E x \in map[k] : x # id)
           /\ \A k \in DOMAIN m : \A x : x \in m[k] <=> x \in map[k] /\ (k \in keys => x # id)
<1>1. DOMAIN m = {j \in DOMAIN map : j \notin keys \/ map[j] \ {id} # {}}
    BY DEF Gateway!Removed
<1>2. \A k \in DOMAIN m : m[k] = IF k \in keys THEN map[k] \ {id} ELSE map[k]
    BY DEF Gateway!Removed
<1>3. \A S : S \ {id} # {} <=> \E x \in S : x # id
    OBVIOUS
<1> QED BY <1>1, <1>2, <1>3

(* A socket that connects is in the book of its user.                      *)
LEMMA Connects ==
    ASSUME UsersBooked, RoomsBooked, NEW s \in Sockets, Gateway!HandleConnection(s)
    PROVE  UsersBooked' /\ RoomsBooked'
<1>1. PICK u \in Holders :
          /\ user' = [t \in DOMAIN user \cup {s} |-> IF t = s THEN u ELSE user[t]]
          /\ userSockets' = [userSockets EXCEPT ![Namespace[s]] = Gateway!Added(@, u, s)]
    BY DEF Gateway!HandleConnection, Holders, Gateway!Open
<1>2. s \notin DOMAIN user /\ UNCHANGED <<rooms, categorySubscriptions>>
    BY DEF Gateway!HandleConnection, Gateway!Open
<1>3. DOMAIN user' = DOMAIN user \cup {s} /\ user'[s] = u /\ \A t \in DOMAIN user : user'[t] = user[t]
    BY <1>1, <1>2
<1>4. DOMAIN userSockets' = Kinds
    BY <1>1 DEF UsersBooked
<1>5. \A n \in Kinds : n # Namespace[s] => userSockets'[n] = userSockets[n]
    BY <1>1 DEF UsersBooked
<1>6. \A t, n, v : Holds(t, n, v)' <=> Holds(t, n, v) \/ (t = s /\ n = Namespace[s] /\ v = u)
    BY <1>2, <1>3 DEF Holds
<1>7. ASSUME NEW n \in Kinds, n = Namespace[s]
      PROVE  /\ DOMAIN userSockets'[n] = DOMAIN userSockets[n] \cup {u}
             /\ \A k \in DOMAIN userSockets'[n] : \A x :
                  x \in userSockets'[n][k] <=> (k \in DOMAIN userSockets[n] /\ x \in userSockets[n][k]) \/ (k = u /\ x = s)
    <2>1. PICK map : map = userSockets[n]
        OBVIOUS
    <2>2. PICK m : m = Gateway!Added(map, u, s)
        OBVIOUS
    <2>3. userSockets' = [userSockets EXCEPT ![Namespace[s]] = m]
        BY <1>1, <1>7, <2>1, <2>2
    <2>4. n \in DOMAIN userSockets
        BY DEF UsersBooked
    <2>5. userSockets'[n] = m
        BY <1>7, <2>3, <2>4
    <2>6. /\ \A k : k \in DOMAIN m <=> k \in DOMAIN map \/ k = u
          /\ \A k \in DOMAIN m : \A x :
               x \in m[k] <=> (k \in DOMAIN map /\ x \in map[k]) \/ (k = u /\ x = s)
        BY <2>2, AddedTo
    <2> QED BY <2>1, <2>5, <2>6
<1>8. ASSUME NEW n \in Kinds
      PROVE  /\ DOMAIN userSockets'[n] \subseteq Holders
             /\ \A v \in Holders :
                  /\ v \in DOMAIN userSockets'[n] <=> \E t \in DOMAIN user' : Holds(t, n, v)'
                  /\ v \in DOMAIN userSockets'[n] => \A t : t \in userSockets'[n][v] <=> Holds(t, n, v)'
    <2>1. /\ DOMAIN userSockets[n] \subseteq Holders
          /\ \A v \in Holders :
               /\ v \in DOMAIN userSockets[n] <=> \E t \in DOMAIN user : Holds(t, n, v)
               /\ v \in DOMAIN userSockets[n] => \A t : t \in userSockets[n][v] <=> Holds(t, n, v)
        BY DEF UsersBooked
    <2> HIDE DEF Holds
    <2>2. CASE n = Namespace[s]
        <3>1. s \in DOMAIN user' /\ Holds(s, n, u)'
            BY <1>3, <1>6, <2>2
        <3>2. \A t : ~Holds(t, n, u) /\ t # s => ~Holds(t, n, u)'
            BY <1>6
        <3>3. \A v \in Holders : v # u => (v \in DOMAIN userSockets'[n] <=> v \in DOMAIN userSockets[n])
            BY <1>7, <2>2
        <3>4. \A t, v : v # u => (Holds(t, n, v)' <=> Holds(t, n, v))
            BY <1>6
        <3>5. \A t, v : Holds(t, n, v) => t \in DOMAIN user
            BY DEF Holds
        <3>6. ASSUME NEW v \in Holders, v # u
              PROVE  /\ v \in DOMAIN userSockets'[n] <=> \E t \in DOMAIN user' : Holds(t, n, v)'
                     /\ v \in DOMAIN userSockets'[n] => \A t : t \in userSockets'[n][v] <=> Holds(t, n, v)'
            <4>1. (\E t \in DOMAIN user' : Holds(t, n, v)') <=> (\E t \in DOMAIN user : Holds(t, n, v))
                BY <1>3, <3>4, <3>5, <3>6
            <4> QED BY <1>7, <2>1, <2>2, <3>3, <3>4, <3>6, <4>1
        <3>7. /\ u \in DOMAIN userSockets'[n]
              /\ \A t : t \in userSockets'[n][u] <=> Holds(t, n, u)'
            <4>1. u \in DOMAIN userSockets'[n]
                BY <1>7, <2>2
            <4>2. \A t : t \in userSockets'[n][u] <=> (u \in DOMAIN userSockets[n] /\ t \in userSockets[n][u]) \/ t = s
                BY <1>7, <2>2, <4>1
            <4>3. \A t : (u \in DOMAIN userSockets[n] /\ t \in userSockets[n][u]) <=> Holds(t, n, u)
                BY <2>1, <3>5
            <4>4. \A t : Holds(t, n, u)' <=> Holds(t, n, u) \/ t = s
                BY <1>6, <2>2
            <4> QED BY <4>1, <4>2, <4>3, <4>4
        <3>8. DOMAIN userSockets'[n] \subseteq Holders
            BY <1>7, <2>1, <2>2
        <3> QED BY <3>1, <3>6, <3>7, <3>8
    <2>3. CASE n # Namespace[s]
        <3>1. userSockets'[n] = userSockets[n]
            BY <1>5, <2>3
        <3>2. \A t, v : Holds(t, n, v)' <=> Holds(t, n, v)
            BY <1>6, <2>3
        <3>3. \A t, v : Holds(t, n, v) => t \in DOMAIN user
            BY DEF Holds
        <3>4. \A v : (\E t \in DOMAIN user' : Holds(t, n, v)') <=> (\E t \in DOMAIN user : Holds(t, n, v))
            BY <1>3, <3>2, <3>3
        <3> QED BY <2>1, <3>1, <3>2, <3>4
    <2> QED BY <2>2, <2>3
<1>9. UsersBooked'
    <2>1. DOMAIN user' \subseteq Sockets /\ \A t \in DOMAIN user' : user'[t] \in Holders
        BY <1>3 DEF UsersBooked
    <2> QED BY <1>4, <1>8, <2>1 DEF UsersBooked, Holders
<1>10. RoomsBooked'
    <2>1. \A c : <<s, CategoryRoom(c)>> \notin rooms
        BY <1>2 DEF RoomsBooked
    <2> QED BY <1>2, <1>3, <2>1 DEF RoomsBooked, CategoryRoom, Gateway!Rooms
<1> QED BY <1>9, <1>10

(* A socket that closes is in no book.                                     *)
LEMMA Disconnects ==
    ASSUME UsersBooked, RoomsBooked, NEW s \in Sockets, Gateway!HandleDisconnect(s)
    PROVE  UsersBooked' /\ RoomsBooked'
<1>1. /\ s \in DOMAIN user /\ user' = [t \in DOMAIN user \ {s} |-> user[t]]
      /\ rooms' = {r \in rooms : r[1] # s}
      /\ userSockets' = [userSockets EXCEPT ![Namespace[s]] = Gateway!Removed(@, {user[s]}, s)]
      /\ categorySubscriptions' = Gateway!Removed(categorySubscriptions, DOMAIN categorySubscriptions, s)
    BY DEF Gateway!HandleDisconnect, Gateway!Open
<1>2. DOMAIN user' = DOMAIN user \ {s} /\ \A t \in DOMAIN user' : user'[t] = user[t]
    BY <1>1
<1>3. PICK u \in Holders : u = user[s]
    BY <1>1 DEF UsersBooked
<1>4. DOMAIN userSockets' = Kinds
    BY <1>1 DEF UsersBooked
<1>5. \A n \in Kinds : n # Namespace[s] => userSockets'[n] = userSockets[n]
    BY <1>1 DEF UsersBooked
<1>6. \A t, n, v : Holds(t, n, v)' <=> Holds(t, n, v) /\ t # s
    BY <1>2 DEF Holds
<1>7. ASSUME NEW n \in Kinds, n = Namespace[s]
      PROVE  /\ \A k : k \in DOMAIN userSockets'[n] <=>
                  k \in DOMAIN userSockets[n] /\ (k = u => \E x \in userSockets[n][k] : x # s)
             /\ \A k \in DOMAIN userSockets'[n] : \A x :
                  x \in userSockets'[n][k] <=> x \in userSockets[n][k] /\ (k = u => x # s)
    <2>1. PICK map : map = userSockets[n]
        OBVIOUS
    <2>2. PICK m : m = Gateway!Removed(map, {u}, s)
        OBVIOUS
    <2>3. userSockets' = [userSockets EXCEPT ![Namespace[s]] = m]
        BY <1>1, <1>3, <1>7, <2>1, <2>2
    <2>4. n \in DOMAIN userSockets
        BY DEF UsersBooked
    <2>5. userSockets'[n] = m
        BY <1>7, <2>3, <2>4
    <2>6. /\ \A k : k \in DOMAIN m <=> k \in DOMAIN map /\ (k \in {u} => \E x \in map[k] : x # s)
          /\ \A k \in DOMAIN m : \A x : x \in m[k] <=> x \in map[k] /\ (k \in {u} => x # s)
        BY <2>2, RemovedFrom
    <2> QED BY <2>1, <2>5, <2>6
<1>8. ASSUME NEW n \in Kinds
      PROVE  /\ DOMAIN userSockets'[n] \subseteq Holders
             /\ \A v \in Holders :
                  /\ v \in DOMAIN userSockets'[n] <=> \E t \in DOMAIN user' : Holds(t, n, v)'
                  /\ v \in DOMAIN userSockets'[n] => \A t : t \in userSockets'[n][v] <=> Holds(t, n, v)'
    <2>1. /\ DOMAIN userSockets[n] \subseteq Holders
          /\ \A v \in Holders :
               /\ v \in DOMAIN userSockets[n] <=> \E t \in DOMAIN user : Holds(t, n, v)
               /\ v \in DOMAIN userSockets[n] => \A t : t \in userSockets[n][v] <=> Holds(t, n, v)
        BY DEF UsersBooked
    <2>2. \A t, v : Holds(t, n, v) => t \in DOMAIN user
        BY DEF Holds
    <2>3. \A v : Holds(s, n, v) => n = Namespace[s] /\ v = u
        BY <1>3 DEF Holds
    <2> HIDE DEF Holds
    <2>4. \A v : (\E t \in DOMAIN user' : Holds(t, n, v)') <=> (\E t \in DOMAIN user : Holds(t, n, v) /\ t # s)
        BY <1>2, <1>6, <2>2
    <2>5. CASE n = Namespace[s]
        <3>1. DOMAIN userSockets'[n] \subseteq Holders
            BY <1>7, <2>1, <2>5
        <3>2. ASSUME NEW v \in Holders
              PROVE  /\ v \in DOMAIN userSockets'[n] <=> \E t \in DOMAIN user' : Holds(t, n, v)'
                     /\ v \in DOMAIN userSockets'[n] => \A t : t \in userSockets'[n][v] <=> Holds(t, n, v)'
            <4>1. v \in DOMAIN userSockets[n] => \A t : t \in userSockets[n][v] <=> Holds(t, n, v)
                BY <2>1
            <4>2. v \in DOMAIN userSockets'[n] <=> v \in DOMAIN userSockets[n] /\ (v = u => \E x \in userSockets[n][v] : x # s)
                BY <1>7, <2>5
            <4>3. v \in DOMAIN userSockets'[n] =>
                      \A x : x \in userSockets'[n][v] <=> x \in userSockets[n][v] /\ (v = u => x # s)
                BY <1>7, <2>5
            <4>4. v \in DOMAIN userSockets'[n] => \A t : t \in userSockets'[n][v] <=> Holds(t, n, v)'
                BY <1>6, <2>3, <4>1, <4>2, <4>3
            <4>5. v \in DOMAIN userSockets'[n] <=> \E t \in DOMAIN user : Holds(t, n, v) /\ t # s
                BY <2>1, <2>2, <2>3, <4>1, <4>2
            <4> QED BY <2>4, <4>4, <4>5
        <3> QED BY <3>1, <3>2
    <2>6. CASE n # Namespace[s]
        <3>1. userSockets'[n] = userSockets[n]
            BY <1>5, <2>6
        <3>2. \A t, v : Holds(t, n, v)' <=> Holds(t, n, v)
            BY <1>6, <2>3, <2>6
        <3>3. \A v : (\E t \in DOMAIN user' : Holds(t, n, v)') <=> (\E t \in DOMAIN user : Holds(t, n, v))
            BY <2>3, <2>4, <2>6
        <3> QED BY <2>1, <3>1, <3>2, <3>3
    <2> QED BY <2>5, <2>6
<1>9. UsersBooked'
    <2>1. DOMAIN user' \subseteq Sockets /\ \A t \in DOMAIN user' : user'[t] \in Holders
        BY <1>2 DEF UsersBooked
    <2> QED BY <1>4, <1>8, <2>1 DEF UsersBooked, Holders
<1>10. RoomsBooked'
    <2>1. PICK map : map = categorySubscriptions
        OBVIOUS
    <2>2. PICK m : m = Gateway!Removed(map, DOMAIN map, s)
        OBVIOUS
    <2>3. categorySubscriptions' = m
        BY <1>1, <2>1, <2>2
    <2>4. /\ \A k : k \in DOMAIN m <=> k \in DOMAIN map /\ \E x \in map[k] : x # s
          /\ \A k \in DOMAIN m : \A x : x \in m[k] <=> x \in map[k] /\ x # s
        BY <2>2, RemovedFrom
    <2>5. \A c \in DOMAIN m : m[c] # {} /\ m[c] \subseteq DOMAIN user'
        BY <1>2, <2>1, <2>4 DEF RoomsBooked
    <2>6. \A t \in DOMAIN user', c \in Categories : <<t, CategoryRoom(c)>> \in rooms' => c \in DOMAIN m /\ t \in m[c]
        <3> SUFFICES ASSUME NEW t \in DOMAIN user', NEW c \in Categories, <<t, CategoryRoom(c)>> \in rooms'
                     PROVE  c \in DOMAIN m /\ t \in m[c]
            OBVIOUS
        <3>1. <<t, CategoryRoom(c)>> \in rooms /\ t \in DOMAIN user /\ t # s
            BY <1>1, <1>2
        <3>2. c \in DOMAIN map /\ t \in map[c]
            BY <2>1, <3>1 DEF RoomsBooked
        <3> QED BY <2>4, <3>1, <3>2
    <2>7. \A r \in rooms' : r \in rooms /\ r[1] \in DOMAIN user'
        BY <1>1, <1>2 DEF RoomsBooked
    <2>8. rooms' \subseteq Sockets \X (Gateway!Rooms.catalog \cup Gateway!Rooms.avatar)
        BY <2>7 DEF RoomsBooked
    <2>9. DOMAIN m \subseteq Categories
        BY <2>1, <2>4 DEF RoomsBooked
    <2> QED BY <2>3, <2>5, <2>6, <2>7, <2>8, <2>9 DEF RoomsBooked, CategoryRoom, Gateway!Rooms
<1> QED BY <1>9, <1>10

(* Who joins a room of a category is in its book; other rooms have none.   *)
LEMMA Joins ==
    ASSUME UsersBooked, RoomsBooked, NEW s \in Sockets,
           \/ Gateway!HandleSubscribeAll(s) \/ Gateway!HandleSubscribeTrending(s)
           \/ Gateway!HandleSubscribeItem(s) \/ Gateway!HandleSubscribeCategory(s)
           \/ Gateway!HandleSubscribe(s)
    PROVE  UsersBooked' /\ RoomsBooked'
<1> DEFINE AllRooms == Gateway!Rooms.catalog \cup Gateway!Rooms.avatar
<1>1. UNCHANGED <<user, userSockets>> /\ s \in DOMAIN user
    BY DEF Gateway!HandleSubscribeAll, Gateway!HandleSubscribeTrending, Gateway!HandleSubscribeItem,
           Gateway!HandleSubscribeCategory, Gateway!HandleSubscribe, Gateway!Join, Gateway!Open
<1>2. UsersBooked'
    BY <1>1 DEF UsersBooked, Holds
<1>3. ASSUME NEW room \in AllRooms, \A c \in Categories : room # CategoryRoom(c),
             rooms' = rooms \cup {<<s, room>>}, UNCHANGED categorySubscriptions
      PROVE  RoomsBooked'
    BY <1>1, <1>3 DEF RoomsBooked, Gateway!Rooms
<1>4. ASSUME NEW c \in Categories, rooms' = rooms \cup {<<s, CategoryRoom(c)>>},
             categorySubscriptions' = Gateway!Added(categorySubscriptions, c, s)
      PROVE  RoomsBooked'
    <2>1. PICK map : map = categorySubscriptions
        OBVIOUS
    <2>2. PICK m : m = Gateway!Added(map, c, s)
        OBVIOUS
    <2>3. categorySubscriptions' = m
        BY <1>4, <2>1, <2>2
    <2>4. /\ \A k : k \in DOMAIN m <=> k \in DOMAIN map \/ k = c
          /\ \A k \in DOMAIN m : \A x : x \in m[k] <=> (k \in DOMAIN map /\ x \in map[k]) \/ (k = c /\ x = s)
        BY <2>2, AddedTo
    <2>5. \A k \in DOMAIN m : m[k] # {} /\ m[k] \subseteq DOMAIN user'
        BY <1>1, <2>1, <2>4 DEF RoomsBooked
    <2>6. \A t \in DOMAIN user', k \in Categories : <<t, CategoryRoom(k)>> \in rooms' => k \in DOMAIN m /\ t \in m[k]
        <3> SUFFICES ASSUME NEW t \in DOMAIN user', NEW k \in Categories, <<t, CategoryRoom(k)>> \in rooms'
                     PROVE  k \in DOMAIN m /\ t \in m[k]
            OBVIOUS
        <3>1. CASE <<t, CategoryRoom(k)>> \in rooms
            BY <1>1, <2>1, <2>4, <3>1 DEF RoomsBooked
        <3>2. CASE <<t, CategoryRoom(k)>> = <<s, CategoryRoom(c)>>
            <4>1. t = s /\ k = c
                BY <3>2 DEF CategoryRoom
            <4> QED BY <2>4, <4>1
        <3> QED BY <1>4, <3>1, <3>2
    <2>7. CategoryRoom(c) \in AllRooms
        BY DEF CategoryRoom, Gateway!Rooms
    <2>8. rooms' \subseteq Sockets \X AllRooms
        BY <1>4, <2>7 DEF RoomsBooked
    <2>9. (\A r \in rooms' : r[1] \in DOMAIN user') /\ DOMAIN m \subseteq Categories
        BY <1>1, <1>4, <2>1, <2>4 DEF RoomsBooked
    <2> QED BY <2>3, <2>5, <2>6, <2>8, <2>9 DEF RoomsBooked, CategoryRoom, Gateway!Rooms
<1>5. RoomsBooked'
    <2>1. ASSUME NEW room, \A c \in Categories : room # CategoryRoom(c), room \in AllRooms,
                 Gateway!Join(s, room), UNCHANGED categorySubscriptions
          PROVE  RoomsBooked'
        BY <1>3, <2>1 DEF Gateway!Join
    <2>2. ASSUME Gateway!HandleSubscribeAll(s) PROVE RoomsBooked'
        <3>1. <<"catalog", "updates:all">> \in AllRooms /\ \A c : <<"catalog", "updates:all">> # CategoryRoom(c)
            BY DEF CategoryRoom, Gateway!Rooms
        <3> HIDE DEF AllRooms, CategoryRoom
        <3> QED BY <2>1, <2>2, <3>1 DEF Gateway!HandleSubscribeAll
    <2>3. ASSUME Gateway!HandleSubscribeTrending(s) PROVE RoomsBooked'
        <3>1. <<"catalog", "trending">> \in AllRooms /\ \A c : <<"catalog", "trending">> # CategoryRoom(c)
            BY DEF CategoryRoom, Gateway!Rooms
        <3> HIDE DEF AllRooms, CategoryRoom
        <3> QED BY <2>1, <2>3, <3>1 DEF Gateway!HandleSubscribeTrending
    <2>4. ASSUME Gateway!HandleSubscribeItem(s) PROVE RoomsBooked'
        <3>1. PICK topic \in Topics : Gateway!Join(s, <<"catalog:item", topic>>) /\ UNCHANGED categorySubscriptions
            BY <2>4 DEF Gateway!HandleSubscribeItem
        <3>2. <<"catalog:item", topic>> \in AllRooms /\ \A c : <<"catalog:item", topic>> # CategoryRoom(c)
            BY DEF CategoryRoom, Gateway!Rooms
        <3> HIDE DEF AllRooms, CategoryRoom
        <3> QED BY <2>1, <3>1, <3>2
    <2>5. ASSUME Gateway!HandleSubscribe(s) PROVE RoomsBooked'
        <3>1. PICK topic \in Topics : Gateway!Join(s, <<"avatar", topic>>) /\ UNCHANGED categorySubscriptions
            BY <2>5 DEF Gateway!HandleSubscribe
        <3>2. <<"avatar", topic>> \in AllRooms /\ \A c : <<"avatar", topic>> # CategoryRoom(c)
            BY DEF CategoryRoom, Gateway!Rooms
        <3> HIDE DEF AllRooms, CategoryRoom
        <3> QED BY <2>1, <3>1, <3>2
    <2>6. ASSUME Gateway!HandleSubscribeCategory(s) PROVE RoomsBooked'
        <3>1. PICK c \in Categories : /\ rooms' = rooms \cup {<<s, CategoryRoom(c)>>}
                                      /\ categorySubscriptions' = Gateway!Added(categorySubscriptions, c, s)
            BY <2>6 DEF Gateway!HandleSubscribeCategory, Gateway!Join, CategoryRoom
        <3> QED BY <1>4, <3>1
    <2> QED BY <2>2, <2>3, <2>4, <2>5, <2>6
<1> QED BY <1>2, <1>5

(* Who leaves a room stays in the books.                                   *)
LEMMA Unsubscribes ==
    ASSUME UsersBooked, RoomsBooked, NEW s \in Sockets, Gateway!HandleUnsubscribe(s)
    PROVE  UsersBooked' /\ RoomsBooked'
<1>1. UNCHANGED <<user, userSockets, categorySubscriptions>> /\ rooms' \subseteq rooms
    BY DEF Gateway!HandleUnsubscribe
<1>2. UsersBooked'
    BY <1>1 DEF UsersBooked, Holds
<1>3. \A r \in rooms' : r \in rooms /\ r \in Sockets \X (Gateway!Rooms.catalog \cup Gateway!Rooms.avatar)
    BY <1>1 DEF RoomsBooked
<1>4. rooms' \subseteq Sockets \X (Gateway!Rooms.catalog \cup Gateway!Rooms.avatar)
    BY <1>3
<1> QED BY <1>1, <1>2, <1>3, <1>4 DEF RoomsBooked, CategoryRoom, Gateway!Rooms

(* No more than its rooms.                                                 *)
LEMMA AtMost ==
    ASSUME NEW S, IsFiniteSet(S), NEW T, T \subseteq S
    PROVE  /\ IsFiniteSet(T) /\ Gateway!Cardinality(T) \in Nat /\ Gateway!Cardinality(T) <= Cardinality(S)
           /\ Cardinality(S) \in Nat
<1>1. IsFiniteSet(T) /\ Cardinality(T) <= Cardinality(S)
    BY FS_Subset
<1>2. Cardinality(T) \in Nat /\ Cardinality(S) \in Nat
    BY <1>1, FS_CardinalityType
<1>3. Gateway!Cardinality(T) = Cardinality(T)
    BY CountsAlike
<1> QED BY <1>1, <1>2, <1>3

(* An announcement goes to at most three rooms, and a set of them has no   *)
(* more in it than are named.                                              *)
LEMMA ThreeAtMost ==
    ASSUME NEW a, NEW b, NEW c
    PROVE  IsFiniteSet({a, b, c}) /\ Cardinality({a, b, c}) \in 0..3
<1>1. IsFiniteSet({a}) /\ Cardinality({a}) = 1
    BY FS_Singleton
<1>2. IsFiniteSet({a} \cup {b}) /\ (Cardinality({a} \cup {b}) = 1 \/ Cardinality({a} \cup {b}) = 2)
    BY <1>1, FS_AddElement
<1>3. PICK S : S = {a} \cup {b}
    OBVIOUS
<1>4. IsFiniteSet(S \cup {c}) /\ (Cardinality(S \cup {c}) = Cardinality(S) \/ Cardinality(S \cup {c}) = Cardinality(S) + 1)
    BY <1>2, <1>3, FS_AddElement
<1>5. {a, b, c} = S \cup {c}
    BY <1>3
<1> QED BY <1>2, <1>3, <1>4, <1>5

(* What is announced in three rooms reaches a socket three times at most.  *)
LEMMA Announces ==
    ASSUME NEW a, NEW b, NEW c, NEW to, to \subseteq {a, b, c}, Gateway!Announce(to)
    PROVE  received' \in [Sockets -> 0..3]
<1>1. ASSUME NEW s \in Sockets
      PROVE  Gateway!Cardinality({r \in to : <<s, r>> \in rooms}) \in 0..3
    <2>1. PICK S : S = {a, b, c}
        OBVIOUS
    <2>2. IsFiniteSet(S) /\ Cardinality(S) \in 0..3
        BY <2>1, ThreeAtMost
    <2>3. PICK T : T = {r \in to : <<s, r>> \in rooms}
        OBVIOUS
    <2>4. T \subseteq S
        BY <2>1, <2>3
    <2>5. Gateway!Cardinality(T) \in Nat /\ Gateway!Cardinality(T) <= Cardinality(S) /\ Cardinality(S) \in Nat
        BY <2>2, <2>4, AtMost
    <2> QED BY <2>2, <2>3, <2>5
<1>2. received' = [s \in Sockets |-> Gateway!Cardinality({r \in to : <<s, r>> \in rooms})]
    BY DEF Gateway!Announce
<1> QED BY <1>1, <1>2

(* An announcement changes no book.                                        *)
LEMMA Notifies ==
    ASSUME GatewayInv,
           \/ Gateway!NotifyItemCreated \/ Gateway!NotifyItemUpdated \/ Gateway!NotifyItemDeleted
           \/ Gateway!NotifyTrending \/ Gateway!NotifyAll \/ Gateway!NotifyUserRecommendation
           \/ Gateway!EmitProcessing \/ Gateway!HandleProcessingSettled
    PROVE  UNCHANGED <<user, rooms, userSockets, categorySubscriptions>> /\ received' \in [Sockets -> 0..3]
<1>1. UNCHANGED <<user, rooms, userSockets, categorySubscriptions>>
    BY DEF Gateway!NotifyItemCreated, Gateway!NotifyItemUpdated, Gateway!NotifyItemDeleted,
           Gateway!NotifyTrending, Gateway!NotifyAll, Gateway!NotifyUserRecommendation,
           Gateway!EmitProcessing, Gateway!HandleProcessingSettled, Gateway!Announce
<1>2. ASSUME NEW to, NEW a, NEW b, NEW c, to \subseteq {a, b, c}, Gateway!Announce(to)
      PROVE  received' \in [Sockets -> 0..3]
    BY <1>2, Announces
<1>3. ASSUME Gateway!NotifyItemCreated PROVE received' \in [Sockets -> 0..3]
    <2>1. PICK c \in Categories : Gateway!Announce({<<"catalog", "updates:all">>, <<"catalog:category", c>>})
        BY <1>3 DEF Gateway!NotifyItemCreated
    <2>2. \A a, b : {a, b} \subseteq {a, b, b}
        OBVIOUS
    <2> QED BY <2>1, <2>2, <1>2
<1>4. ASSUME Gateway!NotifyItemUpdated PROVE received' \in [Sockets -> 0..3]
    BY <1>2, <1>4 DEF Gateway!NotifyItemUpdated
<1>5. ASSUME Gateway!NotifyItemDeleted PROVE received' \in [Sockets -> 0..3]
    <2>1. PICK topic \in Topics, C \in {{}} \cup {{<<"catalog:category", x>>} : x \in Categories} :
              Gateway!Announce({<<"catalog", "updates:all">>, <<"catalog:item", topic>>} \cup C)
        BY <1>5 DEF Gateway!NotifyItemDeleted
    <2>2. PICK c : C \subseteq {c}
        OBVIOUS
    <2>3. PICK to : to = {<<"catalog", "updates:all">>, <<"catalog:item", topic>>} \cup C
        OBVIOUS
    <2>4. to \subseteq {<<"catalog", "updates:all">>, <<"catalog:item", topic>>, c}
        BY <2>2, <2>3
    <2> QED BY <1>2, <2>1, <2>3, <2>4
<1>6. ASSUME Gateway!NotifyTrending \/ Gateway!EmitProcessing PROVE received' \in [Sockets -> 0..3]
    <2>1. PICK a : Gateway!Announce({a})
        BY <1>6 DEF Gateway!NotifyTrending, Gateway!EmitProcessing
    <2>2. {a} \subseteq {a, a, a}
        OBVIOUS
    <2> QED BY <2>1, <2>2, <1>2
<1>7. ASSUME Gateway!NotifyAll \/ Gateway!NotifyUserRecommendation PROVE received' \in [Sockets -> 0..3]
    BY <1>7 DEF Gateway!NotifyAll, Gateway!NotifyUserRecommendation
<1>8. ASSUME Gateway!HandleProcessingSettled PROVE received' \in [Sockets -> 0..3]
    <2>1. PICK u \in Members, a \in Topics :
             received' = [s \in Sockets |->
                 Gateway!Cardinality({r \in {<<"avatar", a>>} : <<s, r>> \in rooms}) +
                 (IF s \in Gateway!Known("avatar", u) THEN 1 ELSE 0)]
        BY <1>8 DEF Gateway!HandleProcessingSettled
    <2>2. ASSUME NEW s \in Sockets
          PROVE  Gateway!Cardinality({r \in {<<"avatar", a>>} : <<s, r>> \in rooms}) \in 0..1
        <3>1. PICK S : S = {<<"avatar", a>>}
            OBVIOUS
        <3>2. IsFiniteSet(S) /\ Cardinality(S) = 1
            BY <3>1, FS_Singleton
        <3>3. PICK T : T = {r \in S : <<s, r>> \in rooms}
            OBVIOUS
        <3>4. Gateway!Cardinality(T) \in Nat /\ Gateway!Cardinality(T) <= Cardinality(S)
            BY <3>2, <3>3, AtMost
        <3> QED BY <3>1, <3>2, <3>3, <3>4
    <2> HIDE DEF Gateway!Known
    <2> QED BY <2>1, <2>2
<1> QED BY <1>1, <1>3, <1>4, <1>5, <1>6, <1>7, <1>8

(* Every step of the gateways keeps the invariant.                         *)
LEMMA GatewaySteps ==
    ASSUME GatewayInv, Gateway!Next
    PROVE  GatewayInv'
<1> DEFINE Announcing ==
        \/ Gateway!NotifyItemCreated \/ Gateway!NotifyItemUpdated \/ Gateway!NotifyItemDeleted
        \/ Gateway!NotifyTrending \/ Gateway!NotifyAll \/ Gateway!NotifyUserRecommendation
        \/ Gateway!EmitProcessing \/ Gateway!HandleProcessingSettled
<1>0. UsersBooked /\ RoomsBooked /\ received \in [Sockets -> 0..3] /\ events \in 0..MaxEvents /\ MaxEvents \in Nat
    BY Bounds DEF GatewayInv, Heard
<1>1. events' \in 0..MaxEvents
    <2>1. Gateway!Handles
        BY Zenon DEF Gateway!Next, Gateway!HandleConnection, Gateway!HandleDisconnect,
               Gateway!HandleSubscribeAll, Gateway!HandleSubscribeTrending, Gateway!HandleSubscribeItem,
               Gateway!HandleSubscribeCategory, Gateway!HandleSubscribe, Gateway!HandleUnsubscribe,
               Gateway!Join, Gateway!NotifyItemCreated, Gateway!NotifyItemUpdated,
               Gateway!NotifyItemDeleted, Gateway!NotifyTrending, Gateway!NotifyAll,
               Gateway!NotifyUserRecommendation, Gateway!EmitProcessing,
               Gateway!HandleProcessingSettled, Gateway!Announce
    <2> QED BY <1>0, <2>1 DEF Gateway!Handles
<1>2. ASSUME Announcing PROVE UsersBooked' /\ RoomsBooked' /\ received' \in [Sockets -> 0..3]
    <2>1. UNCHANGED <<user, rooms, userSockets, categorySubscriptions>> /\ received' \in [Sockets -> 0..3]
        BY Zenon, <1>2, Notifies
    <2> QED BY <1>0, <2>1 DEF UsersBooked, RoomsBooked, Holds, CategoryRoom, Gateway!Rooms
<1>3. ASSUME NEW s \in Sockets,
             \/ Gateway!HandleConnection(s) \/ Gateway!HandleDisconnect(s) \/ Gateway!HandleUnsubscribe(s)
             \/ Gateway!HandleSubscribeAll(s) \/ Gateway!HandleSubscribeTrending(s)
             \/ Gateway!HandleSubscribeItem(s) \/ Gateway!HandleSubscribeCategory(s)
             \/ Gateway!HandleSubscribe(s)
      PROVE  UsersBooked' /\ RoomsBooked' /\ received' \in [Sockets -> 0..3]
    <2>1. received' = received \/ received' = [received EXCEPT ![s] = 0]
        BY <1>3 DEF Gateway!HandleConnection, Gateway!HandleDisconnect, Gateway!HandleUnsubscribe,
               Gateway!HandleSubscribeAll, Gateway!HandleSubscribeTrending, Gateway!HandleSubscribeItem,
               Gateway!HandleSubscribeCategory, Gateway!HandleSubscribe, Gateway!Join
    <2>2. received' \in [Sockets -> 0..3]
        BY <1>0, <2>1
    <2>3. UsersBooked' /\ RoomsBooked'
        BY Zenon, <1>0, <1>3, Connects, Disconnects, Joins, Unsubscribes
    <2> QED BY <2>2, <2>3
<1>4. UsersBooked' /\ RoomsBooked' /\ received' \in [Sockets -> 0..3]
    BY Zenon, <1>2, <1>3 DEF Gateway!Next
<1> QED BY Zenon, <1>1, <1>4 DEF GatewayInv, Heard

(* The gateways at their start.                                            *)
LEMMA GatewayInit == Gateway!Init => GatewayInv
<1> SUFFICES ASSUME Gateway!Init PROVE GatewayInv
    OBVIOUS
<1>1. UsersBooked
    BY DEF Gateway!Init, UsersBooked, Kinds, Holds, Gateway!NobodyYet
<1>2. RoomsBooked
    BY DEF Gateway!Init, RoomsBooked
<1>3. Heard
    BY Bounds DEF Gateway!Init, Heard
<1> QED BY <1>1, <1>2, <1>3 DEF GatewayInv

(* The other parts leave them alone.                                       *)
LEMMA GatewayRests == GatewayInv /\ UNCHANGED gatewayVars => GatewayInv'
BY DEF GatewayInv, UsersBooked, RoomsBooked, Heard, Holds, CategoryRoom, Gateway!Rooms, gatewayVars

(* What the invariant says of the books.                                   *)
LEMMA GatewayKept == GatewayInv => Gateway!TypeOK /\ Gateway!NoGhosts
<1> SUFFICES ASSUME GatewayInv PROVE Gateway!TypeOK /\ Gateway!NoGhosts
    OBVIOUS
<1>1. UsersBooked /\ RoomsBooked /\ Heard
    BY DEF GatewayInv
<1>2. \A n \in Kinds : \A u \in DOMAIN userSockets[n] : userSockets[n][u] \subseteq Sockets
    BY <1>1 DEF UsersBooked, Holds
<1>3. Gateway!TypeOK
    BY <1>1, <1>2 DEF UsersBooked, RoomsBooked, Heard, Kinds, Holders, Gateway!TypeOK, Gateway!Open
<1>4. ASSUME NEW n \in Kinds, NEW u \in Holders
      PROVE  LET theirs == {s \in DOMAIN user : Namespace[s] = n /\ user[s] = u}
             IN  IF theirs = {} THEN u \notin DOMAIN userSockets[n]
                 ELSE u \in DOMAIN userSockets[n] /\ userSockets[n][u] = theirs
    <2>0. PICK theirs : theirs = {s \in DOMAIN user : Namespace[s] = n /\ user[s] = u}
        OBVIOUS
    <2>1. \A s : s \in theirs <=> Holds(s, n, u)
        BY <2>0 DEF Holds
    <2>2. theirs # {} <=> \E s \in DOMAIN user : Holds(s, n, u)
        BY <2>1 DEF Holds
    <2>3. u \in DOMAIN userSockets[n] <=> \E s \in DOMAIN user : Holds(s, n, u)
        BY <1>1 DEF UsersBooked
    <2>4. u \in DOMAIN userSockets[n] => \A s : s \in userSockets[n][u] <=> Holds(s, n, u)
        BY <1>1 DEF UsersBooked
    <2>5. u \in DOMAIN userSockets[n] => userSockets[n][u] = theirs
        BY <2>1, <2>4
    <2> QED BY <2>0, <2>2, <2>3, <2>5
<1>5. Gateway!NoGhosts
    <2>1. /\ \A r \in rooms : r[1] \in DOMAIN user
          /\ \A c \in DOMAIN categorySubscriptions :
               categorySubscriptions[c] # {} /\ categorySubscriptions[c] \subseteq DOMAIN user
          /\ \A s \in DOMAIN user, c \in Categories :
               <<s, <<"catalog:category", c>>>> \in rooms =>
                   c \in DOMAIN categorySubscriptions /\ s \in categorySubscriptions[c]
        BY <1>1 DEF RoomsBooked, CategoryRoom
    <2>2. \A n \in {"catalog", "avatar"} : \A u \in Members \cup {"anonymous"} :
             LET theirs == {s \in DOMAIN user : Namespace[s] = n /\ user[s] = u}
             IN  IF theirs = {} THEN u \notin DOMAIN userSockets[n]
                 ELSE u \in DOMAIN userSockets[n] /\ userSockets[n][u] = theirs
        BY Zenon, <1>4 DEF Kinds, Holders
    <2> QED BY Zenon, <2>1, <2>2 DEF Gateway!NoGhosts, Gateway!Open
<1> QED BY <1>3, <1>5

-----------------------------------------------------------------------------
(***************************************************************************)
(* The rate limit.                                                         *)
(***************************************************************************)
RateTypes ==
    /\ counter \in Nat /\ allowed \in Nat /\ overlap \in BOOLEAN /\ check \in [Checks -> SUBSET Nat]
    /\ checks \in 0..MaxChecks /\ cacheErrors \in 0..MaxCacheErrors

(* Every call in flight has read one count, and whoever is counted or is   *)
(* in flight has called.                                                   *)
ChecksCounted ==
    /\ \A c \in Checks : \A m \in check[c] : m + 1 <= checks /\ \A n \in check[c] : m = n
    /\ counter <= checks /\ allowed + Cardinality(Rate!Busy) <= checks

(* One call at a time: it has read what the counter still is.              *)
InTurn ==
    /\ \A c, d \in Rate!Busy : c = d
    /\ \A c \in Checks : \A n \in check[c] : n = counter
    /\ allowed <= counter /\ allowed <= Limit
    /\ cacheErrors = 0 => allowed = IF counter < Limit THEN counter ELSE Limit
RateInv == RateTypes /\ ChecksCounted /\ (~overlap => InTurn)

(* The calls in flight, when one has come or is over.                      *)
LEMMA BusyMoves ==
    ASSUME RateTypes, NEW c \in Checks, check' \in [Checks -> SUBSET Nat], \A d \in Checks : d # c => check'[d] = check[d]
    PROVE  /\ Cardinality(Rate!Busy) \in Nat /\ Cardinality(Rate!Busy') \in Nat
           /\ check[c] = {} /\ check'[c] # {} => Cardinality(Rate!Busy') = Cardinality(Rate!Busy) + 1
           /\ check[c] # {} /\ check'[c] = {} => Cardinality(Rate!Busy') = Cardinality(Rate!Busy) - 1
<1>1. PICK S : S = Rate!Busy
    OBVIOUS
<1>2. PICK T : T = Rate!Busy'
    OBVIOUS
<1>3. \A d : d \in S <=> d \in Checks /\ check[d] # {}
    BY <1>1 DEF Rate!Busy
<1>4. \A d : d \in T <=> d \in Checks /\ check'[d] # {}
    BY <1>2 DEF Rate!Busy
<1>5. IsFiniteSet(S)
    <2>1. S \subseteq Checks /\ IsFiniteSet(Checks)
        BY <1>3, SetsAssumption
    <2> QED BY <2>1, FS_Subset
<1>6. \A d : d # c => (d \in T <=> d \in S)
    BY <1>3, <1>4
<1>7. /\ Cardinality(S) \in Nat /\ Cardinality(T) \in Nat
      /\ c \notin S /\ c \in T => Cardinality(T) = Cardinality(S) + 1
      /\ c \in S /\ c \notin T => Cardinality(T) = Cardinality(S) - 1
    BY <1>5, <1>6, OneMoves
<1> QED BY <1>1, <1>2, <1>3, <1>4, <1>7

(* A call reads the counter.                                               *)
LEMMA GetKeeps ==
    ASSUME RateInv, NEW c \in Checks, Rate!GetCount(c)
    PROVE  RateInv'
<1>1. RateTypes /\ ChecksCounted /\ MaxChecks \in Nat /\ check[c] = {} /\ checks < MaxChecks
    BY Bounds DEF RateInv, Rate!GetCount
<1>2. PICK n \in Nat : n = counter
    BY <1>1 DEF RateTypes
<1>3. /\ checks' = checks + 1 /\ check' = [check EXCEPT ![c] = {n}] /\ overlap' = (overlap \/ Rate!Busy # {})
      /\ UNCHANGED <<counter, allowed, cacheErrors>>
    BY <1>2 DEF Rate!GetCount
<1>4. check' \in [Checks -> SUBSET Nat] /\ check'[c] = {n} /\ \A d \in Checks : d # c => check'[d] = check[d]
    BY <1>1, <1>3 DEF RateTypes
<1>5. /\ Cardinality(Rate!Busy) \in Nat /\ Cardinality(Rate!Busy') \in Nat
      /\ Cardinality(Rate!Busy') = Cardinality(Rate!Busy) + 1
    BY <1>1, <1>4, BusyMoves
<1>6. RateTypes'
    <2>1. overlap' \in BOOLEAN
        BY Zenon, <1>3
    <2>2. checks' \in 0..MaxChecks
        BY <1>1, <1>3 DEF RateTypes
    <2> QED BY <1>1, <1>3, <1>4, <2>1, <2>2 DEF RateTypes
<1>7. ChecksCounted'
    <2>1. \A d \in Checks : \A m \in check'[d] : m + 1 <= checks' /\ \A k \in check'[d] : m = k
        BY <1>1, <1>2, <1>3, <1>4 DEF RateTypes, ChecksCounted
    <2>2. counter' <= checks' /\ allowed' + Cardinality(Rate!Busy') <= checks'
        BY <1>1, <1>3, <1>5 DEF RateTypes, ChecksCounted
    <2> QED BY <2>1, <2>2 DEF ChecksCounted
<1>8. ASSUME ~overlap' PROVE InTurn'
    <2>1. ~overlap /\ Rate!Busy = {}
        BY <1>3, <1>8
    <2>2. InTurn
        BY <2>1 DEF RateInv
    <2>3. \A d \in Checks : check[d] = {}
        BY <2>1 DEF Rate!Busy
    <2>4. \A d \in Checks : check'[d] # {} => d = c
        BY <1>4, <2>3
    <2>5. \A d, e \in Rate!Busy' : d = e
        BY <2>4 DEF Rate!Busy
    <2>6. \A d \in Checks : \A k \in check'[d] : k = counter'
        BY <1>2, <1>3, <1>4, <2>4
    <2> QED BY <1>3, <2>2, <2>5, <2>6 DEF InTurn
<1> QED BY <1>6, <1>7, <1>8 DEF RateInv

(* A call is over: what it leaves of the counter.                          *)
LEMMA CallOver ==
    ASSUME RateInv, NEW c \in Checks, NEW n \in check[c], check' = [check EXCEPT ![c] = {}],
           counter' \in {counter, n + 1}, allowed' \in {allowed, allowed + 1}, overlap' = overlap, checks' = checks,
           cacheErrors' \in 0..MaxCacheErrors
    PROVE  /\ RateTypes' /\ ChecksCounted' /\ n \in Nat
           /\ ~overlap => /\ n = counter /\ (\A d, e \in Rate!Busy' : d = e)
                          /\ \A d \in Checks : check'[d] = {}
<1>1. RateTypes /\ ChecksCounted /\ MaxChecks \in Nat
    BY Bounds DEF RateInv
<1>2. check' \in [Checks -> SUBSET Nat] /\ check'[c] = {} /\ \A d \in Checks : d # c => check'[d] = check[d]
    BY <1>1 DEF RateTypes
<1>3. n \in Nat /\ n + 1 <= checks /\ check[c] # {}
    BY <1>1 DEF RateTypes, ChecksCounted
<1>4. /\ Cardinality(Rate!Busy) \in Nat /\ Cardinality(Rate!Busy') \in Nat
      /\ Cardinality(Rate!Busy') = Cardinality(Rate!Busy) - 1
    BY <1>1, <1>2, <1>3, BusyMoves
<1>5. RateTypes'
    BY <1>1, <1>2, <1>3 DEF RateTypes
<1>6. ChecksCounted'
    <2>1. \A d \in Checks : \A m \in check'[d] : m + 1 <= checks' /\ \A k \in check'[d] : m = k
        BY <1>1, <1>2 DEF RateTypes, ChecksCounted
    <2>2. counter' <= checks'
        BY <1>1, <1>3 DEF RateTypes, ChecksCounted
    <2>3. allowed' + Cardinality(Rate!Busy') <= checks'
        BY <1>1, <1>4 DEF RateTypes, ChecksCounted
    <2> QED BY <2>1, <2>2, <2>3 DEF ChecksCounted
<1>7. ASSUME ~overlap
      PROVE  n = counter /\ (\A d, e \in Rate!Busy' : d = e) /\ \A d \in Checks : check'[d] = {}
    <2>1. InTurn
        BY <1>7 DEF RateInv
    <2>2. \A d \in Checks : d # c => check[d] = {}
        BY <1>3, <2>1 DEF InTurn, Rate!Busy
    <2>3. \A d \in Checks : check'[d] = {}
        BY <1>2, <2>2
    <2> QED BY <2>1, <2>3 DEF InTurn, Rate!Busy
<1> QED BY <1>3, <1>5, <1>6, <1>7

(* The count of a check is written back, one more than was read.           *)
LEMMA SetKeeps ==
    ASSUME RateInv, NEW c \in Checks, Rate!SetCount(c)
    PROVE  RateInv'
<1>1. PICK n \in check[c] : counter' = n + 1 /\ allowed' = IF n + 1 <= Limit THEN allowed + 1 ELSE allowed
    BY Zenon DEF Rate!SetCount
<1>2. check' = [check EXCEPT ![c] = {}] /\ overlap' = overlap /\ checks' = checks /\ cacheErrors' = cacheErrors
    BY DEF Rate!SetCount
<1>3. counter' \in {counter, n + 1} /\ allowed' \in {allowed, allowed + 1} /\ cacheErrors' \in 0..MaxCacheErrors
    BY <1>1, <1>2 DEF RateInv, RateTypes
<1>4. /\ RateTypes' /\ ChecksCounted' /\ n \in Nat
      /\ ~overlap => /\ n = counter /\ (\A d, e \in Rate!Busy' : d = e)
                     /\ \A d \in Checks : check'[d] = {}
    <2>1. n \in check[c]
        BY <1>1
    <2> QED BY Zenon, <1>2, <1>3, <2>1, CallOver
<1>5. ASSUME ~overlap' PROVE InTurn'
    <2>1. ~overlap /\ InTurn /\ counter \in Nat /\ allowed \in Nat /\ Limit \in Nat
        BY <1>2, <1>5, Limits DEF RateInv, RateTypes
    <2>2. n = counter /\ (\A d, e \in Rate!Busy' : d = e) /\ \A d \in Checks : check'[d] = {}
        BY <1>4, <2>1
    <2>3. allowed' <= counter' /\ allowed' <= Limit
        BY <1>1, <2>1, <2>2 DEF InTurn
    <2>4. cacheErrors' = 0 => allowed' = IF counter' < Limit THEN counter' ELSE Limit
        BY <1>1, <1>2, <2>1, <2>2 DEF InTurn
    <2> QED BY <2>2, <2>3, <2>4 DEF InTurn
<1> QED BY <1>4, <1>5 DEF RateInv

(* The cache fails, before or after the count was written.                 *)
LEMMA FailureKeeps ==
    ASSUME RateInv, NEW c \in Checks, Rate!CacheFails(c)
    PROVE  RateInv'
<1>1. PICK n \in check[c] : counter' \in {counter, n + 1}
    BY Zenon DEF Rate!CacheFails
<1>2. /\ check' = [check EXCEPT ![c] = {}] /\ overlap' = overlap /\ checks' = checks /\ allowed' = allowed
      /\ cacheErrors' = cacheErrors + 1 /\ cacheErrors < MaxCacheErrors
    BY DEF Rate!CacheFails
<1>3. allowed' \in {allowed, allowed + 1} /\ cacheErrors' \in 0..MaxCacheErrors /\ cacheErrors' # 0
    BY <1>2, Bounds DEF RateInv, RateTypes
<1>4. /\ RateTypes' /\ ChecksCounted' /\ n \in Nat
      /\ ~overlap => /\ n = counter /\ (\A d, e \in Rate!Busy' : d = e)
                     /\ \A d \in Checks : check'[d] = {}
    <2>1. n \in check[c] /\ counter' \in {counter, n + 1}
        BY <1>1
    <2> QED BY Zenon, <1>2, <1>3, <2>1, CallOver
<1>5. ASSUME ~overlap' PROVE InTurn'
    <2>1. ~overlap /\ InTurn /\ counter \in Nat /\ allowed \in Nat
        BY <1>2, <1>5 DEF RateInv, RateTypes
    <2>2. n = counter /\ (\A d, e \in Rate!Busy' : d = e) /\ \A d \in Checks : check'[d] = {}
        BY <1>4, <2>1
    <2>3. allowed' <= counter' /\ allowed' <= Limit
        BY <1>1, <1>2, <2>1, <2>2 DEF InTurn
    <2> QED BY <1>3, <2>2, <2>3 DEF InTurn
<1> QED BY <1>4, <1>5 DEF RateInv

(* The window ends, and the count begins anew.                             *)
LEMMA ExpiryKeeps ==
    ASSUME RateInv, Rate!Expire
    PROVE  RateInv'
<1>1. /\ counter' = 0 /\ allowed' = 0 /\ overlap' = (Rate!Busy # {}) /\ UNCHANGED <<check, checks, cacheErrors>>
      /\ RateTypes /\ ChecksCounted
    BY DEF Rate!Expire, RateInv
<1>2. RateTypes'
    <2>1. overlap' \in BOOLEAN
        BY Zenon, <1>1
    <2> QED BY <1>1, <2>1 DEF RateTypes
<1>3. Rate!Busy' = Rate!Busy /\ Cardinality(Rate!Busy) \in Nat
    <2>1. Rate!Busy \subseteq Checks /\ IsFiniteSet(Checks)
        BY SetsAssumption DEF Rate!Busy
    <2> QED BY <1>1, <2>1, FS_Subset, FS_CardinalityType DEF Rate!Busy
<1>4. ChecksCounted'
    <2>1. counter' <= checks' /\ allowed' + Cardinality(Rate!Busy') <= checks'
        BY <1>1, <1>3 DEF RateTypes, ChecksCounted
    <2> QED BY <1>1, <2>1 DEF ChecksCounted
<1>5. ASSUME ~overlap' PROVE InTurn'
    <2>1. \A d \in Checks : check'[d] = {}
        BY <1>1, <1>5 DEF Rate!Busy
    <2>2. 0 <= Limit /\ 0 = IF 0 < Limit THEN 0 ELSE Limit
        BY Limits
    <2> QED BY <1>1, <2>1, <2>2 DEF InTurn, Rate!Busy
<1> QED BY <1>2, <1>4, <1>5 DEF RateInv

(* Every step of the rate limit keeps the invariant.                       *)
LEMMA RateKeeps == RateInv /\ Rate!Next => RateInv'
BY Zenon, GetKeeps, SetKeeps, FailureKeeps, ExpiryKeeps DEF Rate!Next

(* The rate limit at its start.                                            *)
LEMMA RateInit == Rate!Init => RateInv
<1> SUFFICES ASSUME Rate!Init PROVE RateInv
    OBVIOUS
<1>1. \A c \in Checks : check[c] = {}
    BY DEF Rate!Init
<1>2. Rate!Busy = {} /\ Cardinality(Rate!Busy) = 0
    BY <1>1, FS_EmptySet DEF Rate!Busy
<1>3. RateTypes /\ ChecksCounted
    <2>1. counter = 0 /\ allowed = 0 /\ overlap = FALSE /\ checks = 0 /\ cacheErrors = 0
        BY DEF Rate!Init
    <2>2. check \in [Checks -> SUBSET Nat]
        BY DEF Rate!Init
    <2>3. checks \in 0..MaxChecks /\ cacheErrors \in 0..MaxCacheErrors
        BY <2>1, Bounds
    <2>4. overlap \in BOOLEAN
        BY Zenon, <2>1
    <2>5. RateTypes
        BY <2>1, <2>2, <2>3, <2>4 DEF RateTypes
    <2>6. counter <= checks /\ allowed + Cardinality(Rate!Busy) <= checks
        BY <1>2, <2>1
    <2> QED BY <1>1, <2>5, <2>6 DEF ChecksCounted
<1>4. InTurn
    BY <1>1, <1>2, Limits DEF Rate!Init, InTurn
<1> QED BY <1>3, <1>4 DEF RateInv

(* The other parts leave it alone.                                         *)
LEMMA RateRests == RateInv /\ UNCHANGED rateVars => RateInv'
BY DEF RateInv, RateTypes, ChecksCounted, InTurn, Rate!Busy, rateVars

(* What the invariant says of the rate limit.                              *)
LEMMA RateKept == RateInv => Rate!TypeOK /\ Rate!LimitIsExact
<1> SUFFICES ASSUME RateInv PROVE Rate!TypeOK /\ Rate!LimitIsExact
    OBVIOUS
<1>1. RateTypes /\ ChecksCounted /\ MaxChecks \in Nat
    BY Bounds DEF RateInv
<1>2. Cardinality(Rate!Busy) \in Nat
    <2>1. Rate!Busy \subseteq Checks /\ IsFiniteSet(Checks)
        BY SetsAssumption DEF Rate!Busy
    <2> QED BY <2>1, FS_Subset, FS_CardinalityType
<1>3. counter \in 0..MaxChecks /\ allowed \in 0..MaxChecks
    BY <1>1, <1>2 DEF RateTypes, ChecksCounted
<1>4. ASSUME NEW c \in Checks PROVE check[c] \subseteq 0..MaxChecks /\ Rate!Cardinality(check[c]) <= 1
    <2>1. check[c] \subseteq 0..MaxChecks
        BY <1>1 DEF RateTypes, ChecksCounted
    <2>2. check[c] = {} \/ \E n : check[c] = {n}
        BY <1>1 DEF ChecksCounted
    <2>3. Cardinality(check[c]) <= 1
        BY <2>2, FS_EmptySet, FS_Singleton
    <2> QED BY <2>1, <2>3, CountsAlike
<1>5. Rate!TypeOK
    BY <1>1, <1>3, <1>4 DEF RateTypes, Rate!TypeOK
<1>6. Rate!LimitIsExact
    BY DEF RateInv, InTurn, Rate!LimitIsExact
<1> QED BY <1>5, <1>6

(* Migrations run and are reverted in the order of their list.             *)
LEMMA SevenMigrations ==
    /\ Len(Migrate!Migration) = 7 /\ DOMAIN Migrate!Migration = 1..7
    /\ \A k \in 1..7 : Migrate!Migration[k].make \cup Migrate!Migration[k].keep \subseteq Migrate!All
<1>1. Len(Migrate!Migration) = 7 /\ DOMAIN Migrate!Migration = 1..7
    BY DEF Migrate!Migration
<1> QED BY <1>1 DEF Migrate!All

(* The database before the first migration.                                *)
LEMMA MigrateInit == Migrate!Init => Migrate!TypeOK
BY SevenMigrations DEF Migrate!Init, Migrate!TypeOK

(* Every step of the migrations.                                           *)
LEMMA MigrateKeeps == Migrate!TypeOK /\ Migrate!Next => Migrate!TypeOK'
<1> SUFFICES ASSUME Migrate!TypeOK, Migrate!Next PROVE Migrate!TypeOK'
    OBVIOUS
<1>1. /\ objects \subseteq Migrate!All /\ applied \in 0..deployed /\ deployed \in 0..7 /\ month \in Months
      /\ failed \in {"no", "run", "revert"}
    BY SevenMigrations DEF Migrate!TypeOK
<1>2. /\ objects' \subseteq Migrate!All /\ applied' \in 0..deployed' /\ deployed' \in 0..7 /\ month' \in Months
      /\ failed' \in {"no", "run", "revert"}
    <2>1. CASE Migrate!Release
        BY <1>1, <2>1, SevenMigrations DEF Migrate!Release
    <2>2. CASE Migrate!NextMonth
        BY <1>1, <2>2 DEF Migrate!NextMonth
    <2>3. CASE Migrate!MigrationRun
        <3>1. deployed' = deployed /\ month' = month /\ (failed' = "no" \/ failed' = "run")
              /\ (applied' = applied \/ applied' = deployed)
            BY <2>3 DEF Migrate!MigrationRun
        <3>2. objects' = objects \/ objects' = objects \cup
                  UNION {Migrate!Migration[k].make \cup Migrate!Migration[k].keep : k \in applied + 1..deployed}
            BY Zenon, <2>3 DEF Migrate!MigrationRun
        <3>3. \A k \in applied + 1..deployed : k \in 1..7
            BY <1>1
        <3>4. objects' \subseteq Migrate!All
            <4>1. PICK M : M = UNION {Migrate!Migration[k].make \cup Migrate!Migration[k].keep : k \in applied + 1..deployed}
                OBVIOUS
            <4>2. M \subseteq Migrate!All
                <5> SUFFICES ASSUME NEW x \in M PROVE x \in Migrate!All
                    OBVIOUS
                <5>1. PICK k \in applied + 1..deployed : x \in Migrate!Migration[k].make \cup Migrate!Migration[k].keep
                    BY <4>1
                <5>2. k \in 1..7
                    BY <3>3, <5>1
                <5> QED BY <5>1, <5>2, SevenMigrations
            <4> QED BY <1>1, <3>2, <4>1, <4>2
        <3> QED BY <1>1, <3>1, <3>4
    <2>4. CASE Migrate!MigrationRevert
        <3>1. deployed' = deployed /\ month' = month /\ applied > 0
            BY <2>4 DEF Migrate!MigrationRevert
        <3>2. (objects' = objects /\ applied' = applied /\ failed' = "revert") \/
              (objects' \subseteq objects /\ applied' = applied - 1 /\ failed' = "no")
            BY Zenon, <2>4 DEF Migrate!MigrationRevert
        <3> QED BY <1>1, <3>1, <3>2
    <2> QED BY Zenon, <2>1, <2>2, <2>3, <2>4 DEF Migrate!Next
<1> QED BY <1>2, SevenMigrations DEF Migrate!TypeOK

(* The other parts leave the database alone.                               *)
LEMMA MigrateRests == Migrate!TypeOK /\ UNCHANGED migrationVars => Migrate!TypeOK'
BY Zenon DEF Migrate!TypeOK, migrationVars
=============================================================================
