--------------------------- MODULE Background_proofs ---------------------------
(***************************************************************************)
(* The utilities behind the services, for any number of calls, files,      *)
(* items and failures, and then the parts together.                        *)
(***************************************************************************)
EXTENDS Services_proofs

-----------------------------------------------------------------------------
(***************************************************************************)
(* The temporary files.                                                    *)
(***************************************************************************)
TempSteps == {"idle", "write", "set", "read", "next", "unlink", "forget"}
TempCall == [op : {"none", "create", "get", "delete", "cleanup"}, step : TempSteps,
             ids : Seq(Files), deletedCount : Nat]
Has(k, f) == \E n \in 1..Len(k.ids) : k.ids[n] = f

(* A call goes through ids that have been drawn, each once.                *)
CallSound(k) ==
    /\ k \in TempCall
    /\ k.step \in {"write", "set", "read", "unlink", "forget"} => k.ids # <<>>
    /\ k.step \in {"write", "set"} => Len(k.ids) = 1
    /\ k.deletedCount + Len(k.ids) <= Cardinality(Files)
TempTypes ==
    /\ disk \subseteq used /\ DOMAIN known \subseteq used /\ stranded \subseteq used /\ used \subseteq Files
    /\ \A f \in DOMAIN known : known[f] \in {"fresh", "expired"}
    /\ DOMAIN call = Calls /\ \A c \in Calls : CallSound(call[c])
    /\ interval \in BOOLEAN
    /\ tempCalls \in 0..MaxTempCalls /\ diskErrors \in 0..MaxDiskErrors

(* What a call creates is not known yet and no other call's, and is on     *)
(* disk once it is written; what a call is about to forget is off the disk *)
(* or stranded there.                                                      *)
Owned == \A c \in Calls : \A f : Has(call[c], f) => f \in used
Drawn ==
    \A c \in Calls :
        /\ call[c].step \in {"write", "set"} =>
             /\ call[c].ids[1] \notin DOMAIN known
             /\ \A d \in Calls : d # c => ~Has(call[d], call[c].ids[1])
        /\ call[c].step = "set" => call[c].ids[1] \in disk
        /\ call[c].step = "forget" => call[c].ids[1] \notin disk \/ call[c].ids[1] \in stranded
Accounted ==
    /\ \A f \in DOMAIN known : f \in disk \/ \E c \in Calls : call[c].step = "forget" /\ call[c].ids[1] = f
    /\ \A f \in disk :
         \/ f \in DOMAIN known \/ f \in stranded
         \/ \E c \in Calls : call[c].step = "set" /\ call[c].ids[1] = f
TempInv == TempTypes /\ Owned /\ Drawn /\ Accounted

(* The first of a sequence and the rest.                                   *)
LEMMA FirstAndRest ==
    ASSUME NEW k, CallSound(k), k.ids # <<>>
    PROVE  /\ Head(k.ids) = k.ids[1] /\ k.ids[1] \in Files /\ Has(k, k.ids[1])
           /\ Tail(k.ids) \in Seq(Files) /\ Len(Tail(k.ids)) = Len(k.ids) - 1 /\ Len(k.ids) \in Nat \ {0}
           /\ \A n \in 1..Len(Tail(k.ids)) : n + 1 \in 1..Len(k.ids) /\ Tail(k.ids)[n] = k.ids[n + 1]
BY DEF CallSound, TempCall, Has

(* A call that moves among its own ids, or picks ids the map knows, and    *)
(* touches neither disk nor map, disturbs nothing.                         *)
LEMMA CallMoves ==
    ASSUME TempTypes, Owned, Drawn, Accounted, NEW c \in Calls, NEW k, CallSound(k),
           UNCHANGED <<disk, known, used, stranded>>, call' = [call EXCEPT ![c] = k],
           k.step \notin {"write", "set", "forget"}, call[c].step \notin {"set", "forget"},
           \A f : Has(k, f) => f \in DOMAIN known \/ (call[c].step \notin {"write", "set"} /\ Has(call[c], f))
    PROVE  Owned' /\ Drawn' /\ Accounted'
<1>1. call'[c] = k /\ \A d \in Calls : d # c => call'[d] = call[d]
    BY DEF TempTypes
<1>2. \A f \in DOMAIN known : f \in used
    BY DEF TempTypes
<1>3. Owned'
    <2>1. ASSUME NEW d \in Calls, NEW f, Has(call'[d], f) PROVE f \in used
        BY <1>1, <1>2, <2>1 DEF Owned
    <2> QED BY <2>1 DEF Owned, Has
<1>4. Drawn'
    <2>1. ASSUME NEW d \in Calls, d # c PROVE
             /\ call'[d].step \in {"write", "set"} =>
                  /\ call'[d].ids[1] \notin DOMAIN known
                  /\ \A e \in Calls : e # d => ~Has(call'[e], call'[d].ids[1])
             /\ call'[d].step = "set" => call'[d].ids[1] \in disk
             /\ call'[d].step = "forget" => call'[d].ids[1] \notin disk \/ call'[d].ids[1] \in stranded
        <3>1. call'[d] = call[d]
            BY <1>1, <2>1
        <3>2. /\ call[d].step \in {"write", "set"} =>
                  /\ call[d].ids[1] \notin DOMAIN known
                  /\ \A e \in Calls : e # d => ~Has(call[e], call[d].ids[1])
              /\ call[d].step = "set" => call[d].ids[1] \in disk
              /\ call[d].step = "forget" => call[d].ids[1] \notin disk \/ call[d].ids[1] \in stranded
            BY DEF Drawn
        <3>3. ASSUME call[d].step \in {"write", "set"}, NEW e \in Calls, e # d
              PROVE  ~Has(call'[e], call[d].ids[1])
            BY <1>1, <2>1, <3>2, <3>3
        <3> QED BY <3>1, <3>2, <3>3
    <2>2. c \in Calls /\ call'[c].step \notin {"write", "set", "forget"}
        BY <1>1
    <2> QED BY <2>1, <2>2 DEF Drawn, Has
<1>5. Accounted'
    BY <1>1 DEF Accounted
<1> QED BY <1>3, <1>4, <1>5

(* The types of a call that has moved.                                     *)
LEMMA CallTyped ==
    ASSUME NEW c \in Calls, NEW k, CallSound(k), call' = [call EXCEPT ![c] = k],
           DOMAIN call = Calls, \A d \in Calls : CallSound(call[d])
    PROVE  DOMAIN call' = Calls /\ \A d \in Calls : CallSound(call'[d])
BY Zenon

(* An idle call.                                                           *)
LEMMA Idles == CallSound(Temp!Idle) /\ Temp!Idle.step = "idle" /\ \A f : ~Has(Temp!Idle, f)
<1>1. Temp!Idle \in TempCall /\ Temp!Idle.ids = <<>> /\ Temp!Idle.step = "idle" /\ Temp!Idle.deletedCount = 0
    BY DEF Temp!Idle, TempCall, TempSteps
<1>2. Cardinality(Files) \in Nat
    BY FS_CardinalityType, SetsAssumption
<1> QED BY <1>1, <1>2 DEF CallSound, Has

(* One id is no more than there are, and neither are those of an order of  *)
(* some of them.                                                           *)
LEMMA OneId ==
    ASSUME NEW f \in Files
    PROVE  <<f>> \in Seq(Files) /\ Len(<<f>>) = 1 /\ 1 <= Cardinality(Files)
<1>1. Cardinality(Files) \in Nat /\ Cardinality(Files) # 0
    BY FS_CardinalityType, FS_EmptySet, SetsAssumption
<1> QED BY <1>1

(* The ids of a cleanup are of files there are.                            *)
LEMMA SomeIds ==
    ASSUME NEW S, S \subseteq Files, NEW ids \in Temp!Orders(S)
    PROVE  ids \in Seq(Files) /\ Len(ids) <= Cardinality(Files) /\ \A n \in 1..Len(ids) : ids[n] \in S
<1>1. PICK n \in Nat : n = Cardinality(S) /\ n <= Cardinality(Files)
    BY FS_Subset, FS_CardinalityType, SetsAssumption
<1>2. Temp!Cardinality(S) = n
    BY <1>1, CountsAlike
<1>3. ids \in [1..n -> S]
    BY <1>2 DEF Temp!Orders, Temp!Bijection, Temp!Injection
<1>4. ids \in Seq(S) /\ Len(ids) = n
    BY <1>1, <1>3
<1> QED BY <1>1, <1>3, <1>4

(* A call that begins with ids that the map knows.                         *)
LEMMA TempPicks ==
    ASSUME TempInv, NEW c \in Calls,
           \/ Temp!Get(c) \/ Temp!Delete(c) \/ Temp!Cleanup(c) \/ Temp!CleanupAll(c) \/ Temp!IntervalFires(c)
    PROVE  TempInv'
<1>0. TempTypes /\ Owned /\ Drawn /\ Accounted /\ MaxTempCalls \in Nat
    BY Bounds DEF TempInv
<1>1. /\ UNCHANGED <<disk, known, used, interval, stranded, diskErrors>> /\ call[c].step = "idle"
      /\ tempCalls' \in 0..MaxTempCalls
    <2>1. UNCHANGED <<disk, known, used, interval, stranded, diskErrors>> /\ call[c].step = "idle"
        BY Zenon DEF Temp!Get, Temp!Delete, Temp!Cleanup, Temp!CleanupAll, Temp!IntervalFires, Temp!Begin
    <2>2. tempCalls' = tempCalls \/ (tempCalls < MaxTempCalls /\ tempCalls' = tempCalls + 1)
        BY Zenon DEF Temp!Get, Temp!Delete, Temp!Cleanup, Temp!CleanupAll, Temp!IntervalFires, Temp!Begin
    <2> QED BY <1>0, <2>1, <2>2 DEF TempTypes
<1>2. DOMAIN known \subseteq Files /\ Temp!Expired \subseteq Files /\ Temp!Expired \subseteq DOMAIN known
    BY <1>0 DEF TempTypes, Temp!Expired, Temp!list, Temp!Known
<1>3. \E op \in {"get", "delete", "cleanup"}, now \in {"read", "unlink", "next"}, ids \in Seq(Files) :
          /\ call' = [call EXCEPT ![c] = [Temp!Idle EXCEPT !.op = op, !.step = now, !.ids = ids]]
          /\ Len(ids) <= Cardinality(Files) /\ (now # "next" => Len(ids) = 1)
          /\ \A n \in 1..Len(ids) : ids[n] \in DOMAIN known
    <2>1. ASSUME Temp!Get(c) \/ Temp!Delete(c)
          PROVE  \E f \in DOMAIN known, op \in {"get", "delete"}, now \in {"read", "unlink"} :
                     call' = [call EXCEPT ![c] = [Temp!Idle EXCEPT !.op = op, !.step = now, !.ids = <<f>>]]
        BY <2>1 DEF Temp!Get, Temp!Delete, Temp!Begin, Temp!Known
    <2>2. ASSUME Temp!Cleanup(c) \/ Temp!CleanupAll(c) \/ Temp!IntervalFires(c)
          PROVE  \E S \in {Temp!Expired, DOMAIN known} : \E ids \in Temp!Orders(S) :
                     call' = [call EXCEPT ![c] = [Temp!Idle EXCEPT !.op = "cleanup", !.step = "next", !.ids = ids]]
        BY <2>2, Zenon DEF Temp!Cleanup, Temp!CleanupAll, Temp!IntervalFires, Temp!Begin, Temp!Known
    <2>3. CASE Temp!Get(c) \/ Temp!Delete(c)
        <3>1. PICK f \in DOMAIN known, op \in {"get", "delete"}, now \in {"read", "unlink"} :
                     call' = [call EXCEPT ![c] = [Temp!Idle EXCEPT !.op = op, !.step = now, !.ids = <<f>>]]
            BY <2>1, <2>3
        <3>2. <<f>> \in Seq(Files) /\ Len(<<f>>) = 1 /\ 1 <= Cardinality(Files) /\ \A n \in 1..1 : <<f>>[n] = f
            BY <1>2, OneId
        <3>3. PICK ids : ids = <<f>>
            OBVIOUS
        <3>4. /\ ids \in Seq(Files) /\ Len(ids) <= Cardinality(Files) /\ Len(ids) = 1
              /\ \A n \in 1..Len(ids) : ids[n] \in DOMAIN known
            BY <3>2, <3>3
        <3>5. call' = [call EXCEPT ![c] = [Temp!Idle EXCEPT !.op = op, !.step = now, !.ids = ids]]
            BY <3>1, <3>3
        <3> QED BY <3>4, <3>5
    <2>4. CASE Temp!Cleanup(c) \/ Temp!CleanupAll(c) \/ Temp!IntervalFires(c)
        <3>1. PICK S \in {Temp!Expired, DOMAIN known} : \E ids \in Temp!Orders(S) :
                     call' = [call EXCEPT ![c] = [Temp!Idle EXCEPT !.op = "cleanup", !.step = "next", !.ids = ids]]
            BY <2>2, <2>4
        <3>2. PICK ids \in Temp!Orders(S) :
                     call' = [call EXCEPT ![c] = [Temp!Idle EXCEPT !.op = "cleanup", !.step = "next", !.ids = ids]]
            BY <3>1
        <3>3. S \subseteq Files /\ S \subseteq DOMAIN known
            BY <1>2
        <3>4. ids \in Seq(Files) /\ Len(ids) <= Cardinality(Files) /\ \A n \in 1..Len(ids) : ids[n] \in DOMAIN known
            BY <3>3, SomeIds
        <3> HIDE DEF Temp!Idle
        <3> QED BY <3>2, <3>4
    <2> QED BY <2>3, <2>4
<1>4. PICK op \in {"get", "delete", "cleanup"}, now \in {"read", "unlink", "next"}, ids \in Seq(Files) :
          /\ call' = [call EXCEPT ![c] = [Temp!Idle EXCEPT !.op = op, !.step = now, !.ids = ids]]
          /\ Len(ids) <= Cardinality(Files) /\ (now # "next" => Len(ids) = 1)
          /\ \A n \in 1..Len(ids) : ids[n] \in DOMAIN known
    BY <1>3
<1>5. PICK k : k = [Temp!Idle EXCEPT !.op = op, !.step = now, !.ids = ids]
    OBVIOUS
<1>6. CallSound(k) /\ k.step = now /\ k.ids = ids
    <2>1. k.op = op /\ k.step = now /\ k.ids = ids /\ k.deletedCount = 0 /\ k \in TempCall
        BY <1>5 DEF Temp!Idle, TempCall, TempSteps
    <2>2. ids # <<>> \/ now = "next"
        BY <1>4
    <2> QED BY <1>4, <2>1, <2>2 DEF CallSound
<1>7. call' = [call EXCEPT ![c] = k]
    BY <1>4, <1>5
<1>8. \A f : Has(k, f) => f \in DOMAIN known
    BY <1>4, <1>6 DEF Has
<1>9. Owned' /\ Drawn' /\ Accounted'
    <2>1. k.step \notin {"write", "set", "forget"}
        BY <1>6
    <2> QED BY <1>0, <1>1, <1>6, <1>7, <1>8, <2>1, CallMoves
<1>10. TempTypes'
    <2>1. DOMAIN call' = Calls /\ \A d \in Calls : CallSound(call'[d])
        BY <1>0, <1>6, <1>7, CallTyped DEF TempTypes
    <2> QED BY <1>0, <1>1, <2>1 DEF TempTypes, CallSound, TempCall
<1> QED BY <1>9, <1>10 DEF TempInv

(* A call that reads, or goes on to its next id.                           *)
LEMMA TempGoesOn ==
    ASSUME TempInv, NEW c \in Calls, Temp!ReadFile(c) \/ Temp!CleanNext(c)
    PROVE  TempInv'
<1>0. TempTypes /\ Owned /\ Drawn /\ Accounted /\ CallSound(call[c])
    BY DEF TempInv, TempTypes
<1>1. UNCHANGED <<disk, known, used, interval, stranded, tempCalls, diskErrors>> /\ call[c].step \in {"read", "next"}
    BY DEF Temp!ReadFile, Temp!CleanNext
<1>2. \E k : /\ call' = [call EXCEPT ![c] = k] /\ CallSound(k) /\ k.step \notin {"write", "set", "forget"}
             /\ \A f : Has(k, f) => Has(call[c], f)
    <2>1. CASE call' = [call EXCEPT ![c] = Temp!Idle]
        BY <2>1, Idles
    <2>2. CASE call[c].ids # <<>> /\ call[c].step = "next" /\ call' = [call EXCEPT ![c].step = "unlink"]
        <3>1. PICK k : k = [call[c] EXCEPT !.step = "unlink"]
            OBVIOUS
        <3>2. call' = [call EXCEPT ![c] = k]
            BY <2>2, <3>1
        <3>3. k \in TempCall /\ k.step = "unlink" /\ k.ids = call[c].ids /\ k.deletedCount = call[c].deletedCount
            BY <1>0, <3>1 DEF CallSound, TempCall, TempSteps
        <3>4. call[c].ids # <<>>
            BY <2>2
        <3>5. CallSound(k)
            BY <1>0, <3>3, <3>4 DEF CallSound
        <3> QED BY <3>2, <3>3, <3>5 DEF Has
    <2>3. CASE /\ call[c].ids # <<>> /\ call[c].step = "next"
               /\ call' = [call EXCEPT ![c].ids = Tail(@), ![c].deletedCount = @ + 1]
        <3>1. PICK k : k = [call[c] EXCEPT !.ids = Tail(@), !.deletedCount = @ + 1]
            OBVIOUS
        <3>2. call' = [call EXCEPT ![c] = k]
            BY <1>0, <2>3, <3>1 DEF CallSound, TempCall
        <3>3. PICK rest : rest = Tail(call[c].ids)
            OBVIOUS
        <3>4. /\ rest \in Seq(Files) /\ Len(rest) = Len(call[c].ids) - 1
              /\ \A n \in 1..Len(rest) : n + 1 \in 1..Len(call[c].ids) /\ rest[n] = call[c].ids[n + 1]
            BY <1>0, <2>3, <3>3, FirstAndRest
        <3>5. k \in TempCall /\ k.step = "next" /\ k.ids = rest /\ k.deletedCount = call[c].deletedCount + 1
            <4>1. PICK n \in Nat : n = call[c].deletedCount + 1
                BY <1>0 DEF CallSound, TempCall
            <4>2. k = [call[c] EXCEPT !.ids = rest, !.deletedCount = n]
                BY <3>1, <3>3, <4>1
            <4>3. call[c] \in TempCall /\ call[c].step = "next"
                BY <1>0, <2>3 DEF CallSound
            <4> QED BY <3>4, <4>1, <4>2, <4>3 DEF TempCall, TempSteps
        <3>6. CallSound(k)
            <4>1. /\ call[c].deletedCount \in Nat /\ Len(rest) \in Nat /\ Cardinality(Files) \in Nat
                  /\ Len(call[c].ids) \in Nat
                BY <1>0, <3>4, FS_CardinalityType, SetsAssumption DEF CallSound, TempCall
            <4>2. call[c].deletedCount + Len(call[c].ids) <= Cardinality(Files)
                BY <1>0 DEF CallSound
            <4>3. k.deletedCount + Len(k.ids) <= Cardinality(Files)
                BY <3>4, <3>5, <4>1, <4>2
            <4> QED BY <3>5, <4>3 DEF CallSound
        <3>7. \A f : Has(k, f) => Has(call[c], f)
            BY <3>4, <3>5 DEF Has
        <3> QED BY <3>2, <3>5, <3>6, <3>7
    <2> QED BY <2>1, <2>2, <2>3 DEF Temp!ReadFile, Temp!CleanNext, Temp!Done, Temp!Goto
<1>3. PICK k : /\ call' = [call EXCEPT ![c] = k] /\ CallSound(k) /\ k.step \notin {"write", "set", "forget"}
               /\ \A f : Has(k, f) => Has(call[c], f)
    BY <1>2
<1>4. Owned' /\ Drawn' /\ Accounted'
    BY <1>0, <1>1, <1>3, CallMoves
<1>5. TempTypes'
    <2>1. DOMAIN call' = Calls /\ \A d \in Calls : CallSound(call'[d])
        BY <1>0, <1>3, CallTyped DEF TempTypes
    <2> QED BY <1>0, <1>1, <2>1 DEF TempTypes, CallSound, TempCall
<1> QED BY <1>4, <1>5 DEF TempInv

(* Ids drawn are new: nobody has them.                                     *)
LEMMA TempCreates ==
    ASSUME TempInv, NEW c \in Calls, Temp!Create(c)
    PROVE  TempInv'
<1>0. TempTypes /\ Owned /\ Drawn /\ Accounted /\ MaxTempCalls \in Nat
    BY Bounds DEF TempInv
<1>1. PICK f \in Files \ used :
          /\ call' = [call EXCEPT ![c] = [Temp!Idle EXCEPT !.op = "create", !.step = "write", !.ids = <<f>>]]
          /\ used' = used \cup {f} /\ call[c].step = "idle"
          /\ tempCalls < MaxTempCalls /\ tempCalls' = tempCalls + 1
    BY DEF Temp!Create, Temp!Begin
<1>2. UNCHANGED <<disk, known, interval, stranded, diskErrors>>
    BY DEF Temp!Create
<1>3. PICK k : k = [Temp!Idle EXCEPT !.op = "create", !.step = "write", !.ids = <<f>>]
    OBVIOUS
<1>4. k \in TempCall /\ k.step = "write" /\ k.ids = <<f>> /\ k.deletedCount = 0
    BY <1>3, OneId DEF Temp!Idle, TempCall, TempSteps
<1>5. CallSound(k)
    BY <1>4, OneId DEF CallSound
<1>6. call' = [call EXCEPT ![c] = k]
    BY <1>1, <1>3
<1>7. call'[c] = k /\ \A d \in Calls : d # c => call'[d] = call[d]
    BY <1>0, <1>6 DEF TempTypes
<1>8. k.ids[1] = f /\ \A g : Has(k, g) <=> g = f
    BY <1>4 DEF Has
<1>9. \A d \in Calls : ~Has(call[d], f)
    BY <1>0, <1>1 DEF Owned
<1>10. f \notin DOMAIN known
    BY <1>0, <1>1 DEF TempTypes
<1>11. \A d \in Calls : call[d].step \in {"write", "set"} => Has(call[d], call[d].ids[1])
    BY <1>0 DEF TempTypes, CallSound, TempCall, Has
<1>12. Owned'
    <2>1. ASSUME NEW d \in Calls, NEW g, Has(call'[d], g) PROVE g \in used'
        BY <1>0, <1>1, <1>7, <1>8, <2>1 DEF Owned
    <2> QED BY <2>1 DEF Owned, Has
<1>13. Drawn'
    <2>1. ASSUME NEW d \in Calls, d # c PROVE
             /\ call'[d].step \in {"write", "set"} =>
                  /\ call'[d].ids[1] \notin DOMAIN known
                  /\ \A e \in Calls : e # d => ~Has(call'[e], call'[d].ids[1])
             /\ call'[d].step = "set" => call'[d].ids[1] \in disk
             /\ call'[d].step = "forget" => call'[d].ids[1] \notin disk \/ call'[d].ids[1] \in stranded
        <3>1. call'[d] = call[d]
            BY <1>7, <2>1
        <3>2. /\ call[d].step \in {"write", "set"} =>
                  /\ call[d].ids[1] \notin DOMAIN known
                  /\ \A e \in Calls : e # d => ~Has(call[e], call[d].ids[1])
              /\ call[d].step = "set" => call[d].ids[1] \in disk
              /\ call[d].step = "forget" => call[d].ids[1] \notin disk \/ call[d].ids[1] \in stranded
            BY <1>0 DEF Drawn
        <3>3. ASSUME call[d].step \in {"write", "set"}, NEW e \in Calls, e # d
              PROVE  ~Has(call'[e], call[d].ids[1])
            <4>1. Has(call[d], call[d].ids[1])
                BY <1>11, <3>3
            <4>2. call[d].ids[1] # f
                BY <1>9, <4>1
            <4> QED BY <1>7, <1>8, <3>2, <3>3, <4>2
        <3> QED BY <3>1, <3>2, <3>3
    <2>2. /\ call'[c].step = "write" /\ call'[c].ids[1] = f
          /\ \A e \in Calls : e # c => ~Has(call'[e], f)
        BY <1>4, <1>7, <1>8, <1>9
    <2> QED BY <1>2, <1>10, <2>1, <2>2 DEF Drawn, Has
<1>14. Accounted'
    BY <1>0, <1>1, <1>2, <1>7 DEF Accounted
<1>15. TempTypes'
    <2>1. DOMAIN call' = Calls /\ \A d \in Calls : CallSound(call'[d])
        BY <1>0, <1>5, <1>6, CallTyped DEF TempTypes
    <2> QED BY <1>0, <1>1, <1>2, <2>1 DEF TempTypes, CallSound, TempCall
<1> QED BY <1>12, <1>13, <1>14, <1>15 DEF TempInv

(* A call whose ids stay: its step moves on.                               *)
LEMMA StepMoves ==
    ASSUME TempTypes, NEW c \in Calls, NEW old \in TempSteps, NEW now \in TempSteps,
           call[c].step = old, call' = [call EXCEPT ![c].step = now],
           now \in {"write", "set", "read", "unlink", "forget"} => call[c].ids # <<>>,
           now \in {"write", "set"} => Len(call[c].ids) = 1
    PROVE  /\ DOMAIN call' = Calls /\ \A d \in Calls : CallSound(call'[d])
           /\ call'[c].step = now /\ \A d \in Calls : d # c => call'[d] = call[d]
           /\ \A d \in Calls : call'[d].ids = call[d].ids
           /\ \A d \in Calls : \A f : Has(call'[d], f) <=> Has(call[d], f)
<1>1. PICK k : k = [call[c] EXCEPT !.step = now]
    OBVIOUS
<1>2. call' = [call EXCEPT ![c] = k]
    BY <1>1
<1>3. CallSound(call[c]) /\ DOMAIN call = Calls /\ \A d \in Calls : CallSound(call[d])
    BY DEF TempTypes
<1>4. k \in TempCall /\ k.step = now /\ k.ids = call[c].ids /\ k.deletedCount = call[c].deletedCount
    BY <1>1, <1>3 DEF CallSound, TempCall
<1>5. CallSound(k)
    BY <1>3, <1>4 DEF CallSound
<1>6. DOMAIN call' = Calls /\ \A d \in Calls : CallSound(call'[d])
    BY <1>2, <1>3, <1>5, CallTyped
<1>7. call'[c] = k /\ \A d \in Calls : d # c => call'[d] = call[d]
    BY <1>2, <1>3
<1>8. \A d \in Calls : call'[d].ids = call[d].ids
    BY <1>4, <1>7
<1> QED BY <1>4, <1>6, <1>7, <1>8 DEF Has

(* The file of a call that creates.                                        *)
LEMMA TempWrites ==
    ASSUME TempInv, NEW c \in Calls, Temp!WriteFile(c)
    PROVE  TempInv'
<1>0. TempTypes /\ Owned /\ Drawn /\ Accounted /\ CallSound(call[c])
    BY DEF TempInv, TempTypes
<1>1. /\ call[c].step = "write" /\ call' = [call EXCEPT ![c].step = "set"]
      /\ disk' = disk \cup Temp!Range(call[c].ids)
      /\ UNCHANGED <<known, used, interval, stranded, tempCalls, diskErrors>>
    BY DEF Temp!WriteFile, Temp!Goto
<1>2. PICK f : f = call[c].ids[1]
    OBVIOUS
<1>3. Len(call[c].ids) = 1 /\ call[c].ids # <<>> /\ call[c].ids \in Seq(Files)
    BY <1>0, <1>1 DEF CallSound, TempCall
<1>4. Temp!Range(call[c].ids) = {f}
    BY <1>2, <1>3 DEF Temp!Range
<1>5. /\ DOMAIN call' = Calls /\ \A d \in Calls : CallSound(call'[d])
      /\ call'[c].step = "set" /\ \A d \in Calls : d # c => call'[d] = call[d]
      /\ \A d \in Calls : call'[d].ids = call[d].ids
      /\ \A d \in Calls : \A g : Has(call'[d], g) <=> Has(call[d], g)
    BY <1>0, <1>1, <1>3, StepMoves DEF TempSteps
<1>6. Has(call[c], f) /\ f \in used
    BY <1>0, <1>2, <1>3 DEF Has, Owned
<1>7. f \notin DOMAIN known /\ \A d \in Calls : d # c => ~Has(call[d], f)
    BY <1>0, <1>1, <1>2 DEF Drawn
<1>8. Owned'
    BY <1>0, <1>1, <1>5 DEF Owned, Has
<1>9. Drawn'
    <2>1. ASSUME NEW d \in Calls
          PROVE  call'[d].step \in {"write", "set"} =>
                  /\ call'[d].ids[1] \notin DOMAIN known'
                  /\ \A e \in Calls : e # d => ~Has(call'[e], call'[d].ids[1])
        <3>1. call'[d].step \in {"write", "set"} => call[d].step \in {"write", "set"}
            BY <1>1, <1>5
        <3> QED BY <1>0, <1>1, <1>5, <3>1 DEF Drawn
    <2>2. \A d \in Calls : call'[d].step = "set" => call'[d].ids[1] \in disk'
        BY <1>0, <1>1, <1>2, <1>4, <1>5 DEF Drawn
    <2>3. ASSUME NEW d \in Calls, call'[d].step = "forget"
          PROVE  call'[d].ids[1] \notin disk' \/ call'[d].ids[1] \in stranded'
        <3>1. d # c /\ call[d].step = "forget" /\ call[d].ids # <<>>
            BY <1>0, <1>5, <2>3 DEF TempTypes, CallSound
        <3>2. Has(call[d], call[d].ids[1])
            BY <1>0, <3>1, FirstAndRest DEF TempTypes
        <3>3. call[d].ids[1] # f
            BY <1>7, <3>1, <3>2
        <3> QED BY <1>0, <1>1, <1>4, <1>5, <3>1, <3>3 DEF Drawn
    <2> QED BY <2>1, <2>2, <2>3 DEF Drawn, Has
<1>10. Accounted'
    <2>1. \A g \in DOMAIN known' : g \in disk' \/ \E d \in Calls : call'[d].step = "forget" /\ call'[d].ids[1] = g
        BY <1>0, <1>1, <1>5 DEF Accounted
    <2>2. ASSUME NEW g \in disk'
          PROVE  \/ g \in DOMAIN known' \/ g \in stranded'
                 \/ \E d \in Calls : call'[d].step = "set" /\ call'[d].ids[1] = g
        <3>1. CASE g = f
            BY <1>2, <1>5, <3>1
        <3>2. CASE g \in disk
            BY <1>0, <1>1, <1>5, <3>2 DEF Accounted
        <3> QED BY <1>1, <1>4, <3>1, <3>2
    <2> QED BY <2>1, <2>2 DEF Accounted
<1>11. TempTypes'
    BY <1>0, <1>1, <1>4, <1>5, <1>6 DEF TempTypes, CallSound, TempCall
<1> QED BY <1>8, <1>9, <1>10, <1>11 DEF TempInv

(* A write that fails leaves what nobody knows, and is not begun again.    *)
LEMMA TempWriteFails ==
    ASSUME TempInv, NEW c \in Calls, Temp!WriteFails(c)
    PROVE  TempInv'
<1>0. TempTypes /\ Owned /\ Drawn /\ Accounted /\ MaxDiskErrors \in Nat
    BY Bounds DEF TempInv
<1>9. call[c].step = "write" /\ Len(call[c].ids) = 1 /\ call[c].ids # <<>> /\ call[c].ids \in Seq(Files)
    BY <1>0 DEF Temp!WriteFails, TempTypes, CallSound, TempCall
<1>10. Temp!Range(call[c].ids) = {call[c].ids[1]} /\ Has(call[c], call[c].ids[1])
    BY <1>9 DEF Temp!Range, Has
<1>1. PICK rest : /\ \A f \in rest : Has(call[c], f)
                  /\ disk' = disk \cup rest /\ stranded' = stranded \cup rest
    <2>1. PICK rest \in SUBSET Temp!Range(call[c].ids) : disk' = disk \cup rest /\ stranded' = stranded \cup rest
        BY DEF Temp!WriteFails
    <2>2. \A f \in rest : f = call[c].ids[1]
        BY <1>10, <2>1
    <2> QED BY <1>10, <2>1, <2>2
<1>2. /\ call[c].step = "write" /\ call' = [call EXCEPT ![c] = Temp!Idle]
      /\ diskErrors < MaxDiskErrors /\ diskErrors' = diskErrors + 1
      /\ UNCHANGED <<known, used, interval, tempCalls>>
    BY DEF Temp!WriteFails, Temp!Done
<1>3. call'[c] = Temp!Idle /\ \A d \in Calls : d # c => call'[d] = call[d]
    BY <1>0, <1>2 DEF TempTypes
<1>4. \A f \in rest : f \in used
    BY <1>0, <1>1 DEF Owned
<1>5. TempTypes'
    <2>1. DOMAIN call' = Calls /\ \A d \in Calls : CallSound(call'[d])
        BY <1>0, <1>2, Idles, CallTyped DEF TempTypes
    <2>2. disk' \subseteq used' /\ stranded' \subseteq used' /\ diskErrors' \in 0..MaxDiskErrors
        BY <1>0, <1>1, <1>2, <1>4 DEF TempTypes
    <2> HIDE DEF CallSound
    <2> QED BY <1>0, <1>2, <2>1, <2>2 DEF TempTypes
<1>6. Owned'
    <2>1. ASSUME NEW d \in Calls, NEW f, Has(call'[d], f) PROVE f \in used'
        BY <1>0, <1>2, <1>3, <2>1, Idles DEF Owned
    <2> QED BY <2>1 DEF Owned, Has
<1>7. Drawn'
    <2>1. ASSUME NEW d \in Calls PROVE
             /\ call'[d].step \in {"write", "set"} =>
                  /\ call'[d].ids[1] \notin DOMAIN known'
                  /\ \A e \in Calls : e # d => ~Has(call'[e], call'[d].ids[1])
             /\ call'[d].step = "set" => call'[d].ids[1] \in disk'
             /\ call'[d].step = "forget" => call'[d].ids[1] \notin disk' \/ call'[d].ids[1] \in stranded'
        <3>1. CASE d = c
            BY <1>3, <3>1, Idles
        <3>2. CASE d # c
            <4>1. call'[d] = call[d]
                BY <1>3, <3>2
            <4>2. \A e \in Calls : \A f : Has(call'[e], f) => Has(call[e], f)
                BY <1>3, Idles
            <4> HIDE DEF Has
            <4> QED BY <1>0, <1>1, <1>2, <4>1, <4>2 DEF Drawn
        <3> QED BY <3>1, <3>2
    <2> QED BY <2>1 DEF Drawn, Has
<1>8. Accounted'
    <2>1. \A d \in Calls : call[d].step \in {"forget", "set"} => call'[d] = call[d]
        BY <1>2, <1>3
    <2>2. \A f \in DOMAIN known' : f \in disk' \/ \E d \in Calls : call'[d].step = "forget" /\ call'[d].ids[1] = f
        BY <1>0, <1>1, <1>2, <2>1 DEF Accounted
    <2>3. ASSUME NEW f \in disk'
          PROVE  \/ f \in DOMAIN known' \/ f \in stranded'
                 \/ \E d \in Calls : call'[d].step = "set" /\ call'[d].ids[1] = f
        BY <1>0, <1>1, <1>2, <2>1 DEF Accounted
    <2> QED BY <2>2, <2>3 DEF Accounted
<1> QED BY <1>5, <1>6, <1>7, <1>8 DEF TempInv

(* The entry of a file that is on disk.                                    *)
LEMMA TempSets ==
    ASSUME TempInv, NEW c \in Calls, Temp!SetMetadata(c)
    PROVE  TempInv'
<1>0. TempTypes /\ Owned /\ Drawn /\ Accounted /\ CallSound(call[c])
    BY DEF TempInv, TempTypes
<1>1. /\ call[c].step = "set" /\ call' = [call EXCEPT ![c] = Temp!Idle]
      /\ UNCHANGED <<disk, used, interval, stranded, tempCalls, diskErrors>>
    BY DEF Temp!SetMetadata, Temp!Done
<1>2. PICK f : f = call[c].ids[1]
    OBVIOUS
<1>3. Len(call[c].ids) = 1 /\ call[c].ids # <<>> /\ call[c].ids \in Seq(Files)
    BY <1>0, <1>1 DEF CallSound, TempCall
<1>4. Temp!Range(call[c].ids) = {f}
    BY <1>2, <1>3 DEF Temp!Range
<1>5. known' = [g \in DOMAIN known \cup {f} |-> IF g \in DOMAIN known THEN known[g] ELSE "fresh"]
    BY <1>4 DEF Temp!SetMetadata, Temp!Known
<1>6. f \in disk /\ f \notin DOMAIN known /\ \A d \in Calls : d # c => ~Has(call[d], f)
    BY <1>0, <1>1, <1>2 DEF Drawn
<1>7. call'[c] = Temp!Idle /\ \A d \in Calls : d # c => call'[d] = call[d]
    BY <1>0, <1>1 DEF TempTypes
<1>8. Temp!Idle.step = "idle" /\ \A g : ~Has(Temp!Idle, g)
    BY Idles
<1>9. DOMAIN call' = Calls /\ \A d \in Calls : CallSound(call'[d])
    BY <1>0, <1>1, Idles, CallTyped DEF TempTypes
<1> HIDE DEF Temp!Idle
<1>10. \A d \in Calls : \A g : Has(call'[d], g) => d # c /\ Has(call[d], g)
    BY <1>7, <1>8
<1>11. Owned'
    BY <1>0, <1>1, <1>10 DEF Owned, Has
<1>12. Drawn'
    <2>1. ASSUME NEW d \in Calls, call'[d].step \in {"write", "set"}
          PROVE  /\ call'[d].ids[1] \notin DOMAIN known'
                 /\ \A e \in Calls : e # d => ~Has(call'[e], call'[d].ids[1])
        <3>1. d # c /\ call'[d] = call[d]
            BY <1>7, <1>8, <2>1
        <3>2. call[d].ids # <<>>
            BY <1>0, <2>1, <3>1 DEF TempTypes, CallSound
        <3>3. Has(call[d], call[d].ids[1])
            BY <1>0, <3>2, FirstAndRest DEF TempTypes
        <3>4. call[d].ids[1] # f
            BY <1>6, <3>1, <3>3
        <3> QED BY <1>0, <1>5, <1>10, <2>1, <3>1, <3>4 DEF Drawn
    <2>2. \A d \in Calls : call'[d].step \in {"set", "forget"} => d # c /\ call'[d] = call[d]
        BY <1>7, <1>8
    <2>3. \A d \in Calls : /\ call'[d].step = "set" => call'[d].ids[1] \in disk'
                           /\ call'[d].step = "forget" => call'[d].ids[1] \notin disk' \/ call'[d].ids[1] \in stranded'
        BY <1>0, <1>1, <2>2 DEF Drawn
    <2> QED BY <2>1, <2>3 DEF Drawn, Has
<1>13. Accounted'
    <2>1. ASSUME NEW g \in DOMAIN known'
          PROVE  g \in disk' \/ \E d \in Calls : call'[d].step = "forget" /\ call'[d].ids[1] = g
        <3>1. CASE g = f
            BY <1>1, <1>6, <3>1
        <3>2. CASE g \in DOMAIN known
            BY <1>0, <1>1, <1>7, <3>2 DEF Accounted
        <3> QED BY <1>5, <3>1, <3>2
    <2>2. ASSUME NEW g \in disk'
          PROVE  \/ g \in DOMAIN known' \/ g \in stranded'
                 \/ \E d \in Calls : call'[d].step = "set" /\ call'[d].ids[1] = g
        <3>1. CASE g \in DOMAIN known \/ g \in stranded \/ g = f
            BY <1>1, <1>5, <3>1
        <3>2. CASE \E d \in Calls : call[d].step = "set" /\ call[d].ids[1] = g
            BY <1>1, <1>2, <1>5, <1>7, <3>2
        <3> QED BY <1>0, <1>1, <3>1, <3>2 DEF Accounted
    <2> QED BY <2>1, <2>2 DEF Accounted
<1>14. TempTypes'
    <2>1. DOMAIN known' \subseteq used' /\ \A g \in DOMAIN known' : known'[g] \in {"fresh", "expired"}
        BY <1>0, <1>1, <1>5, <1>6 DEF TempTypes
    <2> QED BY <1>0, <1>1, <1>9, <2>1 DEF TempTypes, CallSound, TempCall
<1> QED BY <1>11, <1>12, <1>13, <1>14 DEF TempInv

(* A file goes, or is stranded, before its entry.                          *)
LEMMA TempUnlinks ==
    ASSUME TempInv, NEW c \in Calls, Temp!Unlink(c)
    PROVE  TempInv'
<1>0. TempTypes /\ Owned /\ Drawn /\ Accounted /\ CallSound(call[c]) /\ MaxDiskErrors \in Nat
    BY Bounds DEF TempInv, TempTypes
<1>1. /\ call[c].step = "unlink" /\ call' = [call EXCEPT ![c].step = "forget"]
      /\ UNCHANGED <<known, used, interval, tempCalls>>
    BY DEF Temp!Unlink, Temp!Goto
<1>2. PICK f : f = call[c].ids[1]
    OBVIOUS
<1>3. call[c].ids # <<>> /\ Head(call[c].ids) = f
    BY <1>0, <1>1, <1>2, FirstAndRest DEF CallSound
<1>4. \/ disk' = disk \ {f} /\ UNCHANGED <<stranded, diskErrors>>
      \/ /\ f \in disk /\ diskErrors < MaxDiskErrors /\ diskErrors' = diskErrors + 1
         /\ stranded' = stranded \cup {f} /\ UNCHANGED disk
    BY <1>3 DEF Temp!Unlink
<1>5. /\ DOMAIN call' = Calls /\ \A d \in Calls : CallSound(call'[d])
      /\ call'[c].step = "forget" /\ \A d \in Calls : d # c => call'[d] = call[d]
      /\ \A d \in Calls : call'[d].ids = call[d].ids
      /\ \A d \in Calls : \A g : Has(call'[d], g) <=> Has(call[d], g)
    BY <1>0, <1>1, <1>3, StepMoves DEF TempSteps
<1>6. disk' \subseteq disk /\ stranded \subseteq stranded' /\ (f \notin disk' \/ f \in stranded') /\ disk \ disk' \subseteq {f}
    BY <1>4
<1>7. \A d \in Calls : call'[d].step \in {"write", "set"} => d # c /\ call'[d] = call[d]
    BY <1>5
<1>8. Has(call[c], f)
    BY <1>0, <1>2, <1>3, FirstAndRest
<1>9. Owned'
    BY <1>0, <1>1, <1>5 DEF Owned, Has
<1>10. Drawn'
    <2>1. ASSUME NEW d \in Calls, call'[d].step \in {"write", "set"}
          PROVE  /\ call'[d].ids[1] \notin DOMAIN known'
                 /\ \A e \in Calls : e # d => ~Has(call'[e], call'[d].ids[1])
                 /\ call'[d].step = "set" => call'[d].ids[1] \in disk'
        <3>1. d # c /\ call'[d] = call[d]
            BY <1>7, <2>1
        <3>2. call[d].ids[1] # f
            BY <1>0, <1>8, <2>1, <3>1 DEF Drawn
        <3>3. /\ call[d].ids[1] \notin DOMAIN known
              /\ \A e \in Calls : e # d => ~Has(call[e], call[d].ids[1])
              /\ call[d].step = "set" => call[d].ids[1] \in disk
            BY <1>0, <2>1, <3>1 DEF Drawn
        <3> QED BY <1>1, <1>5, <1>6, <3>1, <3>2, <3>3
    <2>2. ASSUME NEW d \in Calls, call'[d].step = "forget"
          PROVE  call'[d].ids[1] \notin disk' \/ call'[d].ids[1] \in stranded'
        <3>1. CASE d = c
            BY <1>2, <1>5, <1>6, <3>1
        <3>2. CASE d # c
            BY <1>0, <1>5, <1>6, <2>2, <3>2 DEF Drawn
        <3> QED BY <3>1, <3>2
    <2> QED BY <2>1, <2>2 DEF Drawn, Has
<1>11. Accounted'
    <2>1. ASSUME NEW g \in DOMAIN known'
          PROVE  g \in disk' \/ \E d \in Calls : call'[d].step = "forget" /\ call'[d].ids[1] = g
        <3>1. CASE g = f
            BY <1>2, <1>5, <3>1
        <3>2. CASE g \in disk
            BY <1>6, <3>1, <3>2
        <3>3. CASE \E d \in Calls : call[d].step = "forget" /\ call[d].ids[1] = g
            BY <1>1, <1>5, <3>3
        <3> QED BY <1>0, <1>1, <3>1, <3>2, <3>3 DEF Accounted
    <2>2. ASSUME NEW g \in disk'
          PROVE  \/ g \in DOMAIN known' \/ g \in stranded'
                 \/ \E d \in Calls : call'[d].step = "set" /\ call'[d].ids[1] = g
        <3>1. \/ g \in DOMAIN known \/ g \in stranded
              \/ \E d \in Calls : call[d].step = "set" /\ call[d].ids[1] = g
            BY <1>0, <1>6 DEF Accounted
        <3> QED BY <1>1, <1>5, <1>6, <3>1
    <2> QED BY <2>1, <2>2 DEF Accounted
<1>12. TempTypes'
    <2>1. disk' \subseteq used' /\ stranded' \subseteq used' /\ diskErrors' \in 0..MaxDiskErrors
        BY <1>0, <1>1, <1>4 DEF TempTypes
    <2> QED BY <1>0, <1>1, <1>5, <2>1 DEF TempTypes, CallSound, TempCall
<1> QED BY <1>9, <1>10, <1>11, <1>12 DEF TempInv

(* The entry goes; a file that is still there is stranded.                 *)
LEMMA TempForgets ==
    ASSUME TempInv, NEW c \in Calls, Temp!ForgetFile(c)
    PROVE  TempInv'
<1>0. TempTypes /\ Owned /\ Drawn /\ Accounted /\ CallSound(call[c])
    BY DEF TempInv, TempTypes
<1>1. call[c].step = "forget" /\ UNCHANGED <<disk, used, interval, stranded, tempCalls, diskErrors>>
    BY DEF Temp!ForgetFile
<1>2. PICK f : f = call[c].ids[1]
    OBVIOUS
<1>3. PICK rest : rest = Tail(call[c].ids)
    OBVIOUS
<1>4. call[c].ids # <<>>
    BY <1>0, <1>1 DEF CallSound
<1>5. /\ Head(call[c].ids) = f
      /\ rest \in Seq(Files) /\ Len(rest) = Len(call[c].ids) - 1
      /\ \A n \in 1..Len(rest) : n + 1 \in 1..Len(call[c].ids) /\ rest[n] = call[c].ids[n + 1]
    BY <1>0, <1>2, <1>3, <1>4, FirstAndRest
<1>6. known' = [g \in DOMAIN known \ {f} |-> known[g]]
    BY <1>5 DEF Temp!ForgetFile, Temp!Forget, Temp!Known
<1>7. \E k : /\ call' = [call EXCEPT ![c] = k] /\ CallSound(k) /\ k.step \in {"idle", "next"}
             /\ \A g : Has(k, g) => Has(call[c], g)
    <2>1. CASE call' = [call EXCEPT ![c] = Temp!Idle]
        BY <2>1, Idles
    <2>2. CASE call' = [call EXCEPT ![c].step = "next", ![c].ids = Tail(@), ![c].deletedCount = @ + 1]
        <3>1. PICK n \in Nat : n = call[c].deletedCount + 1
            BY <1>0 DEF CallSound, TempCall
        <3>2. PICK k : k = [call[c] EXCEPT !.step = "next", !.ids = rest, !.deletedCount = n]
            OBVIOUS
        <3>3. call[c] \in TempCall
            BY <1>0 DEF CallSound
        <3>4. call' = [call EXCEPT ![c] = k]
            BY <1>3, <2>2, <3>1, <3>2, <3>3 DEF TempCall
        <3>5. k \in TempCall /\ k.step = "next" /\ k.ids = rest /\ k.deletedCount = n
            BY <1>5, <3>2, <3>3 DEF TempCall, TempSteps
        <3>6. CallSound(k)
            <4>1. /\ Len(rest) \in Nat /\ Cardinality(Files) \in Nat /\ Len(call[c].ids) \in Nat
                  /\ call[c].deletedCount \in Nat
                BY <3>3, <1>5, FS_CardinalityType, SetsAssumption DEF TempCall
            <4>2. call[c].deletedCount + Len(call[c].ids) <= Cardinality(Files)
                BY <1>0 DEF CallSound
            <4>3. k.deletedCount + Len(k.ids) <= Cardinality(Files)
                BY <1>5, <3>1, <3>5, <4>1, <4>2
            <4> QED BY <3>5, <4>3 DEF CallSound
        <3>7. \A g : Has(k, g) => Has(call[c], g)
            BY <1>5, <3>5 DEF Has
        <3> QED BY <3>4, <3>5, <3>6, <3>7
    <2> QED BY <2>1, <2>2 DEF Temp!ForgetFile, Temp!Done
<1>8. PICK k : /\ call' = [call EXCEPT ![c] = k] /\ CallSound(k) /\ k.step \in {"idle", "next"}
               /\ \A g : Has(k, g) => Has(call[c], g)
    BY <1>7
<1>9. call'[c] = k /\ \A d \in Calls : d # c => call'[d] = call[d]
    BY <1>0, <1>8 DEF TempTypes
<1>10. DOMAIN call' = Calls /\ \A d \in Calls : CallSound(call'[d])
    BY <1>0, <1>8, CallTyped DEF TempTypes
<1>11. \A d \in Calls : \A g : Has(call'[d], g) => Has(call[d], g)
    BY <1>8, <1>9
<1>12. \A d \in Calls : call'[d].step \in {"write", "set", "forget"} => d # c /\ call'[d] = call[d]
    BY <1>8, <1>9
<1>13. Owned'
    BY <1>0, <1>1, <1>11 DEF Owned, Has
<1>14. Drawn'
    <2>1. ASSUME NEW d \in Calls, call'[d].step \in {"write", "set"}
          PROVE  /\ call'[d].ids[1] \notin DOMAIN known'
                 /\ \A e \in Calls : e # d => ~Has(call'[e], call'[d].ids[1])
        <3>1. call'[d] = call[d]
            BY <1>12, <2>1
        <3>2. /\ call[d].ids[1] \notin DOMAIN known
              /\ \A e \in Calls : e # d => ~Has(call[e], call[d].ids[1])
            BY <1>0, <2>1, <3>1 DEF Drawn
        <3> QED BY <1>6, <1>11, <3>1, <3>2
    <2>2. \A d \in Calls : /\ call'[d].step = "set" => call'[d].ids[1] \in disk'
                           /\ call'[d].step = "forget" => call'[d].ids[1] \notin disk' \/ call'[d].ids[1] \in stranded'
        BY <1>0, <1>1, <1>12 DEF Drawn
    <2> QED BY <2>1, <2>2 DEF Drawn, Has
<1>15. Accounted'
    <2>1. ASSUME NEW g \in DOMAIN known'
          PROVE  g \in disk' \/ \E d \in Calls : call'[d].step = "forget" /\ call'[d].ids[1] = g
        <3>1. g \in DOMAIN known /\ g # f
            BY <1>6
        <3>2. g \in disk \/ \E d \in Calls : call[d].step = "forget" /\ call[d].ids[1] = g
            BY <1>0, <3>1 DEF Accounted
        <3> QED BY <1>1, <1>2, <1>9, <3>1, <3>2
    <2>2. ASSUME NEW g \in disk'
          PROVE  \/ g \in DOMAIN known' \/ g \in stranded'
                 \/ \E d \in Calls : call'[d].step = "set" /\ call'[d].ids[1] = g
        <3>1. \/ g \in DOMAIN known \/ g \in stranded
              \/ \E d \in Calls : call[d].step = "set" /\ call[d].ids[1] = g
            BY <1>0, <1>1 DEF Accounted
        <3>2. f \notin disk \/ f \in stranded
            BY <1>0, <1>1, <1>2 DEF Drawn
        <3> QED BY <1>1, <1>6, <1>9, <3>1, <3>2
    <2> QED BY <2>1, <2>2 DEF Accounted
<1>16. TempTypes'
    <2>1. DOMAIN known' \subseteq used' /\ \A g \in DOMAIN known' : known'[g] \in {"fresh", "expired"}
        BY <1>0, <1>1, <1>6 DEF TempTypes
    <2> QED BY <1>0, <1>1, <1>10, <2>1 DEF TempTypes, CallSound, TempCall
<1> QED BY <1>13, <1>14, <1>15, <1>16 DEF TempInv

(* Time passes, and the interval is set or cleared.                        *)
LEMMA TempTicks ==
    ASSUME TempInv,
           Temp!Expire \/ Temp!Extend \/ Temp!ScheduleCleanup \/ Temp!StopScheduledCleanup
    PROVE  TempInv'
<1>0. TempTypes /\ Owned /\ Drawn /\ Accounted /\ MaxTempCalls \in Nat
    BY Bounds DEF TempInv
<1>1. UNCHANGED <<disk, used, call, stranded, diskErrors>>
    BY DEF Temp!Expire, Temp!Extend, Temp!ScheduleCleanup, Temp!StopScheduledCleanup
<1>2. known' = known \/ \E f : \/ known' = [known EXCEPT ![f] = "expired"]
                              \/ known' = [known EXCEPT ![f] = "fresh"]
    BY Zenon DEF Temp!Expire, Temp!Extend, Temp!ScheduleCleanup, Temp!StopScheduledCleanup
<1>3. DOMAIN known' = DOMAIN known /\ \A g \in DOMAIN known : known'[g] \in {"fresh", "expired"}
    BY <1>0, <1>2 DEF TempTypes
<1>4. interval' = interval \/ interval' = TRUE \/ interval' = FALSE
    BY Zenon DEF Temp!Expire, Temp!Extend, Temp!ScheduleCleanup, Temp!StopScheduledCleanup
<1>5. interval' \in BOOLEAN
    BY Zenon, <1>0, <1>4 DEF TempTypes
<1>6. tempCalls' = tempCalls \/ (tempCalls < MaxTempCalls /\ tempCalls' = tempCalls + 1)
    BY DEF Temp!Expire, Temp!Extend, Temp!ScheduleCleanup, Temp!StopScheduledCleanup
<1>7. tempCalls' \in 0..MaxTempCalls
    BY <1>0, <1>6 DEF TempTypes
<1>8. Owned' /\ Drawn' /\ Accounted'
    BY <1>0, <1>1, <1>3 DEF Owned, Drawn, Accounted, Has
<1>9. TempTypes'
    BY <1>0, <1>1, <1>3, <1>5, <1>7 DEF TempTypes, CallSound, TempCall
<1> QED BY <1>8, <1>9 DEF TempInv

(* Nobody knows the files of a process that has ended: they are stranded.  *)
LEMMA TempRestarts ==
    ASSUME TempInv, Temp!Restart
    PROVE  TempInv'
<1>0. TempTypes
    BY DEF TempInv
<1>1. /\ stranded' = disk /\ DOMAIN known' = {} /\ call' = [c \in Calls |-> Temp!Idle] /\ interval' = FALSE
      /\ UNCHANGED <<disk, used, tempCalls, diskErrors>>
    BY DEF Temp!Restart, Temp!Nothing
<1>2. CallSound(Temp!Idle) /\ Temp!Idle.step = "idle" /\ \A f : ~Has(Temp!Idle, f)
    BY Idles
<1> HIDE DEF Temp!Idle
<1>3. DOMAIN call' = Calls /\ \A c \in Calls : call'[c] = Temp!Idle
    BY <1>1
<1>4. Owned' /\ Drawn' /\ Accounted'
    <2>1. \A c \in Calls : \A f : ~Has(call'[c], f)
        BY <1>2, <1>3
    <2>2. \A c \in Calls : call'[c].step = "idle"
        BY <1>2, <1>3
    <2> QED BY <1>1, <2>1, <2>2 DEF Owned, Drawn, Accounted, Has
<1>5. \A c \in Calls : CallSound(call'[c])
    BY <1>2, <1>3
<1>6. TempTypes'
    BY <1>0, <1>1, <1>3, <1>5 DEF TempTypes, CallSound, TempCall
<1> QED BY <1>4, <1>6 DEF TempInv

(* Every step of the temporary files keeps the invariant.                  *)
LEMMA TempKeeps == TempInv /\ Temp!Next => TempInv'
BY Zenon, TempPicks, TempGoesOn, TempCreates, TempWrites, TempWriteFails, TempSets, TempUnlinks, TempForgets,
   TempTicks, TempRestarts DEF Temp!Next

(* The files at the start of the process.                                  *)
LEMMA TempInit == Temp!Init => TempInv
<1> SUFFICES ASSUME Temp!Init PROVE TempInv
    OBVIOUS
<1>1. /\ disk = {} /\ DOMAIN known = {} /\ used = {} /\ call = [c \in Calls |-> Temp!Idle]
      /\ interval = FALSE /\ stranded = {} /\ tempCalls = 0 /\ diskErrors = 0
    BY DEF Temp!Init, Temp!Nothing
<1>2. CallSound(Temp!Idle) /\ Temp!Idle.step = "idle" /\ \A f : ~Has(Temp!Idle, f)
    BY Idles
<1> HIDE DEF Temp!Idle
<1>3. DOMAIN call = Calls /\ \A c \in Calls : call[c] = Temp!Idle
    BY <1>1
<1>4. Owned /\ Drawn /\ Accounted
    BY <1>1, <1>2, <1>3 DEF Owned, Drawn, Accounted
<1>5. TempTypes
    <2>1. interval \in BOOLEAN
        BY Zenon, <1>1
    <2>2. /\ disk \subseteq used /\ DOMAIN known \subseteq used /\ stranded \subseteq used /\ used \subseteq Files
          /\ \A f \in DOMAIN known : known[f] \in {"fresh", "expired"}
        BY <1>1
    <2>3. \A c \in Calls : CallSound(call[c])
        BY <1>2, <1>3
    <2>4. tempCalls \in 0..MaxTempCalls /\ diskErrors \in 0..MaxDiskErrors
        BY <1>1, Bounds
    <2> QED BY Zenon, <1>3, <2>1, <2>2, <2>3, <2>4 DEF TempTypes
<1> QED BY <1>4, <1>5 DEF TempInv

(* The other parts leave them alone.                                       *)
LEMMA TempRests == TempInv /\ UNCHANGED tempVars => TempInv'
BY DEF TempInv, TempTypes, CallSound, TempCall, Owned, Drawn, Accounted, Has, tempVars

(* What the invariant says of the files.                                   *)
LEMMA TempKept == TempInv => Temp!TypeOK /\ Temp!FilesAccounted
<1> SUFFICES ASSUME TempInv PROVE Temp!TypeOK /\ Temp!FilesAccounted
    OBVIOUS
<1>0. TempTypes /\ Accounted
    BY DEF TempInv
<1>1. ASSUME NEW c \in Calls
      PROVE  /\ call[c].step \in TempSteps /\ Temp!Range(call[c].ids) \subseteq Files
             /\ call[c].deletedCount \in 0..Temp!Cardinality(Files)
    <2>1. CallSound(call[c])
        BY <1>0 DEF TempTypes
    <2>2. PICK n \in Nat : n = Cardinality(Files)
        BY FS_CardinalityType, SetsAssumption
    <2>3. Temp!Cardinality(Files) = n
        BY <2>2, CountsAlike
    <2>4. call[c].deletedCount \in Nat /\ Len(call[c].ids) \in Nat /\ call[c].deletedCount + Len(call[c].ids) <= n
        BY <2>1, <2>2 DEF CallSound, TempCall
    <2>5. call[c].ids \in Seq(Files) /\ call[c].step \in TempSteps
        BY <2>1 DEF CallSound, TempCall
    <2>6. Temp!Range(call[c].ids) \subseteq Files
        BY <2>5 DEF Temp!Range
    <2> QED BY <2>3, <2>4, <2>5, <2>6
<1>2. Temp!TypeOK
    BY <1>0, <1>1 DEF TempTypes, TempSteps, Temp!TypeOK, Temp!Known
<1>3. ASSUME NEW now, NEW c \in Calls, call[c].step = now, now \in {"set", "forget"}
      PROVE  call[c].ids[1] = Head(call[c].ids)
    <2>1. CallSound(call[c]) /\ call[c].ids # <<>>
        BY <1>0, <1>3 DEF TempTypes, CallSound
    <2> QED BY <2>1, FirstAndRest
<1>4. DOMAIN known \ disk \subseteq UNION {{Head(call[c].ids)} : c \in {d \in Calls : call[d].step \in {"forget"}}}
    BY <1>0, <1>3 DEF Accounted
<1>5. disk \ DOMAIN known
          \subseteq stranded \cup UNION {{Head(call[c].ids)} : c \in {d \in Calls : call[d].step \in {"set"}}}
    BY <1>0, <1>3 DEF Accounted
<1> QED BY <1>2, <1>4, <1>5 DEF Temp!FilesAccounted, Temp!Known
-----------------------------------------------------------------------------
(***************************************************************************)
(* The uploads.                                                            *)
(***************************************************************************)
UploadStates == {"idle", "reading", "sending", "stored", "done", "failed", "unread"}
SingleStates == {"idle", "sending", "done", "failed"}
Results == {"none", "pending", "resolved", "rejected", "refused"}
UploadTypes ==
    /\ size \in [Uploads -> Nat] /\ size \in [Uploads -> Sizes] /\ loaded \in [Uploads -> Nat]
    /\ upload \in [Uploads -> UploadStates] /\ DOMAIN progress \subseteq Uploads
    /\ single \in [BatchFiles -> SingleStates] /\ result \in Results
    /\ inS3 \subseteq Uploads \cup BatchFiles /\ uploadErrors \in 0..MaxUploadErrors

(* What is stored was sent to the last part; an entry is behind its upload *)
(* and says completed of one that is;                                      *)
EntriesFollow ==
    /\ \A u \in Uploads : upload[u] \in {"stored", "done"} => u \in inS3 /\ loaded[u] = size[u]
    /\ \A u \in DOMAIN progress :
         /\ progress[u].loaded <= loaded[u] /\ progress[u].status \in {"uploading", "completed"}
         /\ progress[u].status = "completed" <=> upload[u] = "done"

(* a batch that was not begun has sent nothing, and one that has resolved  *)
(* sent all.                                                               *)
BatchFollows ==
    /\ result \in {"none", "refused"} => \A f \in BatchFiles : single[f] = "idle" /\ f \notin inS3
    /\ \A f \in BatchFiles : single[f] = "done" => f \in inS3
    /\ result = "resolved" => \A f \in BatchFiles : single[f] = "done"
UploadInv == UploadTypes /\ EntriesFollow /\ BatchFollows

(* An entry of the map, and the map that has it.                           *)
LEMMA Entries ==
    ASSUME NEW n, NEW total, NEW s
    PROVE  /\ Upload!Entry(n, total, s).loaded = n /\ Upload!Entry(n, total, s).status = s
           /\ [Upload!Entry(n, total, s) EXCEPT !.percentage = {100}].loaded = n
           /\ [Upload!Entry(n, total, s) EXCEPT !.percentage = {100}].status = s
BY DEF Upload!Entry

(* An entry that is put in the map of the progress leaves the others.      *)
LEMMA Puts ==
    ASSUME NEW u, NEW p, NEW e, p = Upload!Put(u, e)
    PROVE  /\ \A v : v \in DOMAIN p <=> v \in DOMAIN progress \/ v = u
           /\ p[u] = e /\ \A v \in DOMAIN progress : v # u => p[v] = progress[v]
BY DEF Upload!Put

(* An upload in chunks, and the map of the progress.                       *)
LEMMA ChunksMove ==
    ASSUME UploadInv, NEW u \in Uploads,
           \/ Upload!UploadChunked(u) \/ Upload!SendParts(u) \/ Upload!HttpUploadProgress(u)
           \/ Upload!Completed(u) \/ Upload!UploadFails(u) \/ Upload!S3Stores(u)
    PROVE  UploadInv'
<1>0. UploadTypes /\ EntriesFollow /\ BatchFollows /\ MaxUploadErrors \in Nat
    BY Bounds DEF UploadInv
<1>1. UNCHANGED <<size, single, result>> /\ (inS3' = inS3 \/ inS3' = inS3 \cup {u})
    BY DEF Upload!UploadChunked, Upload!SendParts, Upload!HttpUploadProgress, Upload!Completed,
           Upload!UploadFails, Upload!S3Stores, Upload!batchOnly
<1>2. u \notin BatchFiles
    BY SetsAssumption
<1>3. BatchFollows'
    BY <1>0, <1>1, <1>2 DEF BatchFollows
<1>4. uploadErrors' \in 0..MaxUploadErrors
    <2>1. uploadErrors' = uploadErrors \/ (uploadErrors < MaxUploadErrors /\ uploadErrors' = uploadErrors + 1)
        BY Zenon DEF Upload!UploadChunked, Upload!SendParts, Upload!HttpUploadProgress, Upload!Completed,
               Upload!UploadFails, Upload!S3Stores, Upload!batchOnly
    <2> QED BY <1>0, <2>1 DEF UploadTypes
<1>5. ASSUME NEW old \in UploadStates, NEW new \in UploadStates, upload[u] = old,
             upload' = [upload EXCEPT ![u] = new],
             UNCHANGED <<loaded, progress>>, inS3 \subseteq inS3', old # "done", new # "done",
             new = "stored" => u \in inS3' /\ loaded[u] = size[u]
      PROVE  EntriesFollow' /\ upload' \in [Uploads -> UploadStates]
    BY <1>0, <1>1, <1>5 DEF EntriesFollow, UploadTypes
<1>6. ASSUME upload' \in [Uploads -> UploadStates], \A v \in Uploads : v # u => upload'[v] = upload[v],
             loaded' \in [Uploads -> Nat], \A v \in Uploads : v # u => loaded'[v] = loaded[v],
             loaded[u] <= loaded'[u], UNCHANGED inS3,
             NEW e, progress' = Upload!Put(u, e), e.loaded <= loaded'[u],
             e.status = (IF upload'[u] = "done" THEN "completed" ELSE "uploading"),
             upload'[u] \in {"stored", "done"} => u \in inS3 /\ loaded'[u] = size[u]
      PROVE  EntriesFollow' /\ DOMAIN progress' \subseteq Uploads
    <2>1. PICK p : p = Upload!Put(u, e)
        OBVIOUS
    <2>2. /\ \A v : v \in DOMAIN p <=> v \in DOMAIN progress \/ v = u
          /\ p[u] = e /\ \A v \in DOMAIN progress : v # u => p[v] = progress[v]
        BY <2>1, Puts
    <2>3. progress' = p
        BY <1>6, <2>1
    <2>5. \A v \in Uploads : upload'[v] \in {"stored", "done"} => v \in inS3' /\ loaded'[v] = size'[v]
        BY <1>0, <1>1, <1>6 DEF EntriesFollow
    <2>6. ASSUME NEW v \in DOMAIN p
          PROVE  /\ p[v].loaded <= loaded'[v] /\ p[v].status \in {"uploading", "completed"}
                 /\ p[v].status = "completed" <=> upload'[v] = "done"
        <3>1. CASE v = u
            BY <1>6, <2>2, <3>1
        <3>2. CASE v # u
            BY <1>0, <1>6, <2>2, <3>2 DEF EntriesFollow, UploadTypes
        <3> QED BY <3>1, <3>2
    <2>7. DOMAIN p \subseteq Uploads
        BY <1>0, <2>2 DEF UploadTypes
    <2> QED BY <2>3, <2>5, <2>6, <2>7 DEF EntriesFollow
<1>7. /\ EntriesFollow' /\ upload' \in [Uploads -> UploadStates] /\ loaded' \in [Uploads -> Nat]
      /\ DOMAIN progress' \subseteq Uploads
    <2>1. ASSUME Upload!UploadChunked(u) \/ Upload!UploadFails(u) \/ Upload!S3Stores(u)
          PROVE  EntriesFollow' /\ upload' \in [Uploads -> UploadStates] /\ UNCHANGED <<loaded, progress>>
        <3>1. UNCHANGED <<loaded, progress>>
            BY <2>1 DEF Upload!UploadChunked, Upload!UploadFails, Upload!S3Stores
        <3>2. \E old \in UploadStates, new \in UploadStates :
                 /\ upload[u] = old /\ upload' = [upload EXCEPT ![u] = new]
                 /\ inS3 \subseteq inS3' /\ old # "done" /\ new # "done"
                 /\ new = "stored" => u \in inS3' /\ loaded[u] = size[u]
            BY <2>1 DEF Upload!UploadChunked, Upload!UploadFails, Upload!S3Stores, UploadStates
        <3> QED BY <1>5, <3>1, <3>2
    <2>2. size[u] \in Nat /\ loaded[u] \in Nat
        BY <1>0 DEF UploadTypes
    <2>3. CASE Upload!SendParts(u)
        <3>1. PICK e : e = Upload!Entry(0, size[u], "uploading")
            OBVIOUS
        <3>2. e.loaded = 0 /\ e.status = "uploading"
            BY <3>1, Entries
        <3>3. /\ upload[u] = "reading" /\ upload' = [upload EXCEPT ![u] = "sending"]
              /\ progress' = Upload!Put(u, e) /\ UNCHANGED <<loaded, inS3>>
            BY <2>3, <3>1 DEF Upload!SendParts
        <3>4. /\ upload' \in [Uploads -> UploadStates] /\ upload'[u] = "sending"
              /\ \A v \in Uploads : v # u => upload'[v] = upload[v]
            BY <1>0, <3>3 DEF UploadTypes, UploadStates
        <3>5. /\ loaded' \in [Uploads -> Nat] /\ loaded'[u] = loaded[u]
              /\ \A v \in Uploads : v # u => loaded'[v] = loaded[v]
            BY <1>0, <3>3 DEF UploadTypes
        <3>6. EntriesFollow' /\ DOMAIN progress' \subseteq Uploads
            BY <1>6, <2>2, <3>2, <3>3, <3>4, <3>5
        <3> QED BY <3>4, <3>5, <3>6
    <2>4. CASE Upload!HttpUploadProgress(u)
        <3>1. PICK n \in Nat : n = loaded[u] + 1
            BY <2>2
        <3>2. PICK e : e = Upload!Entry(n, size[u], "uploading")
            OBVIOUS
        <3>3. e.loaded = n /\ e.status = "uploading" /\ loaded[u] <= n
            BY <2>2, <3>1, <3>2, Entries
        <3>4. /\ upload[u] \in {"sending", "failed"} /\ loaded' = [loaded EXCEPT ![u] = n]
              /\ progress' = Upload!Put(u, e) /\ UNCHANGED <<upload, inS3>>
            BY <2>4, <3>1, <3>2 DEF Upload!HttpUploadProgress
        <3>5. /\ loaded' \in [Uploads -> Nat] /\ loaded'[u] = n
              /\ \A v \in Uploads : v # u => loaded'[v] = loaded[v]
            BY <1>0, <3>4 DEF UploadTypes
        <3>6. /\ upload' \in [Uploads -> UploadStates] /\ upload'[u] \in {"sending", "failed"}
              /\ \A v \in Uploads : v # u => upload'[v] = upload[v]
            BY <1>0, <3>4 DEF UploadTypes
        <3>7. EntriesFollow' /\ DOMAIN progress' \subseteq Uploads
            BY <1>6, <3>1, <3>3, <3>4, <3>5, <3>6
        <3> QED BY <3>5, <3>6, <3>7
    <2>5. CASE Upload!Completed(u)
        <3>1. PICK e : e = [Upload!Entry(size[u], size[u], "completed") EXCEPT !.percentage = {100}]
            OBVIOUS
        <3>2. e.loaded = size[u] /\ e.status = "completed"
            BY <3>1, Entries
        <3>3. /\ upload[u] = "stored" /\ upload' = [upload EXCEPT ![u] = "done"]
              /\ progress' = Upload!Put(u, e) /\ UNCHANGED <<loaded, inS3>>
            BY <2>5, <3>1 DEF Upload!Completed
        <3>4. /\ upload' \in [Uploads -> UploadStates] /\ upload'[u] = "done"
              /\ \A v \in Uploads : v # u => upload'[v] = upload[v]
            BY <1>0, <3>3 DEF UploadTypes, UploadStates
        <3>5. /\ loaded' \in [Uploads -> Nat] /\ loaded'[u] = size[u] /\ loaded[u] = size[u] /\ u \in inS3
              /\ \A v \in Uploads : v # u => loaded'[v] = loaded[v]
            BY <1>0, <3>3 DEF UploadTypes, EntriesFollow
        <3>6. EntriesFollow' /\ DOMAIN progress' \subseteq Uploads
            BY <1>6, <2>2, <3>2, <3>3, <3>4, <3>5
        <3> QED BY <3>4, <3>5, <3>6
    <2> QED BY <1>0, <2>1, <2>3, <2>4, <2>5 DEF UploadTypes
<1> QED BY <1>0, <1>1, <1>3, <1>4, <1>7 DEF UploadInv, UploadTypes

(* An entry is cleared, or all are.                                        *)
LEMMA UploadsClear ==
    ASSUME UploadInv, Upload!ClearAllProgress \/ \E u \in Uploads : Upload!ClearProgress(u)
    PROVE  UploadInv'
<1>0. UploadTypes /\ EntriesFollow /\ BatchFollows
    BY DEF UploadInv
<1>1. UNCHANGED <<size, upload, loaded, single, result, inS3, uploadErrors>>
    BY DEF Upload!ClearAllProgress, Upload!ClearProgress, Upload!batchOnly
<1>2. \A v \in DOMAIN progress' : v \in DOMAIN progress /\ progress'[v] = progress[v]
    BY DEF Upload!ClearAllProgress, Upload!ClearProgress
<1> QED BY <1>0, <1>1, <1>2 DEF UploadInv, UploadTypes, EntriesFollow, BatchFollows

(* A batch begins, or is refused; its files are answered one by one.       *)
LEMMA BatchMoves ==
    ASSUME UploadInv,
           Upload!UploadBatch \/ \E f \in BatchFiles : Upload!SingleAnswered(f) \/ Upload!SingleFails(f)
    PROVE  UploadInv'
<1>0. UploadTypes /\ EntriesFollow /\ BatchFollows /\ MaxUploadErrors \in Nat
    BY Bounds DEF UploadInv
<1>1. UNCHANGED <<size, upload, loaded, progress>> /\ inS3 \subseteq inS3' /\ inS3' \subseteq inS3 \cup BatchFiles
    BY DEF Upload!UploadBatch, Upload!SingleAnswered, Upload!SingleFails
<1>2. EntriesFollow'
    BY <1>0, <1>1 DEF EntriesFollow
<1>3. single' \in [BatchFiles -> SingleStates] /\ result' \in Results /\ uploadErrors' \in 0..MaxUploadErrors
    BY <1>0 DEF UploadTypes, SingleStates, Results, Upload!UploadBatch, Upload!SingleAnswered, Upload!SingleFails
<1>4. BatchFollows'
    <2>1. CASE Upload!UploadBatch
        BY <1>0, <2>1 DEF BatchFollows, Upload!UploadBatch
    <2>2. ASSUME NEW f \in BatchFiles, single[f] = "sending", NEW s \in {"done", "failed"},
                 single' = [single EXCEPT ![f] = s], s = "done" => f \in inS3',
                 \/ result' = "rejected" \/ result' = result
                 \/ result' = "resolved" /\ \A g \in BatchFiles : single'[g] = "done"
          PROVE  BatchFollows'
        <3>1. result \notin {"none", "refused", "resolved"}
            BY <1>0, <2>2 DEF BatchFollows
        <3>2. single'[f] = s /\ \A g \in BatchFiles : g # f => single'[g] = single[g]
            BY <1>0, <2>2 DEF UploadTypes
        <3>3. \A g \in BatchFiles : single'[g] = "done" => g \in inS3'
            BY <1>0, <1>1, <2>2, <3>2 DEF BatchFollows
        <3>4. result' \notin {"none", "refused"}
            BY <2>2, <3>1
        <3>5. result' = "resolved" => \A g \in BatchFiles : single'[g] = "done"
            BY <2>2, <3>1
        <3> QED BY <3>3, <3>4, <3>5 DEF BatchFollows
    <2>3. ASSUME NEW f \in BatchFiles, Upload!SingleAnswered(f) PROVE BatchFollows'
        <3>1. /\ single[f] = "sending" /\ single' = [single EXCEPT ![f] = "done"] /\ f \in inS3'
              /\ result' = IF \A g \in BatchFiles : single'[g] = "done" THEN "resolved" ELSE result
            BY <2>3 DEF Upload!SingleAnswered
        <3> QED BY <2>2, <3>1
    <2>4. ASSUME NEW f \in BatchFiles, Upload!SingleFails(f) PROVE BatchFollows'
        <3>1. single[f] = "sending" /\ single' = [single EXCEPT ![f] = "failed"] /\ result' = "rejected"
            BY <2>4 DEF Upload!SingleFails
        <3> QED BY <2>2, <3>1
    <2> QED BY Zenon, <2>1, <2>3, <2>4
<1> QED BY <1>0, <1>1, <1>2, <1>3, <1>4 DEF UploadInv, UploadTypes

(* Every step of the uploads keeps the invariant.                          *)
LEMMA UploadKeeps == UploadInv /\ Upload!Next => UploadInv'
BY Zenon, ChunksMove, UploadsClear, BatchMoves DEF Upload!Next

(* The uploads at their start.                                             *)
LEMMA UploadInit == Upload!Init => UploadInv
<1> SUFFICES ASSUME Upload!Init PROVE UploadInv
    OBVIOUS
<1>1. DOMAIN progress = {} /\ Sizes \subseteq Nat
    BY IdsAssumption DEF Upload!Init
<1>2. UploadTypes
    <2>1. size \in [Uploads -> Sizes] /\ size \in [Uploads -> Nat]
        BY <1>1 DEF Upload!Init
    <2>2. /\ loaded \in [Uploads -> Nat] /\ upload \in [Uploads -> UploadStates]
          /\ single \in [BatchFiles -> SingleStates] /\ result \in Results
        BY DEF Upload!Init, UploadStates, SingleStates, Results
    <2>3. DOMAIN progress \subseteq Uploads /\ inS3 \subseteq Uploads \cup BatchFiles /\ uploadErrors \in 0..MaxUploadErrors
        BY <1>1, Bounds DEF Upload!Init
    <2> QED BY <2>1, <2>2, <2>3 DEF UploadTypes
<1>3. EntriesFollow /\ BatchFollows
    BY <1>1 DEF Upload!Init, EntriesFollow, BatchFollows
<1> QED BY <1>2, <1>3 DEF UploadInv

(* The other parts leave them alone.                                       *)
LEMMA UploadRests == UploadInv /\ UNCHANGED uploadVars => UploadInv'
BY DEF UploadInv, UploadTypes, EntriesFollow, BatchFollows, uploadVars

(* What the invariant says of the uploads.                                 *)
LEMMA UploadKept == UploadInv => Upload!TypeOK /\ Upload!UploadsReported
BY DEF UploadInv, UploadTypes, EntriesFollow, BatchFollows, UploadStates, SingleStates, Results,
       Upload!TypeOK, Upload!UploadsReported
-----------------------------------------------------------------------------
(***************************************************************************)
(* The callers of the shared functions.                                    *)
(***************************************************************************)
CallStates == {"not made", "waiting", "ready", "running", "answered", "rejected"}
Made(c) == c \in Callers /\ caller[c] # "not made"
Pos(c) == Async!Position(c)

(* The order of the calls has everybody who called, once.                  *)
Ordered ==
    /\ order \in Seq(Callers)
    /\ \A m, n \in 1..Len(order) : order[m] = order[n] => m = n
    /\ \A c : Made(c) <=> \E n \in 1..Len(order) : order[n] = c
AsyncTypes ==
    /\ util \in {"lock", "debounce", "memoize"} /\ caller \in [Callers -> CallStates]
    /\ \A c \in held \cup locks \cup debounced \cup latest \cup cached : Made(c)
    /\ queue \in Seq(Callers) /\ due \in Seq(Callers) /\ answer \in [Callers -> SUBSET Callers]
    /\ executions \in Nat /\ errors \in 0..MaxErrors /\ (util # "lock" => due = <<>>)

(* The lock: who runs has it; who waits does so in the order of the calls, *)
(* first who awaits the promise and then who is due, and called after who  *)
(* has it.                                                                 *)
Queued ==
    /\ \A m \in 1..Len(queue) : caller[queue[m]] = "waiting"
    /\ \A m \in 1..Len(due) : caller[due[m]] = "waiting"
    /\ \A c \in Callers : caller[c] = "waiting" =>
         (\E m \in 1..Len(queue) : queue[m] = c) \/ (\E m \in 1..Len(due) : due[m] = c)
    /\ \A m, n \in 1..Len(queue) : m < n => Pos(queue[m]) < Pos(queue[n])
    /\ \A m, n \in 1..Len(due) : m < n => Pos(due[m]) < Pos(due[n])
    /\ \A m \in 1..Len(queue), n \in 1..Len(due) : Pos(queue[m]) < Pos(due[n])
LockInv ==
    /\ Queued /\ held = locks /\ (\A c, d \in held : c = d) /\ (held = {} => queue = <<>>)
    /\ \A c \in Callers : caller[c] = "running" <=> c \in held
    /\ \A c \in held, d \in Callers : caller[d] = "waiting" => Pos(c) < Pos(d)
    /\ \A c \in Callers : caller[c] = "rejected" => errors > 0

(* The debounced function: it has the resolve of the newest call, and each *)
(* execution has a call of its own, the one the timer runs for included.   *)
DebounceInv ==
    /\ \A c \in latest : Pos(c) = Len(order)
    /\ \A c \in Callers : \A d \in answer[c] : Made(c) /\ Made(d) /\ Pos(d) <= Pos(c)
    /\ \A c \in Callers : caller[c] = "waiting" /\ c \notin debounced => c \notin latest
    /\ executions <= Len(order) /\ (debounced # {} => executions < Len(order))

(* The memoized function: whoever was given a kept value called after all  *)
(* who executed.                                                           *)
Given(d) == answer[d] # {} /\ answer[d] # {d}
Executed(c) == caller[c] \in {"running", "rejected"} \/ answer[c] = {c}
MemoizeInv ==
    /\ \A c \in Callers : answer[c] # {} => Made(c)
    /\ \A d \in Callers : Given(d) => cached # {}
    /\ \A c, d \in Callers : Given(d) /\ Executed(c) => Pos(c) < Pos(d)
AsyncInv ==
    /\ Ordered /\ AsyncTypes
    /\ util = "lock" => LockInv
    /\ util = "debounce" => DebounceInv
    /\ util = "memoize" => MemoizeInv

(* Where a call is in the order.                                           *)
LEMMA Positions ==
    ASSUME Ordered
    PROVE  /\ \A c : Made(c) => Pos(c) \in 1..Len(order) /\ order[Pos(c)] = c
           /\ \A n \in 1..Len(order) : Pos(order[n]) = n
           /\ \A c, d : Made(c) /\ Made(d) /\ Pos(c) = Pos(d) => c = d
           /\ Len(order) \in Nat
<1>1. DOMAIN order = 1..Len(order) /\ Len(order) \in Nat
    BY DEF Ordered
<1>2. ASSUME NEW n \in 1..Len(order) PROVE Pos(order[n]) = n
    BY <1>1 DEF Ordered, Pos, Async!Position
<1>3. \A c : Made(c) => Pos(c) \in 1..Len(order) /\ order[Pos(c)] = c
    BY <1>2 DEF Ordered
<1> QED BY <1>1, <1>2, <1>3

(* A sequence with one more at its end.                                    *)
LEMMA Appended ==
    ASSUME NEW S, NEW s \in Seq(S), NEW c \in S, NEW t, t = Append(s, c)
    PROVE  /\ t \in Seq(S) /\ Len(s) \in Nat /\ Len(t) = Len(s) + 1 /\ DOMAIN t = 1..Len(t)
           /\ t[Len(t)] = c /\ \A n \in 1..Len(s) : t[n] = s[n]
           /\ \A n : n \in 1..Len(t) <=> n \in 1..Len(s) \/ n = Len(t)
<1>1. t \in Seq(S) /\ Len(s) \in Nat /\ Len(t) = Len(s) + 1
    OBVIOUS
<1>2. DOMAIN t = 1..Len(t)
    BY <1>1
<1>3. t[Len(t)] = c /\ \A n \in 1..Len(s) : t[n] = s[n]
    BY <1>1
<1> QED BY <1>1, <1>2, <1>3

(* The order with one caller more, as rigid sequences.                     *)
LEMMA OrderGrows ==
    ASSUME Ordered, NEW c \in Callers
    PROVE  \E s, t \in Seq(Callers) :
             /\ s = order /\ t = Append(s, c) /\ Len(s) \in Nat /\ Len(t) = Len(s) + 1
             /\ t[Len(t)] = c /\ \A n \in 1..Len(s) : t[n] = s[n]
             /\ \A n : n \in 1..Len(t) <=> n \in 1..Len(s) \/ n = Len(t)
<1>1. PICK s \in Seq(Callers) : s = order
    BY DEF Ordered
<1>2. PICK t : t = Append(s, c)
    OBVIOUS
<1>3. /\ t \in Seq(Callers) /\ Len(s) \in Nat /\ Len(t) = Len(s) + 1
      /\ t[Len(t)] = c /\ \A n \in 1..Len(s) : t[n] = s[n]
      /\ \A n : n \in 1..Len(t) <=> n \in 1..Len(s) \/ n = Len(t)
    BY <1>1, <1>2, Appended
<1> QED BY Zenon, <1>1, <1>2, <1>3

(* A call more.                                                            *)
LEMMA Invoked ==
    ASSUME Ordered, NEW c \in Callers, Async!Invokes(c), Made(c)', \A d : d # c => (Made(d)' <=> Made(d))
    PROVE  /\ Ordered' /\ Len(order') = Len(order) + 1 /\ Len(order) \in Nat
           /\ Pos(c)' = Len(order) + 1 /\ \A d : Made(d) => Pos(d)' = Pos(d) /\ Pos(d) <= Len(order) /\ Pos(d) \in Nat
           /\ \A d : Made(d)' <=> Made(d) \/ d = c
           /\ ~Made(c)
<1>1. caller[c] = "not made" /\ order' = Append(order, c)
    BY DEF Async!Invokes
<1>2. PICK s, t \in Seq(Callers) :
             /\ s = order /\ t = Append(s, c) /\ Len(s) \in Nat /\ Len(t) = Len(s) + 1
             /\ t[Len(t)] = c /\ \A n \in 1..Len(s) : t[n] = s[n]
             /\ \A n : n \in 1..Len(t) <=> n \in 1..Len(s) \/ n = Len(t)
    BY Zenon, OrderGrows
<1>4. order = s /\ order' = t
    BY Zenon, <1>1, <1>2
<1>5. /\ t \in Seq(Callers) /\ Len(s) \in Nat /\ Len(t) = Len(s) + 1 /\ Len(t) \in Nat
      /\ t[Len(t)] = c /\ \A n \in 1..Len(s) : t[n] = s[n]
      /\ \A n : n \in 1..Len(t) <=> n \in 1..Len(s) \/ n = Len(t)
    BY <1>2
<1>6. /\ \A m, n \in 1..Len(s) : s[m] = s[n] => m = n
      /\ \A d : Made(d) <=> \E n \in 1..Len(s) : s[n] = d
    BY <1>4 DEF Ordered
<1>7. ~Made(c) /\ \A d : Made(d)' <=> Made(d) \/ d = c
    BY <1>1 DEF Made
<1>8. \A n \in 1..Len(s) : s[n] # c
    BY <1>6, <1>7
<1>9. \A m, n \in 1..Len(t) : t[m] = t[n] => m = n
    <2> SUFFICES ASSUME NEW m \in 1..Len(t), NEW n \in 1..Len(t), t[m] = t[n] PROVE m = n
        OBVIOUS
    <2>1. m \in 1..Len(s) \/ m = Len(t)
        BY <1>5
    <2>2. n \in 1..Len(s) \/ n = Len(t)
        BY <1>5
    <2>3. CASE m \in 1..Len(s) /\ n \in 1..Len(s)
        BY <1>5, <1>6, <2>3
    <2>4. CASE m = Len(t) /\ n \in 1..Len(s)
        <3>1. t[n] = s[n] /\ t[m] = c
            BY <1>5, <2>4
        <3> QED BY <1>8, <2>4, <3>1
    <2>5. CASE n = Len(t) /\ m \in 1..Len(s)
        <3>1. t[m] = s[m] /\ t[n] = c
            BY <1>5, <2>5
        <3> QED BY <1>8, <2>5, <3>1
    <2> QED BY <2>1, <2>2, <2>3, <2>4, <2>5
<1>10. \A d : Made(d)' <=> \E n \in 1..Len(t) : t[n] = d
    BY <1>5, <1>6, <1>7
<1>11. Ordered'
    BY <1>4, <1>5, <1>9, <1>10 DEF Ordered
<1>12. ASSUME NEW x, NEW n \in 1..Len(t), t[n] = x PROVE Pos(x)' = n
    <2>1. n = CHOOSE m \in 1..Len(t) : t[m] = x
        BY <1>9, <1>12
    <2>2. DOMAIN t = 1..Len(t)
        BY <1>2
    <2> QED BY <1>4, <2>1, <2>2 DEF Pos, Async!Position
<1>13. Pos(c)' = Len(s) + 1
    BY <1>5, <1>12
<1>14. ASSUME NEW d, Made(d) PROVE Pos(d)' = Pos(d) /\ Pos(d) <= Len(s) /\ Pos(d) \in Nat
    <2>1. PICK n \in 1..Len(s) : n = Pos(d) /\ s[n] = d
        BY <1>4, <1>14, Positions
    <2>2. n \in 1..Len(t) /\ t[n] = d
        BY <1>5, <2>1
    <2>3. Pos(d)' = n
        BY <1>12, <2>2
    <2>4. Len(s) \in Nat /\ n \in Nat /\ n <= Len(s)
        BY <1>5, <2>1
    <2> QED BY <2>1, <2>3, <2>4
<1> QED BY <1>4, <1>5, <1>7, <1>11, <1>13, <1>14

(* A sequence of callers with one more, as rigid sequences.                *)
LEMMA Grows ==
    ASSUME NEW c \in Callers, NEW s \in Seq(Callers)
    PROVE  \E t \in Seq(Callers) :
             /\ t = Append(s, c) /\ Len(s) \in Nat /\ Len(t) = Len(s) + 1
             /\ t[Len(t)] = c /\ \A n \in 1..Len(s) : t[n] = s[n]
             /\ \A n : n \in 1..Len(t) <=> n \in 1..Len(s) \/ n = Len(t)
<1>1. PICK t : t = Append(s, c)
    OBVIOUS
<1>2. /\ t \in Seq(Callers) /\ Len(s) \in Nat /\ Len(t) = Len(s) + 1
      /\ t[Len(t)] = c /\ \A n \in 1..Len(s) : t[n] = s[n]
      /\ \A n : n \in 1..Len(t) <=> n \in 1..Len(s) \/ n = Len(t)
    BY <1>1, Appended
<1> QED BY Zenon, <1>1, <1>2

(* What stays when nobody calls.                                           *)
LEMMA NobodyCalls ==
    ASSUME Ordered, UNCHANGED order, caller' \in [Callers -> CallStates], caller \in [Callers -> CallStates],
           \A d \in Callers : caller'[d] = "not made" <=> caller[d] = "not made"
    PROVE  Ordered' /\ (\A d : Pos(d)' = Pos(d)) /\ (\A d : Made(d)' <=> Made(d)) /\ Len(order') = Len(order)
<1>1. \A d : Made(d)' <=> Made(d)
    BY DEF Made
<1>2. \A d : Pos(d)' = Pos(d)
    BY DEF Pos, Async!Position
<1>3. Ordered'
    BY Zenon, <1>1 DEF Ordered
<1> QED BY <1>1, <1>2, <1>3

(* debounce.                                                               *)
LEMMA DebounceKeeps ==
    ASSUME AsyncInv, NEW c \in Callers, Async!Debounce(c)
    PROVE  AsyncInv'
<1> USE DEF CallStates
<1>1. Ordered /\ AsyncTypes /\ DebounceInv /\ util = "debounce" /\ util' = "debounce"
    BY DEF AsyncInv, Async!Debounce
<1>2. /\ Async!Invokes(c) /\ debounced' = {c} /\ latest' = {c} /\ UNCHANGED <<held, locks, queue, due, answer, cached, executions, errors>>
      /\ caller' \in [Callers -> CallStates] /\ caller'[c] = "waiting"
      /\ \A d \in Callers : d # c => caller'[d] = IF d \in debounced THEN "waiting" ELSE caller[d]
    BY <1>1 DEF Async!Debounce, AsyncTypes
<1>3. Made(c)'
    BY <1>2 DEF Made
<1>4. \A d : d # c => (Made(d)' <=> Made(d))
    BY <1>1, <1>2 DEF Made, AsyncTypes
<1>5. /\ Ordered' /\ Len(order') = Len(order) + 1 /\ Len(order) \in Nat
      /\ Pos(c)' = Len(order) + 1 /\ \A d : Made(d) => Pos(d)' = Pos(d) /\ Pos(d) <= Len(order) /\ Pos(d) \in Nat
      /\ \A d : Made(d)' <=> Made(d) \/ d = c
      /\ ~Made(c)
    BY Zenon, <1>1, <1>2, <1>3, <1>4, Invoked
<1>6. AsyncTypes'
    BY <1>1, <1>2, <1>5 DEF AsyncTypes
<1>7. DebounceInv'
    <2>1. \A d \in latest' : Pos(d)' = Len(order')
        BY <1>2, <1>5
    <2>2. \A e \in Callers : \A d \in answer'[e] : Made(e)' /\ Made(d)' /\ Pos(d)' <= Pos(e)'
        BY <1>1, <1>2, <1>5 DEF DebounceInv
    <2>3. \A d \in Callers : caller'[d] = "waiting" /\ d \notin debounced' => d \notin latest'
        BY <1>2
    <2>4. executions' <= Len(order') /\ (debounced' # {} => executions' < Len(order'))
        <3>1. executions' = executions
            BY <1>2
        <3>2. executions \in Nat
            BY <1>1 DEF AsyncTypes
        <3>3. executions <= Len(order)
            BY <1>1 DEF DebounceInv
        <3> QED BY <1>5, <3>1, <3>2, <3>3
    <2> QED BY Zenon, <2>1, <2>2, <2>3, <2>4 DEF DebounceInv
<1> QED BY Zenon, <1>1, <1>5, <1>6, <1>7 DEF AsyncInv

(* The timer fires: the newest call is executed.                           *)
LEMMA TimerKeeps ==
    ASSUME AsyncInv, Async!TimerFires
    PROVE  AsyncInv'
<1> USE DEF CallStates
<1>1. Ordered /\ AsyncTypes /\ DebounceInv /\ util = "debounce" /\ util' = "debounce"
    BY DEF AsyncInv, Async!TimerFires
<1>2. /\ held' = held \cup debounced /\ debounced' = {} /\ executions' = executions + 1 /\ debounced # {}
      /\ UNCHANGED <<order, locks, queue, due, latest, answer, cached, errors>>
      /\ caller' \in [Callers -> CallStates]
      /\ \A d \in Callers : caller'[d] = IF d \in debounced THEN "running" ELSE caller[d]
    BY <1>1 DEF Async!TimerFires, AsyncTypes
<1>3. \A d \in Callers : caller'[d] = "not made" <=> caller[d] = "not made"
    BY <1>1, <1>2 DEF AsyncTypes, Made
<1>4. Ordered' /\ (\A d : Pos(d)' = Pos(d)) /\ (\A d : Made(d)' <=> Made(d)) /\ Len(order') = Len(order)
    <2>1. caller \in [Callers -> CallStates] /\ UNCHANGED order
        BY <1>1, <1>2 DEF AsyncTypes
    <2> QED BY Zenon, <1>1, <1>2, <1>3, <2>1, NobodyCalls
<1>5. Len(order) \in Nat
    BY <1>1, Positions
<1>6. AsyncTypes'
    <2>1. executions' \in Nat
        <3>1. executions \in Nat
            BY <1>1 DEF AsyncTypes
        <3>2. executions' = executions + 1
            BY <1>2
        <3> QED BY <3>1, <3>2
    <2>2. \A d \in held' \cup locks' \cup debounced' \cup latest' \cup cached' : Made(d)'
        BY <1>1, <1>2, <1>4 DEF AsyncTypes
    <2> QED BY <1>1, <1>2, <2>1, <2>2 DEF AsyncTypes
<1>7. DebounceInv'
    <2>1. \A d \in latest' : Pos(d)' = Len(order')
        BY <1>1, <1>2, <1>4 DEF DebounceInv
    <2>2. \A e \in Callers : \A d \in answer'[e] : Made(e)' /\ Made(d)' /\ Pos(d)' <= Pos(e)'
        BY <1>1, <1>2, <1>4 DEF DebounceInv
    <2>3. \A d \in Callers : caller'[d] = "waiting" /\ d \notin debounced' => d \notin latest'
        BY <1>1, <1>2 DEF DebounceInv
    <2>4. executions' <= Len(order') /\ (debounced' # {} => executions' < Len(order'))
        <3>1. executions' = executions + 1 /\ debounced' = {} /\ debounced # {}
            BY <1>2
        <3>2. executions \in Nat
            BY <1>1 DEF AsyncTypes
        <3>3. executions < Len(order)
            BY <1>1, <3>1 DEF DebounceInv
        <3> QED BY <1>4, <1>5, <3>1, <3>2, <3>3
    <2> QED BY Zenon, <2>1, <2>2, <2>3, <2>4 DEF DebounceInv
<1> QED BY Zenon, <1>1, <1>4, <1>6, <1>7 DEF AsyncInv

(* The execution settles, and so do the calls that wait for it.            *)
LEMMA SettleKeeps ==
    ASSUME AsyncInv, NEW c \in Callers, Async!Settle(c)
    PROVE  AsyncInv'
<1> USE DEF CallStates
<1>1. Ordered /\ AsyncTypes /\ DebounceInv /\ util = "debounce" /\ util' = "debounce" /\ c \in held
    BY DEF AsyncInv, Async!Settle
<1>2. /\ held' = held \ {c} /\ errors' \in 0..MaxErrors
      /\ UNCHANGED <<order, locks, queue, due, debounced, latest, cached, executions>>
    <2>1. errors' = errors \/ (errors < MaxErrors /\ errors' = errors + 1)
        BY DEF Async!Settle
    <2>2. MaxErrors \in Nat /\ errors \in 0..MaxErrors
        BY <1>1, BoundsAssumption DEF AsyncTypes
    <2>3. errors' \in 0..MaxErrors
        BY <2>1, <2>2
    <2> QED BY <2>3 DEF Async!Settle
<1>3. PICK how \in {"answered", "rejected"} :
         caller' = [d \in Callers |-> IF d \in latest /\ answer[d] = {} THEN how ELSE caller[d]]
    BY DEF Async!Settle
<1>4. /\ answer' \in [Callers -> SUBSET Callers]
      /\ \A d \in Callers : answer'[d] = IF d \in latest /\ answer[d] = {} THEN {c} ELSE answer[d]
    <2>1. answer' = [d \in Callers |-> IF d \in latest /\ answer[d] = {} THEN {c} ELSE answer[d]]
        BY Zenon DEF Async!Settle
    <2>2. answer \in [Callers -> SUBSET Callers]
        BY <1>1 DEF AsyncTypes
    <2> QED BY <2>1, <2>2
<1>5. /\ caller' \in [Callers -> CallStates]
      /\ \A d \in Callers : caller'[d] = IF d \in latest /\ answer[d] = {} THEN how ELSE caller[d]
    BY <1>1, <1>3 DEF AsyncTypes
<1>6. \A d \in Callers : caller'[d] = "not made" <=> caller[d] = "not made"
    BY <1>1, <1>5, <1>3 DEF AsyncTypes, Made
<1>7. Ordered' /\ (\A d : Pos(d)' = Pos(d)) /\ (\A d : Made(d)' <=> Made(d)) /\ Len(order') = Len(order)
    <2>1. caller \in [Callers -> CallStates] /\ UNCHANGED order
        BY <1>1, <1>2 DEF AsyncTypes
    <2> QED BY Zenon, <1>1, <1>5, <1>6, <2>1, NobodyCalls
<1>8. Len(order) \in Nat /\ \A d : Made(d) => Pos(d) \in 1..Len(order)
    BY <1>1, Positions
<1>9. AsyncTypes'
    BY <1>1, <1>2, <1>4, <1>5, <1>7 DEF AsyncTypes
<1>10. DebounceInv'
    <2>1. \A d \in latest' : Pos(d)' = Len(order')
        BY <1>1, <1>2, <1>7 DEF DebounceInv
    <2>2. ASSUME NEW e \in Callers, NEW d \in answer'[e] PROVE Made(e)' /\ Made(d)' /\ Pos(d)' <= Pos(e)'
        <3>1. CASE e \in latest /\ answer[e] = {}
            <4>1. d = c /\ Made(c) /\ Made(e) /\ Pos(e) = Len(order)
                BY <1>1, <1>4, <2>2, <3>1 DEF AsyncTypes, DebounceInv
            <4> QED BY <1>7, <1>8, <4>1
        <3>2. CASE ~(e \in latest /\ answer[e] = {})
            BY <1>1, <1>4, <1>7, <2>2, <3>2 DEF DebounceInv
        <3> QED BY <3>1, <3>2
    <2>3. \A d \in Callers : caller'[d] = "waiting" /\ d \notin debounced' => d \notin latest'
        BY <1>1, <1>2, <1>3, <1>5 DEF DebounceInv
    <2>4. executions' <= Len(order') /\ (debounced' # {} => executions' < Len(order'))
        BY <1>1, <1>2, <1>7 DEF DebounceInv
    <2> QED BY Zenon, <2>1, <2>2, <2>3, <2>4 DEF DebounceInv
<1> QED BY Zenon, <1>1, <1>7, <1>9, <1>10 DEF AsyncInv

(* memoize.                                                                *)
LEMMA MemoizeKeeps ==
    ASSUME AsyncInv, NEW c \in Callers, Async!Memoize(c)
    PROVE  AsyncInv'
<1> USE DEF CallStates
<1>1. Ordered /\ AsyncTypes /\ MemoizeInv /\ util = "memoize" /\ util' = "memoize"
    BY DEF AsyncInv, Async!Memoize
<1>2. /\ Async!Invokes(c) /\ UNCHANGED <<held, locks, queue, due, debounced, latest, cached, errors>>
      /\ caller' \in [Callers -> CallStates]
      /\ \A d \in Callers : d # c => caller'[d] = caller[d]
      /\ IF cached = {} THEN caller'[c] = "running" /\ executions' = executions + 1 /\ answer' = answer
         ELSE caller'[c] = "answered" /\ answer' = [answer EXCEPT ![c] = cached] /\ executions' = executions
    BY <1>1 DEF Async!Memoize, AsyncTypes
<1>3. Made(c)'
    BY <1>2 DEF Made
<1>4. \A d : d # c => (Made(d)' <=> Made(d))
    BY <1>1, <1>2 DEF Made, AsyncTypes
<1>5. /\ Ordered' /\ Len(order') = Len(order) + 1 /\ Len(order) \in Nat
      /\ Pos(c)' = Len(order) + 1 /\ \A d : Made(d) => Pos(d)' = Pos(d) /\ Pos(d) <= Len(order) /\ Pos(d) \in Nat
      /\ \A d : Made(d)' <=> Made(d) \/ d = c
      /\ ~Made(c)
    BY Zenon, <1>1, <1>2, <1>3, <1>4, Invoked
<1>6. executions' \in Nat
    <2>1. executions \in Nat
        BY <1>1 DEF AsyncTypes
    <2>2. executions' = executions + 1 \/ executions' = executions
        BY <1>2
    <2> QED BY <2>1, <2>2
<1>7. /\ answer' \in [Callers -> SUBSET Callers] /\ \A d \in Callers : d # c => answer'[d] = answer[d]
      /\ answer'[c] = IF cached = {} THEN answer[c] ELSE cached
    <2>1. answer \in [Callers -> SUBSET Callers] /\ cached \subseteq Callers
        BY <1>1 DEF AsyncTypes, Made
    <2> QED BY <1>2, <2>1
<1>8. AsyncTypes'
    BY <1>1, <1>2, <1>5, <1>6, <1>7 DEF AsyncTypes
<1>9. answer[c] = {} /\ c \notin cached
    BY <1>1, <1>5 DEF MemoizeInv, AsyncTypes
<1>10. ASSUME cached = {} PROVE \A d \in Callers : ~Given(d)'
    BY <1>1, <1>7, <1>9, <1>10 DEF MemoizeInv, Given
<1>11. \A d \in Callers : d # c => (Given(d)' <=> Given(d)) /\ (Executed(d)' <=> Executed(d))
    BY <1>2, <1>7 DEF Given, Executed
<1>12. \A d \in Callers : Executed(d) \/ Given(d) => Made(d)
    BY <1>1 DEF Executed, Given, MemoizeInv, Made
<1>13. MemoizeInv'
    <2>1. \A e \in Callers : answer'[e] # {} => Made(e)'
        BY <1>1, <1>5, <1>7 DEF MemoizeInv
    <2>2. \A d \in Callers : Given(d)' => cached' # {}
        BY <1>2, <1>10
    <2>3. ASSUME NEW e \in Callers, NEW d \in Callers, Given(d)', Executed(e)' PROVE Pos(e)' < Pos(d)'
        <3>1. cached # {}
            BY <1>10, <2>3
        <3>2. e # c \/ cached = {}
            <4>1. ASSUME cached # {} PROVE ~Executed(c)'
                <5>1. caller'[c] = "answered" /\ answer'[c] = cached
                    BY <1>2, <1>7, <4>1
                <5> QED BY <1>9, <5>1 DEF Executed
            <4> QED BY <2>3, <4>1
        <3>3. Executed(e) /\ Made(e)
            BY <1>11, <1>12, <2>3, <3>1, <3>2
        <3>4. CASE d = c
            BY <1>5, <3>3, <3>4
        <3>5. CASE d # c
            <4>1. Given(d) /\ Made(d)
                BY <1>11, <1>12, <2>3, <3>5
            <4>2. Pos(e) < Pos(d)
                BY <1>1, <3>3, <4>1 DEF MemoizeInv
            <4> QED BY <1>5, <3>3, <4>1, <4>2
        <3> QED BY <3>4, <3>5
    <2> QED BY Zenon, <2>1, <2>2, <2>3 DEF MemoizeInv
<1> QED BY Zenon, <1>1, <1>5, <1>8, <1>13 DEF AsyncInv

(* The result of a memoized function is stored when it has settled.        *)
LEMMA StoreKeeps ==
    ASSUME AsyncInv, NEW c \in Callers, Async!StoreResult(c)
    PROVE  AsyncInv'
<1> USE DEF CallStates
<1>1. Ordered /\ AsyncTypes /\ MemoizeInv /\ util = "memoize" /\ util' = "memoize" /\ caller[c] = "running"
    BY DEF AsyncInv, Async!StoreResult
<1>2. /\ UNCHANGED <<order, held, locks, queue, due, debounced, latest, executions>>
      /\ caller' \in [Callers -> CallStates]
      /\ \A d \in Callers : d # c => caller'[d] = caller[d]
      /\ \/ cached' = {c} /\ caller'[c] = "answered"
         \/ cached' = cached /\ caller'[c] = "rejected"
    BY <1>1 DEF Async!StoreResult, AsyncTypes
<1>3. errors' \in 0..MaxErrors
    <2>1. errors' = errors \/ (errors < MaxErrors /\ errors' = errors + 1)
        BY DEF Async!StoreResult
    <2>2. MaxErrors \in Nat /\ errors \in 0..MaxErrors
        BY <1>1, BoundsAssumption DEF AsyncTypes
    <2> QED BY <2>1, <2>2
<1>4. /\ answer' \in [Callers -> SUBSET Callers] /\ \A d \in Callers : d # c => answer'[d] = answer[d]
      /\ answer'[c] \in {answer[c], {c}} /\ (caller'[c] # "rejected" => answer'[c] = {c})
    <2>1. answer \in [Callers -> SUBSET Callers]
        BY <1>1 DEF AsyncTypes
    <2>2. \/ answer' = [answer EXCEPT ![c] = {c}]
          \/ answer' = answer
        BY DEF Async!StoreResult
    <2>3. \/ answer' = [answer EXCEPT ![c] = {c}]
          \/ caller' = [caller EXCEPT ![c] = "rejected"]
        BY DEF Async!StoreResult
    <2>4. /\ answer' \in [Callers -> SUBSET Callers] /\ \A d \in Callers : d # c => answer'[d] = answer[d]
          /\ answer'[c] \in {answer[c], {c}}
        BY <2>1, <2>2
    <2>5. caller'[c] # "rejected" => answer'[c] = {c}
        <3>1. CASE answer' = [answer EXCEPT ![c] = {c}]
            BY <2>1, <3>1
        <3>2. CASE caller' = [caller EXCEPT ![c] = "rejected"]
            <4>1. caller \in [Callers -> CallStates]
                BY <1>1 DEF AsyncTypes
            <4> QED BY <3>2, <4>1
        <3> QED BY <2>3, <3>1, <3>2
    <2> QED BY <2>4, <2>5
<1>5. \A d \in Callers : caller'[d] = "not made" <=> caller[d] = "not made"
    BY <1>1, <1>2
<1>6. Ordered' /\ (\A d : Pos(d)' = Pos(d)) /\ (\A d : Made(d)' <=> Made(d)) /\ Len(order') = Len(order)
    <2>1. caller \in [Callers -> CallStates] /\ UNCHANGED order
        BY <1>1, <1>2 DEF AsyncTypes
    <2> QED BY Zenon, <1>1, <1>2, <1>5, <2>1, NobodyCalls
<1>7. Made(c)
    BY <1>1 DEF Made
<1>8. AsyncTypes'
    BY <1>1, <1>2, <1>3, <1>4, <1>6, <1>7 DEF AsyncTypes
<1>9. \A d \in Callers : Given(d)' => Given(d)
    BY <1>4 DEF Given
<1>10. \A d \in Callers : Executed(d)' => Executed(d)
    BY <1>1, <1>2, <1>4 DEF Executed
<1>11. MemoizeInv'
    <2>1. \A e \in Callers : answer'[e] # {} => Made(e)'
        BY <1>1, <1>4, <1>6, <1>7 DEF MemoizeInv
    <2>2. \A d \in Callers : Given(d)' => cached' # {}
        BY <1>1, <1>2, <1>9 DEF MemoizeInv
    <2>3. \A e, d \in Callers : Given(d)' /\ Executed(e)' => Pos(e)' < Pos(d)'
        BY <1>1, <1>6, <1>9, <1>10 DEF MemoizeInv
    <2> QED BY Zenon, <2>1, <2>2, <2>3 DEF MemoizeInv
<1> QED BY Zenon, <1>1, <1>6, <1>8, <1>11 DEF AsyncInv

(* Nobody waits when nobody is queued.                                     *)
LEMMA NobodyWaits ==
    ASSUME Queued, queue = <<>>, due = <<>> PROVE \A d \in Callers : caller[d] # "waiting"
<1>1. Len(queue) = 0 /\ Len(due) = 0
    OBVIOUS
<1>2. \A m : m \notin 1..Len(queue) /\ m \notin 1..Len(due)
    BY <1>1
<1> QED BY <1>2 DEF Queued

(* Who is queued while nobody is due, as a rigid sequence.                 *)
LEMMA QueueOf ==
    ASSUME Queued, due = <<>>, NEW s \in Seq(Callers), s = queue
    PROVE  /\ \A m \in 1..Len(s) : s[m] \in Callers /\ caller[s[m]] = "waiting" /\ Made(s[m])
           /\ \A m, n \in 1..Len(s) : m < n => Pos(s[m]) < Pos(s[n])
           /\ \A d \in Callers : caller[d] = "waiting" => \E m \in 1..Len(s) : s[m] = d
<1>1. Len(due) = 0
    OBVIOUS
<1>2. \A m : m \notin 1..Len(due)
    BY <1>1
<1>3. \A m \in 1..Len(s) : s[m] \in Callers /\ caller[s[m]] = "waiting"
    BY DEF Queued
<1>4. \A m, n \in 1..Len(s) : m < n => Pos(s[m]) < Pos(s[n])
    BY DEF Queued
<1>5. \A d \in Callers : caller[d] = "waiting" => \E m \in 1..Len(s) : s[m] = d
    BY <1>2 DEF Queued
<1> QED BY <1>3, <1>4, <1>5 DEF Made

(* lock: the caller runs, nobody waiting, or is the last who waits.        *)
LEMMA LockKeeps ==
    ASSUME AsyncInv, NEW c \in Callers, Async!Lock(c)
    PROVE  AsyncInv'
<1> USE DEF CallStates
<1>1. /\ Ordered /\ AsyncTypes /\ LockInv /\ util = "lock" /\ util' = "lock" /\ due = <<>>
      /\ Queued /\ held = locks /\ queue \in Seq(Callers)
    BY DEF AsyncInv, Async!Lock, LockInv, AsyncTypes
<1>2. /\ Async!Invokes(c) /\ UNCHANGED <<due, debounced, latest, answer, cached, errors>>
      /\ caller' \in [Callers -> CallStates]
      /\ \A d \in Callers : d # c => caller'[d] = caller[d]
      /\ IF locks = {} THEN caller'[c] = "running" /\ held' = {c} /\ locks' = {c} /\ queue' = queue
         ELSE caller'[c] = "waiting" /\ queue' = Append(queue, c) /\ UNCHANGED <<held, locks>>
    BY <1>1 DEF Async!Lock, Async!Acquire, AsyncTypes
<1>3. Made(c)'
    BY <1>2 DEF Made
<1>4. \A d : d # c => (Made(d)' <=> Made(d))
    BY <1>1, <1>2 DEF Made, AsyncTypes
<1>5. /\ Ordered' /\ Len(order') = Len(order) + 1 /\ Len(order) \in Nat
      /\ Pos(c)' = Len(order) + 1 /\ \A d : Made(d) => Pos(d)' = Pos(d) /\ Pos(d) <= Len(order) /\ Pos(d) \in Nat
      /\ \A d : Made(d)' <=> Made(d) \/ d = c
      /\ ~Made(c)
    BY Zenon, <1>1, <1>2, <1>3, <1>4, Invoked
<1>6. executions' \in Nat
    <2>1. executions \in Nat
        BY <1>1 DEF AsyncTypes
    <2>2. executions' = executions + 1 \/ executions' = executions
        BY DEF Async!Lock, Async!Acquire
    <2> QED BY <2>1, <2>2
<1>7. caller[c] = "not made" /\ \A d \in Callers : caller[d] # "not made" <=> Made(d)
    BY <1>2 DEF Async!Invokes, Made
<1>8. CASE locks = {}
    <2>1. queue = <<>> /\ queue' = <<>> /\ due' = <<>> /\ held' = {c} /\ locks' = {c} /\ held = {}
        BY <1>1, <1>2, <1>8 DEF LockInv
    <2>2. AsyncTypes'
        BY <1>1, <1>2, <1>5, <1>6, <1>8, <2>1 DEF AsyncTypes
    <2>3. \A d \in Callers : caller'[d] # "waiting"
        <3>1. \A d \in Callers : caller[d] # "waiting"
            BY <1>1, <2>1, NobodyWaits
        <3> QED BY <1>2, <1>8, <3>1
    <2>4. Queued'
        BY <2>1, <2>3 DEF Queued
    <2>5. LockInv'
        BY <1>1, <1>2, <1>8, <2>1, <2>3, <2>4 DEF LockInv
    <2> QED BY Zenon, <1>1, <1>5, <2>2, <2>5 DEF AsyncInv
<1>9. CASE locks # {}
    <2>1. PICK s \in Seq(Callers) : s = queue
        BY <1>1
    <2>2. PICK t \in Seq(Callers) :
             /\ t = Append(s, c) /\ Len(s) \in Nat /\ Len(t) = Len(s) + 1
             /\ t[Len(t)] = c /\ \A n \in 1..Len(s) : t[n] = s[n]
             /\ \A n : n \in 1..Len(t) <=> n \in 1..Len(s) \/ n = Len(t)
        <3>1. s \in Seq(Callers)
            BY <2>1
        <3>2. c \in Callers
            OBVIOUS
        <3> QED BY Zenon, <3>1, <3>2, Grows
    <2>3. queue' = t /\ held' = held /\ locks' = locks /\ due' = <<>> /\ caller'[c] = "waiting"
        BY <1>1, <1>2, <1>9, <2>1, <2>2
    <2>4. AsyncTypes'
        <3>1. t \in Seq(Callers)
            BY <2>2
        <3> QED BY <1>1, <1>2, <1>5, <1>6, <2>3, <3>1 DEF AsyncTypes
    <2>5. /\ \A m \in 1..Len(s) : s[m] \in Callers /\ caller[s[m]] = "waiting" /\ s[m] # c /\ Made(s[m])
          /\ \A m, n \in 1..Len(s) : m < n => Pos(s[m]) < Pos(s[n])
          /\ \A d \in Callers : caller[d] = "waiting" => \E m \in 1..Len(s) : s[m] = d
        BY <1>1, <1>7, <2>1, QueueOf
    <2>6. Queued'
        <3>1. ASSUME NEW m \in 1..Len(t) PROVE caller'[t[m]] = "waiting"
            <4>1. CASE m \in 1..Len(s)
                BY <1>2, <2>2, <2>5, <4>1
            <4>2. CASE m = Len(t)
                BY <2>2, <2>3, <4>2
            <4> QED BY <2>2, <4>1, <4>2
        <3>2. ASSUME NEW d \in Callers, caller'[d] = "waiting" PROVE \E m \in 1..Len(t) : t[m] = d
            <4>1. CASE d = c
                BY <2>2, <4>1
            <4>2. CASE d # c
                <5>1. PICK m \in 1..Len(s) : s[m] = d
                    BY <1>2, <2>5, <3>2, <4>2
                <5> QED BY <2>2, <5>1
            <4> QED BY <4>1, <4>2
        <3>3. ASSUME NEW m \in 1..Len(t), NEW n \in 1..Len(t), m < n PROVE Pos(t[m])' < Pos(t[n])'
            <4>1. m \in 1..Len(s)
                BY <2>2, <3>3
            <4>2. t[m] = s[m] /\ Made(s[m])
                BY <2>2, <2>5, <4>1
            <4>3. CASE n = Len(t)
                BY <1>5, <2>2, <4>2, <4>3
            <4>4. CASE n \in 1..Len(s)
                <5>1. t[n] = s[n] /\ Made(s[n]) /\ Pos(s[m]) < Pos(s[n])
                    BY <2>2, <2>5, <3>3, <4>1, <4>4
                <5> QED BY <1>5, <4>2, <5>1
            <4> QED BY <2>2, <4>3, <4>4
        <3> QED BY <2>3, <3>1, <3>2, <3>3 DEF Queued
    <2>7. LockInv'
        <3>1. \A d, e \in held' : d = e
            BY <1>1, <2>3 DEF LockInv
        <3>2. held' = locks' /\ held' # {}
            BY <1>1, <1>9, <2>3
        <3>3. \A d \in Callers : caller'[d] = "running" <=> d \in held'
            BY <1>1, <1>2, <1>7, <2>3 DEF LockInv
        <3>4. ASSUME NEW e \in held', NEW d \in Callers, caller'[d] = "waiting" PROVE Pos(e)' < Pos(d)'
            <4>1. Made(e)
                BY <1>1, <2>3, <3>4 DEF AsyncTypes
            <4>2. CASE d = c
                BY <1>5, <4>1, <4>2
            <4>3. CASE d # c
                <5>1. caller[d] = "waiting" /\ Made(d) /\ Pos(e) < Pos(d)
                    BY <1>1, <1>2, <1>7, <2>3, <3>4, <4>3 DEF LockInv
                <5> QED BY <1>5, <4>1, <5>1
            <4> QED BY <4>2, <4>3
        <3>5. \A d \in Callers : caller'[d] = "rejected" => errors' > 0
            BY <1>1, <1>2, <2>3 DEF LockInv
        <3> QED BY Zenon, <2>6, <3>1, <3>2, <3>3, <3>4, <3>5 DEF LockInv
    <2> QED BY Zenon, <1>1, <1>5, <2>4, <2>7 DEF AsyncInv
<1> QED BY <1>8, <1>9

(* Release: who waited is due, or is rejected.                             *)
LEMMA ReleaseKeeps ==
    ASSUME AsyncInv, NEW c \in Callers, Async!Release(c)
    PROVE  AsyncInv'
<1> USE DEF CallStates
<1>1. /\ Ordered /\ AsyncTypes /\ LockInv /\ util = "lock" /\ util' = "lock" /\ due = <<>> /\ c \in held
      /\ Queued /\ held = locks /\ queue \in Seq(Callers) /\ caller[c] = "running"
    BY DEF AsyncInv, Async!Release, LockInv, AsyncTypes
<1>2. held' = {} /\ locks' = {} /\ queue' = <<>> /\ UNCHANGED <<order, debounced, latest, cached, executions>>
    BY <1>1 DEF Async!Release, LockInv
<1>3. PICK s \in Seq(Callers) : s = queue
    BY <1>1
<1>4. /\ \A m \in 1..Len(s) : s[m] \in Callers /\ caller[s[m]] = "waiting" /\ s[m] # c
      /\ \A m, n \in 1..Len(s) : m < n => Pos(s[m]) < Pos(s[n])
      /\ \A d \in Callers : caller[d] = "waiting" => \E m \in 1..Len(s) : s[m] = d
    BY <1>1, <1>3, QueueOf
<1>5. CASE caller' = [caller EXCEPT ![c] = "answered"] /\ due' = queue /\ answer' = [answer EXCEPT ![c] = {c}] /\ errors' = errors
    <2>1. /\ caller' \in [Callers -> CallStates] /\ answer' \in [Callers -> SUBSET Callers]
          /\ caller'[c] = "answered" /\ \A d \in Callers : d # c => caller'[d] = caller[d]
        BY <1>1, <1>5 DEF AsyncTypes
    <2>2. \A d \in Callers : caller'[d] = "not made" <=> caller[d] = "not made"
        BY <1>1, <2>1
    <2>3. Ordered' /\ (\A d : Pos(d)' = Pos(d)) /\ (\A d : Made(d)' <=> Made(d)) /\ Len(order') = Len(order)
        <3>1. caller \in [Callers -> CallStates] /\ UNCHANGED order
            BY <1>1, <1>2 DEF AsyncTypes
        <3> QED BY Zenon, <1>1, <2>1, <2>2, <3>1, NobodyCalls
    <2>4. AsyncTypes'
        BY <1>1, <1>2, <1>5, <2>1, <2>3 DEF AsyncTypes
    <2>5. Queued'
        <3>1. due' = s /\ queue' = <<>> /\ Len(queue') = 0
            BY <1>2, <1>3, <1>5
        <3>2. \A m : m \notin 1..Len(queue')
            BY <3>1
        <3>3. \A m \in 1..Len(s) : caller'[s[m]] = "waiting"
            BY <1>4, <2>1
        <3>4. \A d \in Callers : caller'[d] = "waiting" => \E m \in 1..Len(s) : s[m] = d
            BY <1>4, <2>1
        <3>5. \A m, n \in 1..Len(s) : m < n => Pos(s[m])' < Pos(s[n])'
            BY <1>4, <2>3
        <3> QED BY Zenon, <3>1, <3>2, <3>3, <3>4, <3>5 DEF Queued
    <2>6. LockInv'
        <3>1. \A d \in Callers : caller'[d] # "running"
            BY <1>1, <2>1 DEF LockInv
        <3>2. \A d \in Callers : caller'[d] = "rejected" => errors' > 0
            BY <1>1, <1>5, <2>1 DEF LockInv
        <3> QED BY <1>2, <2>5, <3>1, <3>2 DEF LockInv
    <2> QED BY Zenon, <1>1, <2>3, <2>4, <2>6 DEF AsyncInv
<1>6. CASE /\ errors < MaxErrors /\ errors' = errors + 1 /\ due' = <<>> /\ answer' = answer
           /\ caller' = [d \in Callers |-> IF d = c \/ d \in Async!Range(queue) THEN "rejected" ELSE caller[d]]
    <2>1. /\ caller' \in [Callers -> CallStates]
          /\ \A d \in Callers : caller'[d] = IF d = c \/ d \in Async!Range(queue) THEN "rejected" ELSE caller[d]
        BY <1>1, <1>6 DEF AsyncTypes
    <2>2. \A d : d \in Async!Range(queue) <=> \E m \in 1..Len(s) : s[m] = d
        BY <1>3 DEF Async!Range
    <2>3. \A d \in Callers : caller'[d] = "not made" <=> caller[d] = "not made"
        BY <1>1, <1>4, <2>1, <2>2
    <2>4. Ordered' /\ (\A d : Pos(d)' = Pos(d)) /\ (\A d : Made(d)' <=> Made(d)) /\ Len(order') = Len(order)
        <3>1. caller \in [Callers -> CallStates] /\ UNCHANGED order
            BY <1>1, <1>2 DEF AsyncTypes
        <3> QED BY Zenon, <1>1, <2>1, <2>3, <3>1, NobodyCalls
    <2>5. errors' \in 0..MaxErrors /\ errors' > 0
        <3>1. MaxErrors \in Nat /\ errors \in 0..MaxErrors
            BY <1>1, BoundsAssumption DEF AsyncTypes
        <3>2. errors < MaxErrors /\ errors' = errors + 1
            BY <1>6
        <3> QED BY <3>1, <3>2
    <2>6. AsyncTypes'
        BY <1>1, <1>2, <1>6, <2>1, <2>4, <2>5 DEF AsyncTypes
    <2>7. \A d \in Callers : caller'[d] # "waiting" /\ caller'[d] # "running"
        <3>1. \A d \in Callers : caller[d] = "running" => d = c
            BY <1>1 DEF LockInv
        <3>2. \A d \in Callers : caller[d] = "waiting" => d \in Async!Range(queue)
            BY <1>4, <2>2
        <3> QED BY <2>1, <3>1, <3>2
    <2>8. Queued'
        BY <1>2, <1>6, <2>7 DEF Queued
    <2>9. LockInv'
        BY <1>2, <2>5, <2>7, <2>8 DEF LockInv
    <2> QED BY Zenon, <1>1, <2>4, <2>6, <2>9 DEF AsyncInv
<1> QED BY <1>5, <1>6 DEF Async!Release

(* Continue: the first who is due runs, or awaits the new promise.         *)
LEMMA ContinueKeeps ==
    ASSUME AsyncInv, Async!Continue
    PROVE  AsyncInv'
<1> USE DEF CallStates
<1>1. /\ Ordered /\ AsyncTypes /\ util = "lock" /\ util' = "lock" /\ due # <<>>
      /\ UNCHANGED <<order, debounced, latest, answer, cached, errors>>
    BY DEF AsyncInv, Async!Continue, AsyncTypes
<1>2. LockInv /\ Queued /\ held = locks /\ queue \in Seq(Callers) /\ due \in Seq(Callers)
    BY <1>1 DEF AsyncInv, LockInv, AsyncTypes
<1>3. PICK s \in Seq(Callers) : s = due
    BY <1>2
<1>4. PICK d, t : d = Head(s) /\ t = Tail(s)
    OBVIOUS
<1>5. /\ d \in Callers /\ t \in Seq(Callers) /\ Len(s) \in Nat \ {0} /\ Len(t) = Len(s) - 1 /\ s[1] = d
      /\ \A m \in 1..Len(t) : t[m] = s[m + 1] /\ m + 1 \in 1..Len(s)
      /\ \A n \in 1..Len(s) : n = 1 \/ \E m \in 1..Len(t) : n = m + 1
    <2>1. s \in Seq(Callers) /\ s # <<>>
        BY <1>1, <1>3
    <2>2. d \in Callers /\ t \in Seq(Callers) /\ Len(s) \in Nat \ {0} /\ Len(t) = Len(s) - 1 /\ s[1] = d
        BY <1>4, <2>1
    <2>3. \A m \in 1..Len(t) : t[m] = s[m + 1] /\ m + 1 \in 1..Len(s)
        BY <1>4, <2>1, <2>2
    <2>4. ASSUME NEW n \in 1..Len(s), n # 1 PROVE \E m \in 1..Len(t) : n = m + 1
        <3>1. n - 1 \in 1..Len(t) /\ n = (n - 1) + 1
            BY <2>2, <2>4
        <3> QED BY <3>1
    <2> QED BY <2>2, <2>3, <2>4
<1>6. /\ \A m \in 1..Len(s) : s[m] \in Callers /\ caller[s[m]] = "waiting" /\ Made(s[m])
      /\ \A m, n \in 1..Len(s) : m < n => Pos(s[m]) < Pos(s[n])
      /\ \A e \in Callers : caller[e] = "waiting" =>
           (\E m \in 1..Len(queue) : queue[m] = e) \/ (\E m \in 1..Len(s) : s[m] = e)
      /\ \A m \in 1..Len(queue), n \in 1..Len(s) : Pos(queue[m]) < Pos(s[n])
    <2>1. \A m \in 1..Len(s) : s[m] \in Callers /\ caller[s[m]] = "waiting"
        BY <1>2, <1>3 DEF Queued
    <2>2. \A m, n \in 1..Len(s) : m < n => Pos(s[m]) < Pos(s[n])
        BY <1>2, <1>3 DEF Queued
    <2>3. \A e \in Callers : caller[e] = "waiting" =>
            (\E m \in 1..Len(queue) : queue[m] = e) \/ (\E m \in 1..Len(s) : s[m] = e)
        BY <1>2, <1>3 DEF Queued
    <2>4. \A m \in 1..Len(queue), n \in 1..Len(s) : Pos(queue[m]) < Pos(s[n])
        BY <1>2, <1>3 DEF Queued
    <2>5. \A m \in 1..Len(s) : Made(s[m])
        BY <2>1 DEF Made
    <2> QED BY <2>1, <2>2, <2>3, <2>4, <2>5
<1>7. due' = t /\ Head(due) = d
    BY <1>3, <1>4 DEF Async!Continue
<1>8. Made(d) /\ caller[d] = "waiting"
    BY <1>5, <1>6
<1>9. /\ \A m \in 1..Len(t) : t[m] \in Callers /\ caller[t[m]] = "waiting" /\ Made(t[m])
      /\ \A m, n \in 1..Len(t) : m < n => Pos(t[m]) < Pos(t[n])
      /\ \A m \in 1..Len(t) : Pos(d) < Pos(t[m])
    <2>1. \A m \in 1..Len(t) : t[m] \in Callers /\ caller[t[m]] = "waiting" /\ Made(t[m])
        <3> SUFFICES ASSUME NEW m \in 1..Len(t)
                     PROVE  t[m] \in Callers /\ caller[t[m]] = "waiting" /\ Made(t[m])
            OBVIOUS
        <3>1. t[m] = s[m + 1] /\ m + 1 \in 1..Len(s)
            BY <1>5
        <3> QED BY <1>6, <3>1
    <2>2. ASSUME NEW m \in 1..Len(t), NEW n \in 1..Len(t), m < n PROVE Pos(t[m]) < Pos(t[n])
        <3>1. t[m] = s[m + 1] /\ t[n] = s[n + 1] /\ m + 1 \in 1..Len(s) /\ n + 1 \in 1..Len(s) /\ m + 1 < n + 1
            BY <1>5, <2>2
        <3> QED BY <1>6, <3>1
    <2>3. ASSUME NEW m \in 1..Len(t) PROVE Pos(d) < Pos(t[m])
        <3>1. t[m] = s[m + 1] /\ s[1] = d /\ m + 1 \in 1..Len(s) /\ 1 \in 1..Len(s) /\ 1 < m + 1
            BY <1>5, <2>3
        <3> QED BY <1>6, <3>1
    <2> QED BY <2>1, <2>2, <2>3
<1>10. Len(order) \in Nat /\ \A e : Made(e) => Pos(e) \in 1..Len(order)
    BY <1>1, Positions
<1>11. \A m \in 1..Len(t) : t[m] # d
    BY <1>8, <1>9, <1>10
<1>12. executions' \in Nat
    <2>1. executions \in Nat
        BY <1>1 DEF AsyncTypes
    <2>2. executions' = executions + 1 \/ executions' = executions
        BY DEF Async!Continue, Async!Acquire
    <2> QED BY <2>1, <2>2
<1>13. CASE locks = {}
    <2>1. queue = <<>> /\ held = {}
        BY <1>2, <1>13 DEF LockInv
    <2>2. queue' = <<>> /\ held' = {d} /\ locks' = {d} /\ caller' = [caller EXCEPT ![d] = "running"]
        BY <1>7, <1>13, <2>1 DEF Async!Continue, Async!Acquire
    <2>3. caller' \in [Callers -> CallStates] /\ caller'[d] = "running" /\ \A e \in Callers : e # d => caller'[e] = caller[e]
        BY <1>1, <1>5, <2>2 DEF AsyncTypes
    <2>4. \A e \in Callers : caller'[e] = "not made" <=> caller[e] = "not made"
        BY <1>8, <2>3
    <2>5. Ordered' /\ (\A e : Pos(e)' = Pos(e)) /\ (\A e : Made(e)' <=> Made(e)) /\ Len(order') = Len(order)
        <3>1. caller \in [Callers -> CallStates] /\ UNCHANGED order
            BY <1>1 DEF AsyncTypes
        <3> QED BY Zenon, <1>1, <2>3, <2>4, <3>1, NobodyCalls
    <2>6. AsyncTypes'
        <3>1. \A e \in held' \cup locks' \cup debounced' \cup latest' \cup cached' : Made(e)'
            BY <1>1, <1>8, <2>2, <2>5 DEF AsyncTypes
        <3>2. queue' \in Seq(Callers) /\ due' \in Seq(Callers)
            BY <1>5, <1>7, <2>2
        <3> QED BY <1>1, <1>12, <2>3, <3>1, <3>2 DEF AsyncTypes
    <2>7. Len(queue') = 0 /\ Len(queue) = 0
        BY <2>1, <2>2
    <2>8. \A m : m \notin 1..Len(queue') /\ m \notin 1..Len(queue)
        BY <2>7
    <2>9. \A e \in Callers : caller'[e] = "waiting" => \E m \in 1..Len(t) : t[m] = e
        <3> SUFFICES ASSUME NEW e \in Callers, caller'[e] = "waiting" PROVE \E m \in 1..Len(t) : t[m] = e
            OBVIOUS
        <3>1. e # d /\ caller[e] = "waiting"
            BY <2>3
        <3>2. PICK n \in 1..Len(s) : s[n] = e
            BY <1>6, <2>8, <3>1
        <3>3. n # 1
            BY <1>5, <3>1, <3>2
        <3>4. PICK m \in 1..Len(t) : n = m + 1
            BY <1>5, <3>2, <3>3
        <3> QED BY <1>5, <3>2, <3>4
    <2>10. Queued'
        <3>1. \A m \in 1..Len(t) : caller'[t[m]] = "waiting"
            BY <1>9, <1>11, <2>3
        <3>2. \A m, n \in 1..Len(t) : m < n => Pos(t[m])' < Pos(t[n])'
            BY <1>9, <2>5
        <3> QED BY Zenon, <1>7, <2>8, <2>9, <3>1, <3>2 DEF Queued
    <2>11. LockInv'
        <3>1. \A e, f \in held' : e = f
            BY <2>2
        <3>2. held' = locks' /\ held' # {}
            BY <2>2
        <3>3. \A e \in Callers : caller'[e] = "running" <=> e \in held'
            BY <1>2, <2>1, <2>2, <2>3 DEF LockInv
        <3>4. ASSUME NEW e \in held', NEW f \in Callers, caller'[f] = "waiting" PROVE Pos(e)' < Pos(f)'
            <4>1. PICK m \in 1..Len(t) : t[m] = f
                BY <2>9, <3>4
            <4>2. e = d
                BY <2>2, <3>4
            <4> QED BY <1>9, <2>5, <4>1, <4>2
        <3>5. \A e \in Callers : caller'[e] = "rejected" => errors' > 0
            BY <1>1, <1>2, <2>3 DEF LockInv
        <3> QED BY Zenon, <2>10, <3>1, <3>2, <3>3, <3>4, <3>5 DEF LockInv
    <2> QED BY Zenon, <1>1, <2>5, <2>6, <2>11 DEF AsyncInv
<1>14. CASE locks # {}
    <2>1. PICK q \in Seq(Callers) : q = queue
        BY <1>2
    <2>2. PICK r \in Seq(Callers) :
             /\ r = Append(q, d) /\ Len(q) \in Nat /\ Len(r) = Len(q) + 1
             /\ r[Len(r)] = d /\ \A n \in 1..Len(q) : r[n] = q[n]
             /\ \A n : n \in 1..Len(r) <=> n \in 1..Len(q) \/ n = Len(r)
        <3>1. q \in Seq(Callers)
            BY <2>1
        <3>2. d \in Callers
            BY <1>5
        <3> QED BY Zenon, <3>1, <3>2, Grows
    <2>3. queue' = r /\ held' = held /\ locks' = locks /\ caller' = caller /\ held # {}
        BY <1>2, <1>7, <1>14, <2>1, <2>2 DEF Async!Continue
    <2>4. \A e \in Callers : caller'[e] = "not made" <=> caller[e] = "not made"
        BY <2>3
    <2>5. Ordered' /\ (\A e : Pos(e)' = Pos(e)) /\ (\A e : Made(e)' <=> Made(e)) /\ Len(order') = Len(order)
        <3>1. caller \in [Callers -> CallStates] /\ caller' \in [Callers -> CallStates] /\ UNCHANGED order
            BY <1>1, <2>3 DEF AsyncTypes
        <3> QED BY Zenon, <1>1, <2>4, <3>1, NobodyCalls
    <2>6. AsyncTypes'
        <3>1. r \in Seq(Callers) /\ t \in Seq(Callers)
            BY <1>5, <2>2
        <3> QED BY <1>1, <1>7, <1>12, <2>3, <2>5, <3>1 DEF AsyncTypes
    <2>7. /\ \A m \in 1..Len(q) : caller[q[m]] = "waiting" /\ Pos(q[m]) < Pos(d)
          /\ \A m, n \in 1..Len(q) : m < n => Pos(q[m]) < Pos(q[n])
          /\ \A m \in 1..Len(q), n \in 1..Len(t) : Pos(q[m]) < Pos(t[n])
        <3>1. 1 \in 1..Len(s) /\ s[1] = d
            BY <1>5
        <3>2. \A m \in 1..Len(q) : caller[q[m]] = "waiting" /\ Pos(q[m]) < Pos(d)
            BY <1>2, <1>6, <2>1, <3>1 DEF Queued
        <3>3. \A m, n \in 1..Len(q) : m < n => Pos(q[m]) < Pos(q[n])
            BY <1>2, <2>1 DEF Queued
        <3>4. \A m \in 1..Len(q), n \in 1..Len(t) : Pos(q[m]) < Pos(t[n])
            BY <1>5, <1>6, <2>1
        <3> QED BY <3>2, <3>3, <3>4
    <2>8. Queued'
        <3>1. \A m \in 1..Len(r) : caller'[r[m]] = "waiting"
            BY <1>8, <2>2, <2>3, <2>7
        <3>2. \A m \in 1..Len(t) : caller'[t[m]] = "waiting"
            BY <1>9, <2>3
        <3>3. ASSUME NEW e \in Callers, caller'[e] = "waiting"
              PROVE  (\E m \in 1..Len(r) : r[m] = e) \/ (\E m \in 1..Len(t) : t[m] = e)
            <4>1. CASE \E m \in 1..Len(q) : q[m] = e
                <5>1. PICK m \in 1..Len(q) : q[m] = e
                    BY <4>1
                <5> QED BY <2>2, <5>1
            <4>2. CASE \E n \in 1..Len(s) : s[n] = e
                <5>1. PICK n \in 1..Len(s) : s[n] = e
                    BY <4>2
                <5>2. CASE n = 1
                    <6>1. Len(r) \in 1..Len(r) /\ r[Len(r)] = e
                        BY <1>5, <2>2, <5>1, <5>2
                    <6> QED BY <6>1
                <5>3. CASE n # 1
                    <6>1. PICK m \in 1..Len(t) : n = m + 1
                        BY <1>5, <5>1, <5>3
                    <6> QED BY <1>5, <5>1, <6>1
                <5> QED BY <5>2, <5>3
            <4> QED BY <1>6, <2>1, <2>3, <3>3, <4>1, <4>2
        <3>4. ASSUME NEW m \in 1..Len(r), NEW n \in 1..Len(r), m < n PROVE Pos(r[m])' < Pos(r[n])'
            <4>1. m \in 1..Len(q)
                BY <2>2, <3>4
            <4>2. r[m] = q[m]
                BY <2>2, <4>1
            <4>3. CASE n = Len(r)
                BY <2>2, <2>5, <2>7, <4>1, <4>2, <4>3
            <4>4. CASE n \in 1..Len(q)
                <5>1. r[n] = q[n] /\ Pos(q[m]) < Pos(q[n])
                    BY <2>2, <2>7, <3>4, <4>1, <4>4
                <5> QED BY <2>5, <4>2, <5>1
            <4> QED BY <2>2, <4>3, <4>4
        <3>5. \A m, n \in 1..Len(t) : m < n => Pos(t[m])' < Pos(t[n])'
            BY <1>9, <2>5
        <3>6. ASSUME NEW m \in 1..Len(r), NEW n \in 1..Len(t) PROVE Pos(r[m])' < Pos(t[n])'
            <4>1. CASE m = Len(r)
                BY <1>9, <2>2, <2>5, <4>1
            <4>2. CASE m \in 1..Len(q)
                BY <2>2, <2>5, <2>7, <4>2
            <4> QED BY <2>2, <4>1, <4>2
        <3> QED BY Zenon, <1>7, <2>3, <3>1, <3>2, <3>3, <3>4, <3>5, <3>6 DEF Queued
    <2>9. LockInv'
        <3>1. \A e, f \in held' : e = f
            BY <1>2, <2>3 DEF LockInv
        <3>2. held' = locks' /\ held' # {}
            BY <1>2, <2>3
        <3>3. \A e \in Callers : caller'[e] = "running" <=> e \in held'
            BY <1>2, <2>3 DEF LockInv
        <3>4. \A e \in held', f \in Callers : caller'[f] = "waiting" => Pos(e)' < Pos(f)'
            BY <1>2, <2>3, <2>5 DEF LockInv
        <3>5. \A e \in Callers : caller'[e] = "rejected" => errors' > 0
            BY <1>1, <1>2, <2>3 DEF LockInv
        <3> QED BY Zenon, <2>8, <3>1, <3>2, <3>3, <3>4, <3>5 DEF LockInv
    <2> QED BY Zenon, <1>1, <2>5, <2>6, <2>9 DEF AsyncInv
<1> QED BY <1>13, <1>14

(* Every step of the shared functions keeps the invariant.                 *)
LEMMA AsyncKeeps == AsyncInv /\ Async!Next => AsyncInv'
BY Zenon, LockKeeps, ReleaseKeeps, ContinueKeeps, DebounceKeeps, TimerKeeps, SettleKeeps, MemoizeKeeps,
   StoreKeeps DEF Async!Next

(* The shared functions at their start.                                    *)
LEMMA AsyncInit == Async!Init => AsyncInv
<1> SUFFICES ASSUME Async!Init PROVE AsyncInv
    OBVIOUS
<1>1. /\ util \in {"lock", "debounce", "memoize"} /\ order = <<>> /\ queue = <<>> /\ due = <<>>
      /\ held = {} /\ locks = {} /\ debounced = {} /\ latest = {} /\ cached = {} /\ executions = 0 /\ errors = 0
      /\ caller \in [Callers -> CallStates] /\ \A c \in Callers : caller[c] = "not made"
      /\ answer \in [Callers -> SUBSET Callers] /\ \A c \in Callers : answer[c] = {}
    BY DEF Async!Init, CallStates
<1>2. order \in Seq(Callers) /\ queue \in Seq(Callers) /\ due \in Seq(Callers) /\ Len(order) = 0 /\ Len(queue) = 0 /\ Len(due) = 0
    <2>1. order = <<>> /\ queue = <<>> /\ due = <<>>
        BY <1>1
    <2> QED BY <2>1
<1>3. \A m : m \notin 1..Len(order) /\ m \notin 1..Len(queue) /\ m \notin 1..Len(due)
    BY <1>2
<1>4. \A c : ~Made(c)
    BY <1>1 DEF Made
<1>5. Ordered
    BY <1>2, <1>3, <1>4 DEF Ordered
<1>6. AsyncTypes
    <2>1. errors \in 0..MaxErrors /\ executions \in Nat
        <3>1. errors = 0 /\ executions = 0
            BY <1>1
        <3>2. MaxErrors \in Nat
            BY BoundsAssumption
        <3> QED BY <3>1, <3>2
    <2> QED BY <1>1, <1>2, <2>1 DEF AsyncTypes
<1>7. LockInv
    <2>1. Queued
        BY <1>1, <1>3 DEF Queued
    <2> QED BY <1>1, <2>1 DEF LockInv
<1>8. DebounceInv
    <2>1. latest = {} /\ debounced = {} /\ \A c \in Callers : answer[c] = {}
        BY <1>1
    <2>2. executions <= Len(order)
        <3>1. executions = 0 /\ Len(order) = 0
            BY <1>1, <1>2
        <3> QED BY <3>1
    <2> QED BY <2>1, <2>2 DEF DebounceInv
<1>9. MemoizeInv
    BY <1>1 DEF MemoizeInv, Given
<1> QED BY <1>5, <1>6, <1>7, <1>8, <1>9 DEF AsyncInv

(* The other parts leave them alone.                                       *)
LEMMA AsyncRests == AsyncInv /\ UNCHANGED asyncVars => AsyncInv'
<1> SUFFICES ASSUME AsyncInv, UNCHANGED asyncVars PROVE AsyncInv'
    OBVIOUS
<1>1. UNCHANGED <<util, caller, order, held, locks, queue, due, debounced, latest, answer, cached, executions, errors>>
    BY DEF asyncVars
<1>2. (\A c : Pos(c)' = Pos(c)) /\ (\A c : Made(c)' <=> Made(c))
    BY <1>1 DEF Pos, Made, Async!Position
<1>3. Ordered' /\ AsyncTypes'
    BY Zenon, <1>1, <1>2 DEF AsyncInv, Ordered, AsyncTypes
<1>4. LockInv => LockInv'
    BY Zenon, <1>1, <1>2 DEF LockInv, Queued
<1>5. DebounceInv => DebounceInv'
    BY Zenon, <1>1, <1>2 DEF DebounceInv
<1>6. MemoizeInv => MemoizeInv'
    BY Zenon, <1>1, <1>2 DEF MemoizeInv, Given, Executed
<1> QED BY Zenon, <1>1, <1>3, <1>4, <1>5, <1>6 DEF AsyncInv

(* What the invariant says of the shared functions.                        *)
LEMMA AsyncKept ==
    AsyncInv => Async!TypeOK /\ Async!LockIsExclusive /\ Async!DebounceAnswersTheNewest /\ Async!MemoizedOnce
<1> SUFFICES ASSUME AsyncInv
             PROVE  Async!TypeOK /\ Async!LockIsExclusive /\ Async!DebounceAnswersTheNewest /\ Async!MemoizedOnce
    OBVIOUS
<1>1. Ordered /\ AsyncTypes
    BY DEF AsyncInv
<1>2. Async!TypeOK
    <2>1. Async!Range(order) = {c \in Callers : caller[c] # "not made"}
        <3>1. PICK s \in Seq(Callers) : s = order
            BY <1>1 DEF Ordered
        <3>2. \A c : c \in Async!Range(order) <=> \E n \in 1..Len(s) : s[n] = c
            BY <3>1 DEF Async!Range
        <3>3. \A c : Made(c) <=> \E n \in 1..Len(s) : s[n] = c
            BY <1>1, <3>1 DEF Ordered
        <3> QED BY <3>2, <3>3 DEF Made
    <2>2. Async!Range(queue) \subseteq Callers
        <3>1. PICK s \in Seq(Callers) : s = queue
            BY <1>1 DEF AsyncTypes
        <3> QED BY <3>1 DEF Async!Range
    <2>3. Async!Range(due) \subseteq Callers
        <3>1. PICK s \in Seq(Callers) : s = due
            BY <1>1 DEF AsyncTypes
        <3> QED BY <3>1 DEF Async!Range
    <2>4. held \cup locks \cup debounced \cup latest \cup cached \subseteq Callers
        BY <1>1 DEF AsyncTypes, Made
    <2>5. /\ util \in {"lock", "debounce", "memoize"}
          /\ caller \in [Callers -> {"not made", "waiting", "ready", "running", "answered", "rejected"}]
          /\ (\A c \in Callers : answer[c] \subseteq Callers) /\ executions \in Nat /\ errors \in 0..MaxErrors
        BY <1>1 DEF AsyncTypes, CallStates
    <2>6. held \cup locks \cup debounced \cup latest \cup cached \cup Async!Range(queue) \cup Async!Range(due) \subseteq Callers
        BY <2>2, <2>3, <2>4
    <2> QED BY Zenon, <2>1, <2>5, <2>6 DEF Async!TypeOK
<1>3. Async!LockIsExclusive
    <2> SUFFICES ASSUME util = "lock"
                 PROVE  /\ \A c, d \in held : c = d
                        /\ held = locks /\ (queue # <<>> => held # {})
                        /\ \A c, d \in Callers :
                             caller[c] = "waiting" /\ caller[d] = "running" => Pos(d) < Pos(c)
                        /\ (errors = 0 => \A c \in Callers : caller[c] # "rejected")
        BY DEF Async!LockIsExclusive, Pos
    <2>1. LockInv
        BY DEF AsyncInv
    <2>2. errors = 0 => \A c \in Callers : caller[c] # "rejected"
        BY <2>1 DEF LockInv
    <2>3. \A c, d \in Callers : caller[c] = "waiting" /\ caller[d] = "running" => Pos(d) < Pos(c)
        BY <2>1 DEF LockInv
    <2> QED BY <2>1, <2>2, <2>3 DEF LockInv
<1>4. Async!DebounceAnswersTheNewest
    BY DEF AsyncInv, DebounceInv, Async!DebounceAnswersTheNewest, Pos
<1>5. Async!MemoizedOnce
    BY DEF AsyncInv, MemoizeInv, Given, Executed, Async!MemoizedOnce, Pos
<1> QED BY <1>2, <1>3, <1>4, <1>5

-----------------------------------------------------------------------------
(***************************************************************************)
(* The batches of async.util.ts.                                           *)
(***************************************************************************)
(* The first item of the batch of an item.                                 *)
First(n) == ((n - 1) \div BatchSize) * BatchSize + 1

(* A set of numbers that is not empty has a least one,                     *)
LEMMA Least ==
    ASSUME NEW T, T \subseteq Nat, T # {}
    PROVE  \E n \in T : \A m \in T : n <= m
<1>1. PICK R : R = OpToRel(<, Nat)
    OBVIOUS
<1>2. \A p, q \in Nat : <<p, q>> \in R <=> p < q
    BY <1>1 DEF OpToRel
<1>3. IsWellFoundedOn(R, Nat)
    BY Zenon, <1>1, NatLessThanWellFounded
<1>4. PICK n \in T : \A m \in T : <<m, n>> \notin R
    BY Zenon, <1>3, WFMin
<1>5. ASSUME NEW m \in T PROVE n <= m
    <2>1. m \in Nat /\ n \in Nat /\ <<m, n>> \notin R
        BY <1>4
    <2>2. ~(m < n)
        BY Zenon, <1>2, <2>1
    <2> QED BY <2>1, <2>2
<1> QED BY <1>5

(* and one of numbers up to a bound has a greatest one.                    *)
LEMMA Greatest ==
    ASSUME NEW n \in Nat, NEW T, T \subseteq 1..n, T # {}
    PROVE  \E m \in T : \A k \in T : k <= m
<1>1. PICK D : D = {d \in Nat : \E k \in T : d = n - k}
    OBVIOUS
<1>2. \A k \in T : n - k \in D
    BY <1>1
<1>3. D \subseteq Nat /\ D # {}
    BY <1>1, <1>2
<1>4. PICK d \in D : \A e \in D : d <= e
    BY Zenon, <1>3, Least
<1>5. PICK m \in T : d = n - m
    BY <1>1, <1>4
<1>6. \A k \in T : k <= m
    <2> SUFFICES ASSUME NEW k \in T PROVE k <= m
        OBVIOUS
    <2>1. d <= n - k /\ k \in Nat /\ m \in Nat
        BY <1>2, <1>4
    <2> QED BY <1>5, <2>1
<1> QED BY <1>6

(* The items of a batch follow its first one.                              *)
LEMMA Quotient ==
    ASSUME NEW n \in Nat \ {0}, NEW f, f = First(n)
    PROVE  /\ f \in Nat \ {0} /\ f <= n /\ n < f + BatchSize
           /\ \A j \in Nat \ {0} :
                (j - 1) \div BatchSize = (n - 1) \div BatchSize <=> f <= j /\ j < f + BatchSize
<1>1. BatchSize \in Nat \ {0}
    BY Limits
<1>2. PICK q \in Nat : q = (n - 1) \div BatchSize
    BY <1>1
<1>3. f = q * BatchSize + 1 /\ q * BatchSize \in Nat
    BY <1>1, <1>2 DEF First
<1>4. q * BatchSize <= n - 1 /\ n - 1 < q * BatchSize + BatchSize
    BY <1>1, <1>2
<1>5. ASSUME NEW j \in Nat \ {0}
      PROVE  (j - 1) \div BatchSize = q <=> f <= j /\ j < f + BatchSize
    <2>1. PICK k \in Nat : k = j - 1
        OBVIOUS
    <2>2. k \div BatchSize = q <=> q * BatchSize <= k /\ k < q * BatchSize + BatchSize
        BY <1>1
    <2> QED BY <1>1, <1>3, <2>1, <2>2
<1> QED BY <1>1, <1>2, <1>3, <1>4, <1>5

(* The items of a batch have the same first one, and after the last one    *)
(* another batch begins.                                                   *)
LEMMA Firsts ==
    ASSUME NEW n \in Nat \ {0}, NEW m \in Nat \ {0}
    PROVE  /\ First(n) <= m /\ m < First(n) + BatchSize => First(m) = First(n)
           /\ m = First(n) + BatchSize => First(m) = m
<1>1. BatchSize \in Nat \ {0}
    BY Limits
<1>2. First(n) <= m /\ m < First(n) + BatchSize => First(m) = First(n)
    BY Quotient DEF First
<1>3. ASSUME m = First(n) + BatchSize PROVE First(m) = m
    <2>1. PICK q \in Nat : q = (n - 1) \div BatchSize
        BY <1>1
    <2>2. m - 1 = q * BatchSize + BatchSize /\ q * BatchSize \in Nat
        BY <1>1, <1>3, <2>1 DEF First
    <2>3. (m - 1) \div BatchSize = q + 1
        BY <1>1, <2>2
    <2>4. First(m) = (q + 1) * BatchSize + 1
        BY <2>3 DEF First
    <2> QED BY <1>1, <2>2, <2>4
<1> QED BY <1>2, <1>3

(* The batch of an item, and its ends.                                     *)
LEMMA TheBatch ==
    ASSUME items \in Nat, NEW n \in 1..items, NEW f, f = First(n), NEW S, S = Batch!SameBatch(n)
    PROVE  /\ f \in 1..n /\ n < f + BatchSize /\ n \in S /\ f \in S
           /\ \A j : j \in S <=> j \in 1..items /\ f <= j /\ j < f + BatchSize
           /\ Batch!Min(S) = f
           /\ n = Batch!Max(S) <=> n = items \/ n = f + BatchSize - 1
<1>1. BatchSize \in Nat \ {0}
    BY Limits
<1>2. /\ f \in Nat \ {0} /\ f <= n /\ n < f + BatchSize
      /\ \A j \in Nat \ {0} :
           (j - 1) \div BatchSize = (n - 1) \div BatchSize <=> f <= j /\ j < f + BatchSize
    BY Quotient
<1>3. \A j : j \in S <=> j \in 1..items /\ f <= j /\ j < f + BatchSize
    BY <1>2 DEF Batch!SameBatch, Batch!Items
<1>4. f \in S /\ n \in S
    BY <1>1, <1>2, <1>3
<1>5. Batch!Min(S) = f
    BY <1>2, <1>3, <1>4 DEF Batch!Min
<1>6. n = Batch!Max(S) <=> n = items \/ n = f + BatchSize - 1
    <2>1. PICK m \in S : \A k \in S : k <= m
        <3>1. S \subseteq 1..items /\ S # {}
            BY <1>3, <1>4
        <3> QED BY <3>1, Greatest
    <2>2. Batch!Max(S) = m
        BY <1>3, <2>1 DEF Batch!Max
    <2>3. m = items \/ m = f + BatchSize - 1
        <3>1. m \in 1..items /\ f <= m /\ m < f + BatchSize
            BY <1>3, <2>1
        <3>2. m + 1 \in S => m + 1 <= m
            BY <2>1
        <3>3. m + 1 \notin 1..items \/ m + 1 >= f + BatchSize
            BY <1>1, <1>2, <1>3, <3>1, <3>2
        <3> QED BY <1>1, <1>2, <3>1, <3>3
    <2>4. n <= m /\ m \in 1..items /\ m < f + BatchSize
        BY <1>3, <1>4, <2>1
    <2> QED BY <1>1, <1>2, <2>2, <2>3, <2>4
<1> QED BY <1>2, <1>3, <1>4, <1>5, <1>6

(* The types of a batch: what executes is of the batch the loop is at, and *)
(* what wins a race has ended.                                             *)
BatchSteps == {"loop", "race", "all", "over", "thrown"}
ItemStates == {"idle", "running", "sleeping", "settled", "rejected"}
InBatch(j) == j \in 1..items /\ First(next) <= j /\ j < First(next) + BatchSize
BatchTypes ==
    /\ items \in 1..MaxItems /\ concurrency \in 1..MaxItems /\ next \in 1..items /\ step \in BatchSteps
    /\ \A j \in executing : InBatch(j) /\ j <= next /\ (step = "loop" => j < next)
    /\ winner \subseteq executing /\ (step # "race" => winner = {})
    /\ item \in [1..MaxItems -> ItemStates] /\ tried \in [1..MaxItems -> 0..MaxAttempts]
    /\ results \in Seq(0..items) /\ rejects \in 0..MaxRejects
    /\ step = "all" => next = items \/ next = First(next) + BatchSize - 1
Tries ==
    /\ \A j \in winner : item[j] \in {"settled", "rejected"}
    /\ \A j \in 1..items :
         /\ item[j] = "sleeping" => tried[j] < MaxAttempts
         /\ item[j] = "rejected" => rejects > 0

(* Results ascend, and those of the batch the loop is at are not there     *)
(* yet.                                                                    *)
Collected ==
    /\ \A j, k \in 1..Len(results) : j < k /\ results[j] > 0 /\ results[k] > 0 => results[j] < results[k]
    /\ step # "over" => \A j \in 1..Len(results) : results[j] < First(next)

(* One item at a time, or more than a batch has: all that came before has  *)
(* its result, and what runs is awaited.                                   *)
Whole ==
    /\ step = "over" => results = [j \in 1..items |-> j]
    /\ step \notin {"thrown", "over"} =>
         /\ Len(results) = First(next) - 1 /\ \A j \in 1..Len(results) : results[j] = j
         /\ \A j \in 1..items :
              /\ j < First(next) => item[j] = "settled"
              /\ item[j] \in {"running", "sleeping"} => j \in executing
Single ==
    step \notin {"thrown", "over"} =>
        /\ executing \subseteq {next} /\ (step # "race" => executing = {})
        /\ \A j \in 1..items : j < next \/ (j = next /\ step = "all") => item[j] = "settled"
Together ==
    step \notin {"thrown", "over"} =>
        /\ step # "race"
        /\ \A j : InBatch(j) /\ (j < next \/ (j = next /\ step = "all")) => j \in executing

BatchInv ==
    /\ BatchTypes /\ Tries /\ Collected
    /\ concurrency = 1 => Whole /\ Single
    /\ concurrency > BatchSize => Whole /\ Together

(* The loop goes on in the batch, or has reached its end.                  *)
LEMMA GoesOn ==
    ASSUME BatchTypes, Batch!GoOn
    PROVE  \/ step' = "all" /\ next' = next /\ (next = items \/ next = First(next) + BatchSize - 1)
           \/ step' = "loop" /\ next' = next + 1 /\ next + 1 \in 1..items /\ First(next + 1) = First(next)
<1>1. items \in Nat /\ next \in 1..items /\ BatchSize \in Nat \ {0}
    BY Limits, Bounds DEF BatchTypes
<1>2. PICK f : f = First(next)
    OBVIOUS
<1>3. PICK S : S = Batch!SameBatch(next)
    OBVIOUS
<1>4. f \in 1..next /\ next < f + BatchSize /\ (next = Batch!Max(S) <=> next = items \/ next = f + BatchSize - 1)
    BY <1>1, <1>2, <1>3, TheBatch
<1>5. CASE next = Batch!Max(S)
    BY <1>2, <1>3, <1>4, <1>5 DEF Batch!GoOn
<1>6. CASE next # Batch!Max(S)
    <2>1. step' = "loop" /\ next' = next + 1
        BY <1>3, <1>6 DEF Batch!GoOn
    <2>2. next + 1 \in 1..items /\ f <= next + 1 /\ next + 1 < f + BatchSize
        BY <1>1, <1>4, <1>6
    <2>3. First(next + 1) = f
        BY <1>1, <1>2, <2>2, Firsts
    <2> QED BY <1>2, <2>1, <2>2, <2>3
<1> QED BY <1>5, <1>6

(* A batch is no larger than BatchSize.                                    *)
LEMMA BatchIsSmall ==
    ASSUME BatchTypes, NEW S, \A j \in S : InBatch(j)
    PROVE  Batch!Cardinality(S) \in Nat /\ Batch!Cardinality(S) <= BatchSize
<1>1. items \in Nat /\ next \in 1..items /\ BatchSize \in Nat \ {0}
    BY Limits, Bounds DEF BatchTypes
<1>2. PICK f : f = First(next)
    OBVIOUS
<1>3. f \in Nat \ {0}
    BY <1>1, <1>2, Quotient
<1>4. S \subseteq f..f + BatchSize - 1
    BY <1>1, <1>2, <1>3 DEF InBatch
<1>5. IsFiniteSet(f..f + BatchSize - 1) /\ Cardinality(f..f + BatchSize - 1) = BatchSize
    BY <1>1, <1>3, FS_Interval
<1>6. IsFiniteSet(S) /\ Cardinality(S) <= BatchSize
    BY <1>4, <1>5, FS_Subset
<1> QED BY <1>6, FS_CardinalityType, CountsAlike

(* An item's attempt ends or begins again.                                 *)
LEMMA ItemMoves ==
    ASSUME BatchInv, NEW m \in 1..items, Batch!Resolves(m) \/ Batch!Rejects(m) \/ Batch!TryAgain(m)
    PROVE  BatchInv'
<1>0. /\ BatchTypes /\ Tries /\ Collected /\ items \in Nat /\ m \in 1..MaxItems
      /\ MaxRejects \in Nat /\ MaxAttempts \in Nat \ {0}
    BY Limits, Bounds DEF BatchInv, BatchTypes
<1>1. /\ UNCHANGED <<items, concurrency, next, step, executing, results>>
      /\ item[m] \in {"running", "sleeping"}
    BY DEF Batch!Resolves, Batch!Rejects, Batch!TryAgain
<1>2. PICK s \in {"running", "sleeping", "settled", "rejected"} :
          /\ item' = [item EXCEPT ![m] = s]
          /\ s = "sleeping" => tried[m] < MaxAttempts /\ tried' = tried
          /\ s = "rejected" => rejects' = rejects + 1
          /\ s = "running" => item[m] = "sleeping"
          /\ \/ winner' = winner
             \/ s \in {"settled", "rejected"} /\ step = "race" /\ winner' = {m} \cap executing
    <2>1. CASE Batch!Resolves(m)
        BY <2>1 DEF Batch!Resolves, Batch!Settle
    <2>2. CASE Batch!Rejects(m)
        BY <2>2 DEF Batch!Rejects, Batch!Settle
    <2>3. CASE Batch!TryAgain(m)
        BY <2>3 DEF Batch!TryAgain
    <2> QED BY <2>1, <2>2, <2>3
<1>3. rejects' \in 0..MaxRejects /\ rejects' >= rejects /\ rejects \in Nat
    BY <1>0 DEF Batch!Resolves, Batch!Rejects, Batch!TryAgain, BatchTypes
<1>4. tried' \in [1..MaxItems -> 0..MaxAttempts] /\ \A j \in 1..items : j # m => tried'[j] = tried[j]
    <2>1. CASE tried' = tried
        BY <1>0, <2>1 DEF BatchTypes
    <2>2. CASE Batch!TryAgain(m)
        <3>1. tried[m] < MaxAttempts /\ tried[m] \in Nat /\ tried' = [tried EXCEPT ![m] = tried[m] + 1]
            BY <1>0, <2>2 DEF Batch!TryAgain, Tries, BatchTypes
        <3>2. PICK n \in 0..MaxAttempts : n = tried[m] + 1
            BY <1>0, <3>1
        <3>3. tried' = [tried EXCEPT ![m] = n] /\ tried \in [1..MaxItems -> 0..MaxAttempts]
            BY <1>0, <3>1, <3>2 DEF BatchTypes
        <3>4. MaxItems \in Nat /\ items \in 1..MaxItems
            BY <1>0, Bounds DEF BatchTypes
        <3> QED BY <3>3, <3>4
    <2> QED BY <2>1, <2>2 DEF Batch!Resolves, Batch!Rejects
<1>5. item'[m] = s /\ \A j \in 1..items : j # m => item'[j] = item[j]
    BY <1>0, <1>2 DEF BatchTypes
<1>6. item' \in [1..MaxItems -> ItemStates]
    BY <1>0, <1>2 DEF BatchTypes, ItemStates
<1>7. winner' \subseteq executing /\ (step # "race" => winner' = {})
    BY <1>0, <1>2 DEF BatchTypes
<1>8. BatchTypes'
    BY <1>0, <1>1, <1>3, <1>4, <1>6, <1>7 DEF BatchTypes, InBatch
<1>9. Tries'
    <2>1. \A j \in executing : j \in 1..items
        BY <1>0 DEF BatchTypes, InBatch
    <2>2. ASSUME NEW j \in winner' PROVE item'[j] \in {"settled", "rejected"}
        <3>1. j \in 1..items
            BY <1>7, <2>1
        <3>2. j \in winner => item[j] \in {"settled", "rejected"}
            BY <1>0 DEF Tries
        <3> QED BY <1>1, <1>2, <1>5, <3>1, <3>2
    <2>3. ASSUME NEW j \in 1..items
          PROVE  (item'[j] = "sleeping" => tried'[j] < MaxAttempts) /\ (item'[j] = "rejected" => rejects' > 0)
        <3>1. (item[j] = "sleeping" => tried[j] < MaxAttempts) /\ (item[j] = "rejected" => rejects > 0)
            BY <1>0 DEF Tries
        <3>2. item'[j] = "rejected" => rejects' > 0
            BY <1>2, <1>3, <1>5, <3>1
        <3>3. item'[j] = "sleeping" => tried'[j] < MaxAttempts
            BY <1>2, <1>4, <1>5, <3>1
        <3> QED BY <3>2, <3>3
    <2> QED BY <1>1, <2>2, <2>3 DEF Tries
<1>10. Collected'
    BY <1>0, <1>1 DEF Collected
<1>11. ASSUME Whole PROVE Whole'
    <2>1. ASSUME NEW j \in 1..items, step \notin {"thrown", "over"}
          PROVE  (j < First(next) => item'[j] = "settled") /\
                 (item'[j] \in {"running", "sleeping"} => j \in executing)
        <3>1. (j < First(next) => item[j] = "settled") /\ (item[j] \in {"running", "sleeping"} => j \in executing)
            BY <1>11, <2>1 DEF Whole
        <3> QED BY <1>1, <1>5, <3>1
    <2> QED BY <1>1, <1>11, <2>1 DEF Whole
<1>12. ASSUME Single PROVE Single'
    <2>1. ASSUME NEW j \in 1..items, step \notin {"thrown", "over"}, j < next \/ (j = next /\ step = "all")
          PROVE  item'[j] = "settled"
        <3>1. item[j] = "settled"
            BY <1>12, <2>1 DEF Single
        <3> QED BY <1>1, <1>5, <3>1
    <2> QED BY <1>1, <1>12, <2>1 DEF Single
<1>13. ASSUME Together PROVE Together'
    BY <1>1, <1>13 DEF Together, InBatch
<1> QED BY <1>1, <1>8, <1>9, <1>10, <1>11, <1>12, <1>13 DEF BatchInv

(* The next item of the loop is started.                                   *)
LEMMA StartKeeps ==
    ASSUME BatchInv, Batch!Start
    PROVE  BatchInv'
<1>0. /\ BatchTypes /\ Tries /\ Collected /\ items \in Nat /\ MaxItems \in Nat /\ items <= MaxItems
      /\ next \in 1..items /\ MaxAttempts \in Nat \ {0} /\ BatchSize \in Nat \ {0} /\ concurrency \in Nat \ {0}
    BY Limits, Bounds DEF BatchInv, BatchTypes
<1>1. /\ step = "loop" /\ item' = [item EXCEPT ![next] = "running"] /\ tried' = [tried EXCEPT ![next] = 1]
      /\ executing' = executing \cup {next} /\ UNCHANGED <<items, concurrency, results, rejects>>
    BY DEF Batch!Start
<1>2. PICK S : S = executing \cup {next}
    OBVIOUS
<1>3. InBatch(next)
    <2>1. First(next) <= next /\ next < First(next) + BatchSize
        BY <1>0, Quotient
    <2> QED BY <1>0, <2>1 DEF InBatch
<1>4. \A j \in S : InBatch(j)
    BY <1>0, <1>2, <1>3 DEF BatchTypes
<1>5. \/ /\ step' = "race" /\ next' = next /\ Batch!Cardinality(S) >= concurrency
         /\ winner' = IF executing \cap Batch!Ended = {} THEN {} ELSE {Batch!Min(executing \cap Batch!Ended)}
      \/ ~(Batch!Cardinality(S) >= concurrency) /\ Batch!GoOn /\ winner' = {}
    BY <1>1, <1>2 DEF Batch!Start
<1>6. winner' \subseteq executing \cap Batch!Ended /\ (step' # "race" => winner' = {})
    <2>1. CASE winner' = {} /\ Batch!GoOn
        BY <2>1
    <2>2. CASE step' = "race" /\ executing \cap Batch!Ended = {} /\ winner' = {}
        BY <2>2
    <2>3. CASE step' = "race" /\ executing \cap Batch!Ended # {}
                 /\ winner' = {Batch!Min(executing \cap Batch!Ended)}
        <3>1. PICK T : T = executing \cap Batch!Ended
            OBVIOUS
        <3>2. T \subseteq Nat /\ T # {}
            BY <1>0, <2>3, <3>1 DEF BatchTypes, InBatch
        <3>3. PICK n \in T : \A m \in T : n <= m
            BY <3>2, Least
        <3>4. Batch!Min(T) \in T
            BY <3>2, <3>3 DEF Batch!Min
        <3> QED BY <2>3, <3>1, <3>4
    <2> QED BY <1>5, <2>1, <2>2, <2>3
<1>7. \/ step' \in {"race", "all"} /\ next' = next /\ (step' = "all" => next = items \/ next = First(next) + BatchSize - 1)
      \/ step' = "loop" /\ next' = next + 1 /\ next + 1 \in 1..items /\ First(next + 1) = First(next)
    BY <1>0, <1>5, GoesOn
<1>8. next' \in 1..items /\ First(next)' = First(next) /\ step' \in {"loop", "race", "all"}
    BY <1>0, <1>7 DEF First
<1>9. \A j : InBatch(j)' <=> InBatch(j)
    BY <1>1, <1>8 DEF InBatch
<1>10. /\ item'[next] = "running" /\ tried'[next] = 1
       /\ \A j \in 1..items : j # next => item'[j] = item[j] /\ tried'[j] = tried[j]
    BY <1>0, <1>1 DEF BatchTypes
<1>11. winner = {}
    BY <1>0, <1>1 DEF BatchTypes
<1>12. BatchTypes'
    <2>1. item' \in [1..MaxItems -> ItemStates]
        BY <1>0, <1>1 DEF BatchTypes, ItemStates
    <2>2. tried' \in [1..MaxItems -> 0..MaxAttempts]
        BY <1>0, <1>1 DEF BatchTypes
    <2>3. winner' \subseteq executing'
        BY <1>1, <1>6
    <2>4. ASSUME NEW j \in executing' PROVE InBatch(j)' /\ j <= next' /\ (step' = "loop" => j < next')
        <3>1. InBatch(j) /\ j \in Nat /\ j <= next
            BY <1>0, <1>1, <1>2, <1>4, <2>4 DEF BatchTypes, InBatch
        <3> QED BY <1>0, <1>7, <1>9, <3>1
    <2>5. /\ items' \in 1..MaxItems /\ concurrency' \in 1..MaxItems /\ next' \in 1..items' /\ step' \in BatchSteps
          /\ results' \in Seq(0..items') /\ rejects' \in 0..MaxRejects
        BY <1>0, <1>1, <1>8 DEF BatchTypes, BatchSteps
    <2>6. step' = "all" => next' = items' \/ next' = First(next)' + BatchSize - 1
        BY <1>1, <1>7, <1>8
    <2> QED BY <1>6, <2>1, <2>2, <2>3, <2>4, <2>5, <2>6 DEF BatchTypes
<1>13. Tries'
    <2>1. ASSUME NEW j \in winner' PROVE item'[j] \in {"settled", "rejected"}
        <3>1. j \in executing /\ item[j] \in {"settled", "rejected"} /\ j \in 1..items
            BY <1>0, <1>6, <2>1 DEF Batch!Ended, Batch!Items
        <3>2. j # next
            BY <1>0, <1>1, <3>1 DEF BatchTypes
        <3> QED BY <1>10, <3>1, <3>2
    <2>2. ASSUME NEW j \in 1..items
          PROVE  (item'[j] = "sleeping" => tried'[j] < MaxAttempts) /\ (item'[j] = "rejected" => rejects' > 0)
        <3>1. (item[j] = "sleeping" => tried[j] < MaxAttempts) /\ (item[j] = "rejected" => rejects > 0)
            BY <1>0 DEF Tries
        <3> QED BY <1>1, <1>10, <3>1
    <2> QED BY <1>1, <2>1, <2>2 DEF Tries
<1>14. Collected'
    BY <1>0, <1>1, <1>8 DEF Collected
<1>15. ASSUME Whole PROVE Whole'
    <2>1. ASSUME NEW j \in 1..items
          PROVE  (j < First(next) => item'[j] = "settled") /\
                 (item'[j] \in {"running", "sleeping"} => j \in executing')
        <3>1. (j < First(next) => item[j] = "settled") /\ (item[j] \in {"running", "sleeping"} => j \in executing)
            BY <1>1, <1>15 DEF Whole
        <3>2. ~(next < First(next))
            BY <1>0, Quotient
        <3> QED BY <1>1, <1>10, <3>1, <3>2
    <2>2. Len(results) = First(next) - 1 /\ \A j \in 1..Len(results) : results[j] = j
        BY <1>1, <1>15 DEF Whole
    <2> QED BY <1>1, <1>8, <2>1, <2>2 DEF Whole
<1>16. ASSUME concurrency = 1, Single PROVE Single'
    <2>1. executing = {} /\ \A j \in 1..items : j < next => item[j] = "settled"
        BY <1>1, <1>16 DEF Single
    <2>2. Batch!Cardinality(S) = 1
        BY <1>2, <2>1, FS_Singleton, CountsAlike
    <2>3. step' = "race" /\ next' = next
        BY <1>5, <1>16, <2>2
    <2>4. ASSUME NEW j \in 1..items, j < next PROVE item'[j] = "settled"
        BY <1>0, <1>10, <2>1, <2>4
    <2> QED BY <1>1, <2>1, <2>3, <2>4 DEF Single
<1>17. ASSUME concurrency > BatchSize, Together PROVE Together'
    <2>1. Batch!Cardinality(S) \in Nat /\ Batch!Cardinality(S) <= BatchSize
        BY <1>0, <1>4, BatchIsSmall
    <2>2. step' # "race" /\ Batch!GoOn
        BY <1>0, <1>5, <1>17, <2>1, GoesOn
    <2>3. ASSUME NEW j, InBatch(j), j < next' \/ (j = next' /\ step' = "all") PROVE j \in executing'
        <3>1. j \in 1..items /\ (j < next \/ j = next)
            BY <1>0, <1>7, <2>2, <2>3 DEF InBatch
        <3>2. j < next => j \in executing
            BY <1>1, <1>17, <2>3 DEF Together
        <3> QED BY <1>1, <3>1, <3>2
    <2> QED BY <1>9, <2>2, <2>3 DEF Together
<1> QED BY <1>1, <1>12, <1>13, <1>14, <1>15, <1>16, <1>17 DEF BatchInv

(* The race is over.                                                       *)
LEMMA RaceKeeps ==
    ASSUME BatchInv, Batch!RaceEnds
    PROVE  BatchInv'
<1>0. /\ BatchTypes /\ Tries /\ Collected /\ items \in Nat /\ next \in 1..items /\ BatchSize \in Nat \ {0}
    BY Limits, Bounds DEF BatchInv, BatchTypes
<1>1. /\ step = "race" /\ winner # {} /\ winner' = {}
      /\ UNCHANGED <<items, concurrency, item, tried, results, rejects>>
    BY DEF Batch!RaceEnds
<1>2. \/ step' = "thrown" /\ UNCHANGED <<next, executing>>
      \/ (\A j \in winner : item[j] # "rejected") /\ Batch!GoOn /\ executing' = executing \ {next}
    BY DEF Batch!RaceEnds
<1>3. \/ step' = "thrown" /\ next' = next
      \/ step' = "all" /\ next' = next /\ (next = items \/ next = First(next) + BatchSize - 1)
      \/ step' = "loop" /\ next' = next + 1 /\ next + 1 \in 1..items /\ First(next + 1) = First(next)
    BY <1>0, <1>2, GoesOn
<1>4. next' \in 1..items /\ First(next)' = First(next) /\ step' \in {"loop", "all", "thrown"}
    BY <1>0, <1>3 DEF First
<1>5. \A j : InBatch(j)' <=> InBatch(j)
    BY <1>1, <1>4 DEF InBatch
<1>6. executing' \subseteq executing
    BY <1>2
<1>7. BatchTypes'
    <2>1. ASSUME NEW j \in executing' PROVE InBatch(j)' /\ j <= next' /\ (step' = "loop" => j < next')
        <3>1. InBatch(j) /\ j \in Nat /\ j <= next
            BY <1>0, <1>6, <2>1 DEF BatchTypes, InBatch
        <3> QED BY <1>0, <1>3, <1>5, <3>1
    <2>2. step' = "all" => next' = items' \/ next' = First(next)' + BatchSize - 1
        BY <1>1, <1>3, <1>4
    <2> QED BY <1>0, <1>1, <1>4, <2>1, <2>2 DEF BatchTypes, BatchSteps
<1>8. Tries'
    BY <1>0, <1>1 DEF Tries
<1>9. Collected'
    BY <1>0, <1>1, <1>4 DEF Collected
<1>10. ASSUME concurrency = 1, Whole, Single PROVE Whole' /\ Single'
    <2>1. executing \subseteq {next} /\ \A j \in 1..items : j < next => item[j] = "settled"
        BY <1>1, <1>10 DEF Single
    <2>2. item[next] \in {"settled", "rejected"}
        BY <1>0, <1>1, <2>1 DEF BatchTypes, Tries
    <2>3. CASE step' = "thrown"
        BY <1>1, <2>3 DEF Whole, Single
    <2>4. CASE step' # "thrown"
        <3>1. executing' = {} /\ item[next] = "settled"
            BY <1>0, <1>1, <1>2, <2>1, <2>2, <2>4 DEF BatchTypes
        <3>2. ASSUME NEW j \in 1..items, j < next' \/ (j = next' /\ step' = "all") PROVE item'[j] = "settled"
            <4>1. j < next \/ j = next
                BY <1>0, <1>3, <2>4, <3>2
            <4> QED BY <1>1, <2>1, <3>1, <4>1
        <3>3. Single'
            BY <1>1, <3>1, <3>2 DEF Single
        <3>4. ASSUME NEW j \in 1..items
              PROVE  (j < First(next) => item[j] = "settled") /\ item[j] \notin {"running", "sleeping"}
            <4>1. (j < First(next) => item[j] = "settled") /\ (item[j] \in {"running", "sleeping"} => j = next)
                BY <1>1, <1>10, <2>1 DEF Whole
            <4> QED BY <3>1, <4>1
        <3>5. Len(results) = First(next) - 1 /\ \A j \in 1..Len(results) : results[j] = j
            BY <1>1, <1>10 DEF Whole
        <3>6. Whole'
            BY <1>1, <1>4, <3>4, <3>5 DEF Whole
        <3> QED BY <3>3, <3>6
    <2> QED BY <2>3, <2>4
<1>11. ~(concurrency > BatchSize /\ Together)
    BY <1>1 DEF Together
<1> QED BY <1>1, <1>7, <1>8, <1>9, <1>10, <1>11 DEF BatchInv

(* Two sequences, one after the other.                                     *)
LEMMA Joins2 ==
    ASSUME NEW V, NEW r \in Seq(V), NEW a \in Seq(V), NEW t, t = r \o a
    PROVE  /\ t \in Seq(V) /\ Len(t) = Len(r) + Len(a) /\ Len(r) \in Nat /\ Len(a) \in Nat
           /\ \A j \in 1..Len(t) : t[j] = IF j <= Len(r) THEN r[j] ELSE a[j - Len(r)]
OBVIOUS

(* What a batch appends to the results: the results that are there, from   *)
(* the first item of the batch to the last that is there.                  *)
BatchLength(f, T) == IF T = {} THEN 0 ELSE Batch!Max(T) + 1 - f
BatchEntries(f, T, k) == [m \in 1..k |-> IF f + m - 1 \in T THEN f + m - 1 ELSE 0]
BatchAdds(n, f, T, k, a) ==
    /\ a \in Seq(0..n) /\ Len(a) = k /\ k \in 0..(n + 1 - f)
    /\ \A m \in 1..k : a[m] = (IF f + m - 1 \in T THEN f + m - 1 ELSE 0)
    /\ T = f..n => k = n + 1 - f
(* That much is appended, and no more than the batch has.                  *)
LEMMA BatchAppends ==
    ASSUME NEW n \in Nat, NEW f \in 1..n, NEW T \in SUBSET (f..n)
    PROVE  \A k, a : k = BatchLength(f, T) /\ a = BatchEntries(f, T, k) => BatchAdds(n, f, T, k, a)
<1> SUFFICES ASSUME NEW k, NEW a, k = BatchLength(f, T), a = BatchEntries(f, T, k)
             PROVE  BatchAdds(n, f, T, k, a)
    OBVIOUS
<1>1. k \in 0..(n + 1 - f) /\ (T = f..n => k = n + 1 - f)
    <2>1. CASE T = {}
        BY <2>1 DEF BatchLength
    <2>2. CASE T # {}
        <3>1. T \subseteq 1..n
            OBVIOUS
        <3>2. PICK m \in T : \A j \in T : j <= m
            BY <2>2, <3>1, Greatest
        <3>3. Batch!Max(T) = m
            <4>1. \A j \in T : j \in Nat /\ m >= j
                BY <3>1, <3>2
            <4>2. \A x \in T : (\A y \in T : x >= y) => x = m
                BY <4>1
            <4> QED BY <4>1, <4>2 DEF Batch!Max
        <3>4. T = f..n => m = n
            BY <3>2
        <3> QED BY <2>2, <3>2, <3>3, <3>4 DEF BatchLength
    <2> QED BY <2>1, <2>2
<1>2. \A m \in 1..k : a[m] = (IF f + m - 1 \in T THEN f + m - 1 ELSE 0) /\ a[m] \in 0..n
    BY <1>1 DEF BatchEntries
<1>3. a \in Seq(0..n) /\ Len(a) = k
    BY <1>1, <1>2 DEF BatchEntries
<1> QED BY <1>1, <1>2, <1>3 DEF BatchAdds

(* The end of a batch.                                                     *)
LEMMA EndKeeps ==
    ASSUME BatchInv, Batch!BatchEnds
    PROVE  BatchInv'
<1>0. /\ BatchTypes /\ Tries /\ Collected /\ items \in Nat /\ next \in 1..items /\ BatchSize \in Nat \ {0}
      /\ MaxItems \in Nat
    BY Limits, Bounds DEF BatchInv, BatchTypes
<1>1. step = "all" /\ UNCHANGED <<items, concurrency, winner, item, tried, rejects>> /\ winner = {}
      /\ (next = items \/ next = First(next) + BatchSize - 1)
    BY <1>0 DEF Batch!BatchEnds, BatchTypes
<1>2. CASE step' = "thrown" /\ UNCHANGED <<next, executing, results>>
    <2>1. BatchTypes'
        BY <1>0, <1>1, <1>2 DEF BatchTypes, BatchSteps, InBatch
    <2>2. Tries' /\ Collected'
        BY <1>0, <1>1, <1>2 DEF Tries, Collected
    <2>3. (Whole => Whole') /\ Single' /\ Together'
        BY <1>1, <1>2 DEF Whole, Single, Together
    <2> QED BY <1>1, <2>1, <2>2, <2>3 DEF BatchInv
<1>3. CASE ~(step' = "thrown" /\ UNCHANGED <<next, executing, results>>)
    <2>1. PICK f : f = First(next)
        OBVIOUS
    <2>2. PICK S : S = Batch!SameBatch(next)
        OBVIOUS
    <2>3. /\ f \in 1..next /\ next < f + BatchSize /\ Batch!Min(S) = f
          /\ \A j : j \in S <=> j \in 1..items /\ f <= j /\ j < f + BatchSize
        BY <1>0, <2>1, <2>2, TheBatch
    <2>4. S = f..next
        <3>1. items \in Nat /\ next \in 1..items /\ BatchSize \in Nat \ {0} /\ f \in 1..next
              /\ (next = items \/ next = f + BatchSize - 1) /\ next < f + BatchSize
            BY <1>0, <1>1, <2>1, <2>3
        <3>2. \A j : j \in 1..items /\ f <= j /\ j < f + BatchSize <=> j \in f..next
            BY <3>1
        <3> QED BY <2>3, <3>2
    <2>5. PICK T : T = {j \in S : item[j] = "settled"}
        OBVIOUS
    <2>6. PICK k : k = BatchLength(f, T)
        OBVIOUS
    <2>7. PICK a : a = BatchEntries(f, T, k)
        OBVIOUS
    <2>8. /\ \A j \in executing : item[j] = "settled"
          /\ results' = results \o a /\ executing' = {}
          /\ \/ next = items /\ step' = "over" /\ next' = next
             \/ next # items /\ step' = "loop" /\ next' = next + 1
        BY <1>3, <2>2, <2>3, <2>5, <2>6, <2>7 DEF Batch!BatchEnds, BatchLength, BatchEntries
    <2>9. /\ a \in Seq(0..next) /\ Len(a) = k /\ k \in 0..(next + 1 - f)
          /\ \A m \in 1..k : a[m] = (IF f + m - 1 \in T THEN f + m - 1 ELSE 0)
          /\ T = f..next => k = next + 1 - f
        <3>1. T \subseteq f..next
            BY <2>4, <2>5
        <3>2. next \in Nat
            BY <1>0
        <3>3. PICK n \in Nat : n = next
            BY <3>2
        <3>4. f \in 1..n /\ T \subseteq f..n
            BY <2>3, <3>1, <3>3
        <3>5. /\ a \in Seq(0..n) /\ Len(a) = k /\ k \in 0..(n + 1 - f)
              /\ \A m \in 1..k : a[m] = (IF f + m - 1 \in T THEN f + m - 1 ELSE 0)
              /\ T = f..n => k = n + 1 - f
            <4>1. T \in SUBSET (f..n)
                BY <3>4
            <4>2. BatchAdds(n, f, T, k, a)
                BY Zenon, <2>6, <2>7, <3>4, <4>1, BatchAppends
            <4> QED BY <4>2 DEF BatchAdds
        <3> QED BY <3>3, <3>5
    <2>10. PICK r \in Seq(0..items) : r = results
        BY <1>0 DEF BatchTypes
    <2>11. PICK t : t = r \o a
        OBVIOUS
    <2>12. a \in Seq(0..items)
        <3>1. PICK n \in 1..items : n = next
            BY <1>0
        <3>2. a \in Seq(0..n)
            BY <2>9, <3>1
        <3>3. PICK N : N = items /\ N \in Nat
            BY <1>0
        <3>4. a \in Seq(0..N)
            BY <3>1, <3>2, <3>3
        <3> QED BY <3>3, <3>4
    <2>13. /\ t \in Seq(0..items) /\ Len(t) = Len(r) + k /\ Len(r) \in Nat /\ k \in Nat
           /\ \A j \in 1..Len(t) : t[j] = IF j <= Len(r) THEN r[j] ELSE a[j - Len(r)]
        <3>1. PICK V : V = 0..items
            OBVIOUS
        <3>2. r \in Seq(V) /\ a \in Seq(V)
            BY <2>10, <2>12, <3>1
        <3>3. /\ t \in Seq(V) /\ Len(t) = Len(r) + Len(a) /\ Len(r) \in Nat /\ Len(a) \in Nat
              /\ \A j \in 1..Len(t) : t[j] = IF j <= Len(r) THEN r[j] ELSE a[j - Len(r)]
            BY <2>11, <3>2, Joins2
        <3>4. Len(a) = k
            BY <2>9
        <3> QED BY <3>1, <3>3, <3>4
    <2>14. next' \in 1..items /\ (step' = "loop" => First(next)' = next + 1) /\ step' \in {"over", "loop"}
        <3>1. CASE step' = "over"
            BY <1>0, <2>8, <3>1
        <3>2. CASE step' = "loop"
            <4>1. next + 1 = First(next) + BatchSize /\ next' = next + 1 /\ next + 1 \in 1..items
                BY <1>0, <1>1, <2>1, <2>3, <2>8, <3>2
            <4>2. First(next + 1) = next + 1
                BY <1>0, <4>1, Firsts
            <4> QED BY <3>2, <4>1, <4>2 DEF First
        <3> QED BY <2>8, <3>1, <3>2
    <2>15. BatchTypes'
        <3>1. results' \in Seq(0..items') /\ step' \in BatchSteps /\ step' # "all"
            BY <1>1, <2>8, <2>10, <2>11, <2>13, <2>14 DEF BatchSteps
        <3> QED BY <1>0, <1>1, <2>8, <2>14, <3>1 DEF BatchTypes
    <2>16. Tries'
        BY <1>0, <1>1 DEF Tries
    <2>17. ASSUME NEW j \in 1..Len(t), Len(r) < j PROVE t[j] = 0 \/ (t[j] = f + (j - Len(r)) - 1 /\ t[j] \in f..next)
        <3>1. PICK m \in 1..k : m = j - Len(r)
            BY <2>13, <2>17
        <3>2. t[j] = a[m]
            BY <2>13, <2>17, <3>1
        <3>3. a[m] = (IF f + m - 1 \in T THEN f + m - 1 ELSE 0)
            BY <2>9
        <3> QED BY <2>4, <2>5, <3>1, <3>2, <3>3
    <2>18. ASSUME NEW j \in 1..Len(t) PROVE t[j] \in Nat /\ t[j] <= next /\ (j <= Len(r) => t[j] < f /\ t[j] = r[j])
        <3>1. CASE j <= Len(r)
            <4>1. t[j] = r[j] /\ r[j] \in 0..items /\ r[j] < f
                BY <1>0, <1>1, <2>1, <2>10, <2>13, <3>1 DEF Collected
            <4> QED BY <1>0, <2>3, <4>1, <3>1
        <3>2. CASE Len(r) < j
            BY <1>0, <2>3, <2>13, <2>17, <3>2
        <3> QED BY <2>13, <3>1, <3>2
    <2>19. Collected'
        <3>1. ASSUME NEW i1 \in 1..Len(t), NEW i2 \in 1..Len(t), i1 < i2, t[i1] > 0, t[i2] > 0
              PROVE  t[i1] < t[i2]
            <4>1. CASE i2 <= Len(r)
                <5>1. i1 \in 1..Len(r) /\ i2 \in 1..Len(r) /\ t[i1] = r[i1] /\ t[i2] = r[i2]
                    BY <2>13, <2>18, <3>1, <4>1
                <5> QED BY <1>0, <2>10, <3>1, <5>1 DEF Collected
            <4>2. CASE Len(r) < i2 /\ i1 <= Len(r)
                <5>1. t[i2] \in f..next
                    BY <2>17, <3>1, <4>2
                <5>2. t[i1] < f /\ t[i1] \in Nat
                    BY <2>18, <4>2
                <5> QED BY <1>0, <2>3, <5>1, <5>2
            <4>3. CASE Len(r) < i1
                <5>1. t[i1] = f + (i1 - Len(r)) - 1 /\ t[i2] = f + (i2 - Len(r)) - 1
                    <6>1. Len(r) < i2
                        BY <2>13, <3>1, <4>3
                    <6>2. t[i1] # 0 /\ t[i2] # 0
                        BY <3>1
                    <6> QED BY <2>17, <4>3, <6>1, <6>2
                <5> QED BY <2>3, <2>13, <3>1, <5>1
            <4> QED BY <2>13, <4>1, <4>2, <4>3
        <3>2. ASSUME step' = "loop", NEW j \in 1..Len(t) PROVE t[j] < First(next)'
            BY <1>0, <2>14, <2>18, <3>2
        <3>3. results' = t
            BY <2>8, <2>10, <2>11
        <3> QED BY <2>14, <3>1, <3>2, <3>3 DEF Collected
    <2>20. ASSUME Whole, T = f..next
           PROVE  Len(t) = next /\ \A j \in 1..Len(t) : t[j] = j
        <3>1. Len(r) = f - 1 /\ \A j \in 1..Len(r) : r[j] = j
            BY <1>1, <2>1, <2>10, <2>20 DEF Whole
        <3>2. k = next + 1 - f
            BY <2>9, <2>20
        <3>3. Len(t) = next
            BY <1>0, <2>3, <2>13, <3>1, <3>2
        <3>4. ASSUME NEW j \in 1..Len(t) PROVE t[j] = j
            <4>1. CASE j <= Len(r)
                BY <2>13, <3>1, <4>1
            <4>2. CASE Len(r) < j
                <5>1. PICK m \in 1..k : m = j - Len(r)
                    BY <2>13, <4>2
                <5>2. t[j] = a[m] /\ a[m] = (IF f + m - 1 \in T THEN f + m - 1 ELSE 0)
                    BY <2>9, <2>13, <4>2, <5>1
                <5>3. f + m - 1 = j /\ j \in f..next
                    BY <1>0, <2>3, <3>1, <3>3, <4>2, <5>1
                <5> QED BY <2>20, <5>2, <5>3
            <4> QED BY <2>13, <4>1, <4>2
        <3> QED BY <3>3, <3>4
    <2>21. ASSUME Whole, T = f..next PROVE Whole'
        <3>0. Len(t) = next /\ (\A j \in 1..Len(t) : t[j] = j) /\ results' = t
            BY <2>8, <2>10, <2>11, <2>20, <2>21
        <3>1. CASE step' = "over"
            <4>1. next = items
                BY <2>8, <3>1
            <4>2. t = [j \in 1..items |-> j]
                BY <1>0, <2>13, <3>0, <4>1
            <4> QED BY <1>1, <3>0, <3>1, <4>2 DEF Whole
        <3>2. CASE step' = "loop"
            <4>1. ASSUME NEW j \in 1..items
                  PROVE  (j < next + 1 => item[j] = "settled") /\ item[j] \notin {"running", "sleeping"}
                <5>1. (j < f => item[j] = "settled") /\ (item[j] \in {"running", "sleeping"} => j \in executing)
                    BY <1>1, <2>1, <2>21 DEF Whole
                <5>2. j \in f..next => item[j] = "settled"
                    BY <2>5, <2>21
                <5> QED BY <1>0, <2>3, <2>8, <5>1, <5>2
            <4> QED BY <1>0, <1>1, <2>14, <3>0, <3>2, <4>1 DEF Whole
        <3> QED BY <2>14, <3>1, <3>2
    <2>22. ASSUME Single PROVE T = f..next /\ Single'
        <3>1. \A j \in 1..items : j < next \/ j = next => item[j] = "settled"
            BY <1>1, <2>22 DEF Single
        <3>2. T = f..next
            BY <1>0, <2>3, <2>4, <2>5, <3>1
        <3>3. Single'
            BY <1>0, <1>1, <2>8, <2>14, <3>1 DEF Single
        <3> QED BY <3>2, <3>3
    <2>23. ASSUME Together PROVE T = f..next /\ Together'
        <3>1. \A j : InBatch(j) /\ (j < next \/ j = next) => item[j] = "settled"
            BY <1>1, <2>8, <2>23 DEF Together
        <3>2. ASSUME NEW j \in f..next PROVE j \in T
            <4>1. InBatch(j) /\ (j < next \/ j = next)
                BY <1>0, <2>1, <2>3, <3>2 DEF InBatch
            <4> QED BY <2>4, <2>5, <3>1, <4>1
        <3>3. Together'
            BY <1>0, <1>1, <2>8, <2>14 DEF Together, InBatch
        <3> QED BY <2>4, <2>5, <3>2, <3>3
    <2> QED BY <1>1, <2>15, <2>16, <2>19, <2>21, <2>22, <2>23 DEF BatchInv
<1> QED BY <1>2, <1>3

(* Every step of the batches keeps their invariant,                        *)
LEMMA BatchKeeps == BatchInv /\ Batch!Next => BatchInv'
BY Zenon, StartKeeps, RaceKeeps, EndKeeps, ItemMoves DEF Batch!Next, Batch!Items

(* it holds at the start,                                                  *)
LEMMA BatchInit == Batch!Init => BatchInv
<1> SUFFICES ASSUME Batch!Init PROVE BatchInv
    OBVIOUS
<1>1. /\ items \in 1..MaxItems /\ concurrency \in 1..MaxItems /\ next = 1 /\ step = "loop"
      /\ executing = {} /\ winner = {} /\ rejects = 0 /\ results = <<>>
      /\ item = [n \in 1..MaxItems |-> "idle"] /\ tried = [n \in 1..MaxItems |-> 0]
    BY DEF Batch!Init
<1>2. MaxItems \in Nat /\ items \in Nat /\ MaxRejects \in Nat /\ MaxAttempts \in Nat \ {0} /\ BatchSize \in Nat \ {0}
    BY <1>1, Bounds, Limits
<1>3. First(next) = 1
    <2>1. 1 \in Nat \ {0}
        OBVIOUS
    <2>2. First(1) \in Nat \ {0} /\ First(1) <= 1
        BY Zenon, <2>1, Quotient
    <2> QED BY <1>1, <2>2
<1>4. BatchTypes
    BY <1>1, <1>2 DEF BatchTypes, BatchSteps, ItemStates
<1>5. Tries
    BY <1>1, <1>2 DEF Tries
<1>6. Collected
    BY <1>1 DEF Collected
<1>7. Whole
    BY <1>1, <1>2, <1>3 DEF Whole
<1>8. Single /\ Together
    <2>1. \A j \in 1..items : ~(j < next)
        BY <1>1, <1>2
    <2>2. \A j : InBatch(j) => ~(j < next)
        BY <2>1 DEF InBatch
    <2> QED BY <1>1, <2>1, <2>2 DEF Single, Together
<1> QED BY <1>4, <1>5, <1>6, <1>7, <1>8 DEF BatchInv

(* and the other parts leave it alone.                                     *)
LEMMA BatchRests == BatchInv /\ UNCHANGED batchVars => BatchInv'
BY DEF batchVars, BatchInv, BatchTypes, Tries, Collected, Whole, Single, Together, InBatch, First

(* What the invariant says of the batches.                                 *)
LEMMA BatchKept == BatchInv => Batch!TypeOK /\ Batch!BatchIsSound
<1> SUFFICES ASSUME BatchInv PROVE Batch!TypeOK /\ Batch!BatchIsSound
    OBVIOUS
<1>1. BatchTypes /\ Tries /\ Collected
    BY DEF BatchInv
<1>2. /\ items \in 1..MaxItems /\ items \in Nat /\ MaxItems \in Nat /\ next \in 1..items
      /\ concurrency \in 1..MaxItems /\ BatchSize \in Nat \ {0} /\ MaxAttempts \in Nat \ {0}
    BY <1>1, Bounds, Limits DEF BatchTypes
<1>3. Batch!TypeOK
    <2>1. PICK f : f = First(next)
        OBVIOUS
    <2>2. PICK S : S = Batch!SameBatch(next)
        OBVIOUS
    <2>3. \A j : j \in S <=> j \in 1..items /\ f <= j /\ j < f + BatchSize
        BY <1>2, <2>1, <2>2, TheBatch
    <2>4. executing \subseteq Batch!SameBatch(next)
        BY <1>1, <2>1, <2>2, <2>3 DEF BatchTypes, InBatch
    <2>5. next \in 1..items + 1
        BY <1>2
    <2>6. /\ winner \subseteq executing /\ step \in BatchSteps /\ results \in Seq(0..items)
          /\ rejects \in 0..MaxRejects
          /\ item \in [1..MaxItems -> ItemStates] /\ tried \in [1..MaxItems -> 0..MaxAttempts]
        BY <1>1 DEF BatchTypes
    <2> QED BY Zenon, <1>2, <2>4, <2>5, <2>6 DEF Batch!TypeOK, BatchSteps, ItemStates
<1>4. \A n \in 1..items : tried[n] <= MaxAttempts /\ (item[n] = "rejected" => rejects > 0)
    BY <1>1, <1>2 DEF BatchTypes, Tries
<1>5. PICK r \in Seq(0..items) : r = results
    BY <1>1 DEF BatchTypes
<1>6. \A j, k \in DOMAIN results : j < k /\ results[j] > 0 /\ results[k] > 0 => results[j] < results[k]
    BY <1>1, <1>5 DEF Collected
<1>7. ASSUME concurrency = 1 \/ concurrency > BatchSize
      PROVE  Whole /\ (step \notin {"thrown", "over"} => Batch!Cardinality(Batch!Running) <= concurrency)
    <2>1. Whole
        BY <1>2, <1>7 DEF BatchInv
    <2>2. ASSUME step \notin {"thrown", "over"} PROVE Batch!Cardinality(Batch!Running) <= concurrency
        <3>1. PICK R : R = Batch!Running
            OBVIOUS
        <3>2. \A j \in R : j \in executing
            BY <2>1, <2>2, <3>1 DEF Whole, Batch!Running, Batch!Items
        <3>3. CASE concurrency = 1
            <4>1. R \subseteq {next}
                BY <1>1, <2>2, <3>2, <3>3 DEF BatchInv, Single
            <4>2. R = {} \/ R = {next}
                BY <4>1
            <4>3. Cardinality(R) = 0 \/ Cardinality(R) = 1
                BY <4>2, FS_EmptySet, FS_Singleton
            <4>4. Batch!Cardinality(R) = Cardinality(R)
                BY CountsAlike
            <4> QED BY <3>1, <3>3, <4>3, <4>4
        <3>4. CASE concurrency > BatchSize
            <4>1. \A j \in R : InBatch(j)
                BY <1>1, <3>2 DEF BatchTypes
            <4>2. Batch!Cardinality(R) \in Nat /\ Batch!Cardinality(R) <= BatchSize
                BY <1>1, <4>1, BatchIsSmall
            <4> QED BY <1>2, <3>1, <3>4, <4>2
        <3> QED BY <1>7, <3>3, <3>4
    <2> QED BY <2>1, <2>2
<1>8. Batch!BatchIsSound
    <2>1. concurrency = 1 \/ concurrency > BatchSize =>
            /\ step \notin {"thrown", "over"} => Batch!Cardinality(Batch!Running) <= concurrency
            /\ step = "over" => results = [j \in Batch!Items |-> j]
        BY <1>7 DEF Whole, Batch!Items
    <2> QED BY <1>4, <1>6, <2>1 DEF Batch!BatchIsSound, Batch!Items
<1> QED BY <1>3, <1>8

-----------------------------------------------------------------------------
(***************************************************************************)
(* The parts of an upload.                                                 *)
(***************************************************************************)
USE DEF Multipart!ghosts
(* Every number of a sequence is there once.                               *)
Once(s) == \A m, n \in 1..Len(s) : s[m] = s[n] => m = n
Within(s, n) == \E m \in 1..Len(s) : s[m] = n

(* An order of a sequence has the numbers the sequence has, as often as it *)
(* has them.                                                               *)
LEMMA Permutes ==
    ASSUME NEW V, NEW s \in Seq(V), NEW p \in Multipart!Bijection(DOMAIN s, DOMAIN s),
           NEW t, t = [k \in DOMAIN s |-> s[p[k]]]
    PROVE  /\ t \in Seq(V) /\ Len(t) = Len(s) /\ DOMAIN t = 1..Len(s) /\ DOMAIN s = 1..Len(s)
           /\ \A n : Within(t, n) <=> Within(s, n)
           /\ Once(s) => Once(t)
<1>1. PICK l \in Nat : l = Len(s) /\ DOMAIN s = 1..l
    OBVIOUS
<1>2. /\ \A k \in 1..l : p[k] \in 1..l
      /\ \A k, m \in 1..l : p[k] = p[m] => k = m
      /\ \A m \in 1..l : \E k \in 1..l : p[k] = m
    BY <1>1 DEF Multipart!Bijection, Multipart!Injection, Multipart!Surjection, Multipart!IsInjective
<1>3. (\A k \in 1..l : s[k] \in V) /\ DOMAIN t = 1..l /\ \A k \in 1..l : t[k] = s[p[k]]
    BY <1>1
<1>4. t \in Seq(V) /\ Len(t) = l
    <2>1. t = [k \in 1..l |-> t[k]]
        BY <1>1, <1>3
    <2>2. \A k \in 1..l : t[k] \in V
        BY <1>2, <1>3
    <2>3. t \in [1..l -> V]
        BY <2>1, <2>2
    <2> QED BY <1>1, <2>3
<1>5. \A n : Within(t, n) <=> Within(s, n)
    <2>1. ASSUME NEW n, Within(t, n) PROVE Within(s, n)
        BY <1>1, <1>2, <1>3, <1>4, <2>1 DEF Within
    <2>2. ASSUME NEW n, Within(s, n) PROVE Within(t, n)
        <3>1. PICK m \in 1..l : s[m] = n
            BY <1>1, <2>2 DEF Within
        <3>2. PICK k \in 1..l : p[k] = m
            BY <1>2
        <3> QED BY <1>3, <1>4, <3>1, <3>2 DEF Within
    <2> QED BY <2>1, <2>2
<1>6. ASSUME Once(s) PROVE Once(t)
    <2> SUFFICES ASSUME NEW m \in 1..l, NEW n \in 1..l, t[m] = t[n] PROVE m = n
        BY <1>4 DEF Once
    <2>1. s[p[m]] = s[p[n]] /\ p[m] \in 1..l /\ p[n] \in 1..l
        BY <1>2, <1>3
    <2>2. p[m] = p[n]
        BY <1>1, <1>6, <2>1 DEF Once
    <2> QED BY <1>2, <2>2
<1> QED BY <1>1, <1>3, <1>4, <1>5, <1>6

(* A sequence that has a number more.                                      *)
Extends(V, s, c, t) ==
    /\ t \in Seq(V)
    /\ \A n : Within(t, n) <=> Within(s, n) \/ n = c
    /\ Once(s) /\ ~Within(s, c) => Once(t)
(* It is put at the end.                                                   *)
LEMMA OneMore ==
    ASSUME NEW V, NEW s \in Seq(V), NEW c \in V, NEW t, t = Append(s, c)
    PROVE  Extends(V, s, c, t)
<1>1. /\ t \in Seq(V) /\ Len(s) \in Nat /\ Len(t) = Len(s) + 1
      /\ t[Len(t)] = c /\ \A n \in 1..Len(s) : t[n] = s[n]
    BY Appended
<1>2. \A n : n \in 1..Len(t) <=> n \in 1..Len(s) \/ n = Len(t)
    BY Appended
<1>3. PICK l \in Nat : l = Len(s)
    BY <1>1
<1>4. Len(t) = l + 1 /\ t[l + 1] = c
    BY <1>1, <1>3
<1>5. \A n : Within(t, n) <=> Within(s, n) \/ n = c
    <2>1. ASSUME NEW n, Within(t, n) PROVE Within(s, n) \/ n = c
        BY <1>1, <1>2, <2>1 DEF Within
    <2>2. ASSUME NEW n, Within(s, n) \/ n = c PROVE Within(t, n)
        <3>1. CASE n = c
            BY <1>3, <1>4, <3>1 DEF Within
        <3>2. CASE Within(s, n)
            <4>1. PICK m \in 1..l : s[m] = n
                BY <1>3, <3>2 DEF Within
            <4> QED BY <1>1, <1>3, <1>4, <4>1 DEF Within
        <3> QED BY <2>2, <3>1, <3>2
    <2> QED BY <2>1, <2>2
<1>6. ASSUME Once(s), ~Within(s, c) PROVE Once(t)
    <2> SUFFICES ASSUME NEW m \in 1..l + 1, NEW n \in 1..l + 1, t[m] = t[n] PROVE m = n
        BY <1>4 DEF Once
    <2>1. \A k \in 1..l : t[k] = s[k] /\ t[k] # c
        BY <1>1, <1>3, <1>6 DEF Within
    <2>2. CASE m \in 1..l /\ n \in 1..l
        BY <1>3, <1>6, <2>1, <2>2 DEF Once
    <2>3. CASE m = l + 1 \/ n = l + 1
        BY <1>4, <2>1, <2>3
    <2> QED BY <2>2, <2>3
<1> QED BY <1>1, <1>5, <1>6 DEF Extends

(* A sequence of parts that has each at most once is no longer than there  *)
(* are parts.                                                              *)
LEMMA OnceIsShort ==
    ASSUME NEW s \in Seq(1..NumParts), Once(s)
    PROVE  Len(s) \in Nat /\ Len(s) <= NumParts
<1>0. NumParts \in Nat
    BY Limits
<1>1. PICK l \in Nat : l = Len(s)
    OBVIOUS
<1>2. PICK f : f = [m \in 1..l |-> s[m]]
    OBVIOUS
<1>3. /\ IsFiniteSet(1..l) /\ Cardinality(1..l) = l
      /\ IsFiniteSet(1..NumParts) /\ Cardinality(1..NumParts) = NumParts
    <2> SUFFICES ASSUME NEW n \in Nat PROVE IsFiniteSet(1..n) /\ Cardinality(1..n) = n
        BY <1>0
    <2>1. 1 \in Int /\ n \in Int
        OBVIOUS
    <2>2. IsFiniteSet(1..n) /\ Cardinality(1..n) = IF 1 <= n THEN n - 1 + 1 ELSE 0
        BY <2>1, FS_Interval
    <2> QED BY <2>2
<1>4. f \in [1..l -> 1..NumParts] /\ \A m, n \in 1..l : f[m] = f[n] => m = n
    <2>0. PICK V : V = 1..NumParts
        OBVIOUS
    <2>1. \A m \in 1..l : f[m] = s[m] /\ s[m] \in 1..NumParts
        <3>1. s \in Seq(V)
            BY <2>0
        <3>2. \A m \in 1..l : s[m] \in V
            BY <1>1, <3>1
        <3> QED BY <1>2, <2>0, <3>2
    <2>2. f \in [1..l -> 1..NumParts]
        BY <1>2, <2>1
    <2> QED BY <1>1, <2>1, <2>2 DEF Once
<1>5. ~(NumParts < l)
    <2> SUFFICES ASSUME NumParts < l PROVE FALSE
        OBVIOUS
    <2>1. PICK S : S = 1..l
        OBVIOUS
    <2>2. PICK T : T = 1..NumParts
        OBVIOUS
    <2>3. Cardinality(T) < Cardinality(S) /\ IsFiniteSet(S) /\ IsFiniteSet(T) /\ f \in [S -> T]
        BY <1>3, <1>4, <2>1, <2>2
    <2>4. \E m, n \in S : m # n /\ f[m] = f[n]
        BY Zenon, <2>3, FS_PigeonHole
    <2> QED BY <1>4, <2>1, <2>4
<1> QED BY <1>0, <1>1, <1>5

(* The types of an upload.                                                 *)
S3States == {"none", "open", "completed", "aborted"}
Closings == {"no", "complete", "completed", "abort", "aborted"}
PartStates == {"no", "sent", "stored"}
PartTypes ==
    /\ s3 \in S3States /\ closing \in Closings
    /\ stored \subseteq 1..NumParts /\ awaited \subseteq 1..NumParts
    /\ parts \in Seq(1..NumParts) /\ listed \in Seq(1..NumParts)
    /\ sent \in [1..NumParts -> PartStates] /\ batch \in 0..NumParts
    /\ resends \in 0..MaxResends /\ lost \in 0..MaxLost
Answers ==
    /\ tracked \in BOOLEAN /\ uploaded \in BOOLEAN /\ afterAll \in BOOLEAN /\ refused \in BOOLEAN /\ late \in BOOLEAN
    /\ forgotten \in BOOLEAN

(* What the state names is stored, a batch's parts are awaited or there,   *)
(* and after the last batch all are.                                       *)
PartsStored == \A n \in 1..NumParts : Within(parts, n) \/ sent[n] = "stored" => n \in stored
PartsAwaited ==
    /\ batch > 0 => \A n \in 1..NumParts : n < batch + Concurrency => n \in awaited \/ Within(parts, n)
    /\ uploaded => \A n \in 1..NumParts : Within(parts, n)
    /\ afterAll => \A n \in 1..NumParts : Within(listed, n)
ObjectWhole ==
    object.afterAll => object.parts \in Seq(1..NumParts) /\ \A n \in 1..NumParts : Within(object.parts, n)

(* The completion names the parts in order, and none twice unless one was  *)
(* sent again: what is in flight was not answered yet, and the batches to  *)
(* come were not sent yet.                                                 *)
PartsOnce ==
    /\ \A m, n \in 1..Len(listed) : m < n => listed[m] <= listed[n]
    /\ resends = 0 =>
         /\ ~refused /\ Once(parts) /\ Once(listed)
         /\ \A n \in 1..NumParts : sent[n] # "no" => ~Within(parts, n)
         /\ batch > 0 =>
              \A n \in 1..NumParts : sent[n] # "no" \/ Within(parts, n) => n < batch + Concurrency

(* What is on its way has been done, and the map knows what S3 knows.      *)
ClosingFits ==
    /\ closing = "completed" => s3 = "completed"
    /\ closing = "aborted" => s3 = "aborted"
    /\ s3 = "open" /\ ~tracked => lost > 0 \/ forgotten
    /\ s3 \in {"completed", "aborted"} /\ tracked /\ closing \in {"no", "complete", "abort"} => lost > 0 \/ late

MultipartInv ==
    PartTypes /\ Answers /\ PartsStored /\ PartsAwaited /\ ObjectWhole /\ PartsOnce /\ ClosingFits

(* What leaves the parts alone changes the map, S3 and what is on its way. *)
LEMMA ClosingMoves ==
    ASSUME MultipartInv,
           \/ Multipart!Initiate \/ Multipart!Abort \/ Multipart!S3Aborts \/ Multipart!Closed \/ Multipart!CloseFails
           \/ Multipart!ClearAllStates
    PROVE  MultipartInv'
<1>0. /\ PartTypes /\ Answers /\ ClosingFits /\ NumParts \in Nat /\ MaxLost \in Nat /\ lost \in 0..MaxLost
    BY Limits, Bounds DEF MultipartInv, PartTypes
<1>1. /\ UNCHANGED <<stored, object, parts, sent, batch, awaited, uploaded, listed, afterAll, refused, late, resends>>
      /\ lost' = lost \/ (lost < MaxLost /\ lost' = lost + 1)
      /\ forgotten' = forgotten \/ (forgotten' = TRUE /\ Multipart!ClearAllStates)
    BY DEF Multipart!Initiate, Multipart!Abort, Multipart!S3Aborts, Multipart!Closed, Multipart!CloseFails,
           Multipart!ClearAllStates, Multipart!s3Vars, Multipart!mapVars, Multipart!parallelVars, Multipart!closeVars, Multipart!budget
<1>2. lost' \in 0..MaxLost /\ (lost > 0 => lost' > 0)
    BY <1>0, <1>1
<1>3. s3' \in S3States /\ closing' \in Closings /\ tracked' \in BOOLEAN /\ ClosingFits'
    <2>1. CASE Multipart!Initiate
        <3>1. s3 = "none" /\ s3' = "open" /\ closing' = closing
              /\ (tracked' = TRUE \/ (tracked' = tracked /\ lost' > 0))
            BY <1>0, <2>1 DEF Multipart!Initiate, Multipart!closeVars
        <3> QED BY <1>0, <3>1 DEF PartTypes, Answers, ClosingFits, S3States
    <2>2. CASE Multipart!Abort
        <3>1. closing = "no" /\ closing' = "abort" /\ UNCHANGED <<s3, tracked, lost, late, forgotten>>
            BY <2>2 DEF Multipart!Abort, Multipart!s3Vars, Multipart!mapVars, Multipart!budget
        <3> QED BY <1>0, <3>1 DEF PartTypes, Answers, ClosingFits, Closings
    <2>3. CASE Multipart!S3Aborts
        <3>1. closing = "abort" /\ UNCHANGED <<tracked, lost, late, forgotten>>
              /\ \/ s3 = "open" /\ s3' = "aborted" /\ closing' = "aborted"
                 \/ s3 # "open" /\ s3' = s3 /\ closing' = "no"
            BY <2>3 DEF Multipart!S3Aborts, Multipart!mapVars, Multipart!budget
        <3> QED BY <1>0, <3>1 DEF PartTypes, Answers, ClosingFits, S3States, Closings
    <2>4. CASE Multipart!Closed
        <3>1. closing \in {"completed", "aborted"} /\ tracked' = FALSE /\ closing' = "no" /\ UNCHANGED s3
            BY <2>4 DEF Multipart!Closed, Multipart!s3Vars
        <3> QED BY <1>0, <3>1 DEF PartTypes, ClosingFits, Closings
    <2>5. CASE Multipart!CloseFails
        <3>1. lost' > 0 /\ closing' = "no" /\ UNCHANGED <<s3, tracked>>
            BY <1>0, <2>5 DEF Multipart!CloseFails, Multipart!s3Vars, Multipart!mapVars
        <3> QED BY <1>0, <3>1 DEF PartTypes, Answers, ClosingFits, Closings
    <2>6. CASE Multipart!ClearAllStates
        <3>1. tracked' = FALSE /\ forgotten' = TRUE /\ UNCHANGED <<s3, closing>>
            BY <2>6 DEF Multipart!ClearAllStates, Multipart!s3Vars, Multipart!closeVars
        <3> QED BY <1>0, <3>1 DEF PartTypes, ClosingFits
    <2> QED BY <2>1, <2>2, <2>3, <2>4, <2>5, <2>6
<1>4. PartTypes'
    BY <1>0, <1>1, <1>2, <1>3 DEF PartTypes
<1>7. forgotten' \in BOOLEAN
    BY Zenon, <1>0, <1>1 DEF Answers
<1>5. Answers'
    BY Zenon, <1>0, <1>1, <1>3, <1>7 DEF Answers
<1>6. PartsStored' /\ PartsAwaited' /\ ObjectWhole' /\ PartsOnce'
    BY <1>1 DEF MultipartInv, PartsStored, PartsAwaited, ObjectWhole, PartsOnce, Within, Once
<1> QED BY Zenon, <1>3, <1>4, <1>5, <1>6 DEF MultipartInv

(* The parts of a batch are sent.                                          *)
LEMMA SendsBatch ==
    ASSUME MultipartInv, NEW f \in 1..NumParts, Multipart!UploadPartsParallel \/ Multipart!NextBatch,
           batch' = f, awaited' = Multipart!BatchFrom(f), uploaded' = uploaded,
           sent' = [n \in 1..NumParts |-> IF n \in Multipart!BatchFrom(f) THEN "sent" ELSE sent[n]],
           \A n \in 1..NumParts : n < f => Within(parts, n),
           resends = 0 => \A n \in 1..NumParts : sent[n] # "no" \/ Within(parts, n) => n < f
    PROVE  MultipartInv'
<1>0. /\ PartTypes /\ Answers /\ NumParts \in Nat /\ Concurrency \in Nat \ {0}
    BY Limits DEF MultipartInv
<1>1. UNCHANGED <<s3, stored, object, tracked, parts, closing, listed, afterAll, refused, late, forgotten, resends, lost>>
    BY DEF Multipart!UploadPartsParallel, Multipart!NextBatch,
           Multipart!s3Vars, Multipart!mapVars, Multipart!closeVars, Multipart!budget
<1>2. \A n : n \in Multipart!BatchFrom(f) <=> n \in 1..NumParts /\ f <= n /\ n < f + Concurrency
    BY DEF Multipart!BatchFrom, Multipart!Parts
<1>3. PartTypes'
    <2>1. sent' \in [1..NumParts -> PartStates] /\ awaited' \subseteq 1..NumParts
        BY <1>0, <1>2 DEF PartTypes, PartStates
    <2>2. batch' \in 0..NumParts
        BY <1>0
    <2> QED BY <1>0, <1>1, <2>1, <2>2 DEF PartTypes
<1>4. Answers'
    BY Zenon, <1>0, <1>1 DEF Answers
<1>5. \A n \in 1..NumParts : /\ sent'[n] = "stored" => sent[n] = "stored"
                             /\ sent'[n] # "no" => sent[n] # "no" \/ n \in Multipart!BatchFrom(f)
    OBVIOUS
<1>6. PartsStored'
    BY <1>1, <1>5 DEF MultipartInv, PartsStored
<1>7. PartsAwaited'
    <2>1. ASSUME NEW n \in 1..NumParts, n < f + Concurrency PROVE n \in awaited' \/ Within(parts, n)
        BY <1>2, <2>1
    <2> QED BY <1>1, <2>1 DEF MultipartInv, PartsAwaited
<1>8. PartsOnce'
    <2>1. ASSUME resends = 0, NEW n \in 1..NumParts
          PROVE  /\ sent'[n] # "no" => ~Within(parts, n)
                 /\ sent'[n] # "no" \/ Within(parts, n) => n < f + Concurrency
        <3>1. (sent[n] # "no" => ~Within(parts, n)) /\ (sent[n] # "no" \/ Within(parts, n) => n < f)
            BY <2>1 DEF MultipartInv, PartsOnce
        <3>2. n \in Multipart!BatchFrom(f) => f <= n /\ n < f + Concurrency
            BY <1>2
        <3>3. n < f => n < f + Concurrency /\ ~(f <= n)
            BY <1>0
        <3> QED BY <1>5, <3>1, <3>2, <3>3
    <2> QED BY <1>1, <2>1 DEF MultipartInv, PartsOnce
<1>9. ObjectWhole' /\ ClosingFits'
    BY <1>1 DEF MultipartInv, ObjectWhole, ClosingFits
<1> QED BY Zenon, <1>3, <1>4, <1>6, <1>7, <1>8, <1>9 DEF MultipartInv

(* The first batch, when no part is there or in flight,                    *)
LEMMA ParallelKeeps ==
    ASSUME MultipartInv, Multipart!UploadPartsParallel
    PROVE  MultipartInv'
<1>1. /\ NumParts \in Nat \ {0} /\ parts = <<>> /\ (\A n \in 1..NumParts : sent[n] = "no")
      /\ batch' = 1 /\ awaited' = Multipart!BatchFrom(1) /\ uploaded' = uploaded
      /\ sent' = [n \in 1..NumParts |-> IF n \in Multipart!BatchFrom(1) THEN "sent" ELSE sent[n]]
    BY Limits DEF Multipart!UploadPartsParallel, Multipart!Parts
<1>2. \A n : ~Within(parts, n)
    BY <1>1 DEF Within
<1>3. 1 \in 1..NumParts /\ \A n \in 1..NumParts : ~(n < 1)
    BY <1>1
<1> QED BY <1>1, <1>2, <1>3, SendsBatch

(* and the next one, when all parts of the last were answered.             *)
LEMMA NextBatchKeeps ==
    ASSUME MultipartInv, Multipart!NextBatch
    PROVE  MultipartInv'
<1>0. /\ PartTypes /\ Answers /\ NumParts \in Nat /\ Concurrency \in Nat \ {0} /\ batch \in 1..NumParts
      /\ awaited = {}
    BY Limits DEF MultipartInv, PartTypes, Multipart!NextBatch
<1>1. PICK f : f = batch + Concurrency
    OBVIOUS
<1>2. \A n \in 1..NumParts : n < f => Within(parts, n)
    BY <1>0, <1>1 DEF MultipartInv, PartsAwaited
<1>3. CASE f <= NumParts /\ tracked
    <2>1. /\ f \in 1..NumParts /\ batch' = f /\ awaited' = Multipart!BatchFrom(f) /\ uploaded' = uploaded
          /\ sent' = [n \in 1..NumParts |-> IF n \in Multipart!BatchFrom(f) THEN "sent" ELSE sent[n]]
        BY <1>0, <1>1, <1>3 DEF Multipart!NextBatch, Multipart!Parts
    <2>2. resends = 0 => \A n \in 1..NumParts : sent[n] # "no" \/ Within(parts, n) => n < f
        BY <1>0, <1>1 DEF MultipartInv, PartsOnce
    <2> QED BY <1>2, <2>1, <2>2, SendsBatch
<1>4. CASE ~(f <= NumParts /\ tracked)
    <2>1. /\ batch' = 0 /\ UNCHANGED <<awaited, sent>>
          /\ uploaded' = uploaded \/ (uploaded' = TRUE /\ f > NumParts)
          /\ UNCHANGED <<s3, stored, object, tracked, parts, closing, listed, afterAll, refused, late, forgotten, resends, lost>>
        BY <1>0, <1>1, <1>4 DEF Multipart!NextBatch,
               Multipart!s3Vars, Multipart!mapVars, Multipart!closeVars, Multipart!budget
    <2>2. PartTypes'
        BY <1>0, <2>1 DEF PartTypes
    <2>3. Answers'
        BY Zenon, <1>0, <2>1 DEF Answers
    <2>4. uploaded' => \A n \in 1..NumParts : Within(parts, n)
        <3>1. uploaded => \A n \in 1..NumParts : Within(parts, n)
            BY DEF MultipartInv, PartsAwaited
        <3>2. f > NumParts => \A n \in 1..NumParts : Within(parts, n)
            BY <1>0, <1>1, <1>2
        <3> QED BY <2>1, <3>1, <3>2
    <2>5. PartsStored' /\ PartsAwaited' /\ PartsOnce'
        BY <2>1, <2>4 DEF MultipartInv, PartsStored, PartsAwaited, PartsOnce
    <2>6. ObjectWhole' /\ ClosingFits'
        BY <2>1 DEF MultipartInv, ObjectWhole, ClosingFits
    <2> QED BY Zenon, <2>2, <2>3, <2>5, <2>6 DEF MultipartInv
<1> QED BY <1>3, <1>4

(* A part that is sent again counts, and is not answered yet.              *)
LEMMA PartSent ==
    ASSUME MultipartInv, NEW n \in 1..NumParts, Multipart!UploadPart(n)
    PROVE  MultipartInv'
<1>0. PartTypes /\ Answers /\ MaxResends \in Nat /\ resends \in 0..MaxResends
    BY Bounds DEF MultipartInv, PartTypes
<1>1. /\ resends < MaxResends /\ resends' = resends + 1 /\ sent' = [sent EXCEPT ![n] = "sent"]
      /\ UNCHANGED <<s3, stored, object, tracked, parts, batch, awaited, uploaded, closing, listed, afterAll,
                     refused, late, forgotten, lost>>
    BY DEF Multipart!UploadPart, Multipart!s3Vars, Multipart!mapVars, Multipart!parallelVars,
           Multipart!closeVars
<1>2. resends' \in 0..MaxResends /\ resends' # 0
    BY <1>0, <1>1
<1>3. sent' \in [1..NumParts -> PartStates] /\ \A m \in 1..NumParts : sent'[m] = "stored" => sent[m] = "stored"
    BY <1>0, <1>1 DEF PartTypes, PartStates
<1>4. PartTypes'
    BY <1>0, <1>1, <1>2, <1>3 DEF PartTypes
<1>5. Answers'
    BY Zenon, <1>0, <1>1 DEF Answers
<1>6. PartsStored' /\ PartsAwaited' /\ PartsOnce'
    BY <1>1, <1>2, <1>3 DEF MultipartInv, PartsStored, PartsAwaited, PartsOnce
<1>7. ObjectWhole' /\ ClosingFits'
    BY <1>1 DEF MultipartInv, ObjectWhole, ClosingFits
<1> QED BY Zenon, <1>4, <1>5, <1>6, <1>7 DEF MultipartInv

(* S3 stores a part.                                                       *)
LEMMA PartStores ==
    ASSUME MultipartInv, NEW n \in 1..NumParts, Multipart!PartStored(n)
    PROVE  MultipartInv'
<1>0. PartTypes /\ Answers
    BY DEF MultipartInv
<1>1. /\ sent[n] = "sent" /\ stored' = stored \cup {n} /\ sent' = [sent EXCEPT ![n] = "stored"]
      /\ UNCHANGED <<s3, object, tracked, parts, batch, awaited, uploaded, closing, listed, afterAll,
                     refused, late, forgotten, resends, lost>>
    BY DEF Multipart!PartStored, Multipart!mapVars, Multipart!parallelVars, Multipart!closeVars,
           Multipart!budget
<1>2. /\ sent' \in [1..NumParts -> PartStates]
      /\ \A m \in 1..NumParts : sent'[m] = IF m = n THEN "stored" ELSE sent[m]
    BY <1>0, <1>1 DEF PartTypes, PartStates
<1>3. PartTypes'
    BY <1>0, <1>1, <1>2 DEF PartTypes
<1>4. Answers'
    BY Zenon, <1>0, <1>1 DEF Answers
<1>5. \A m \in 1..NumParts : (sent'[m] # "no" <=> sent[m] # "no")
    BY <1>1, <1>2
<1>6. PartsStored'
    BY <1>1, <1>2 DEF MultipartInv, PartsStored
<1>7. PartsAwaited' /\ PartsOnce'
    BY <1>1, <1>5 DEF MultipartInv, PartsAwaited, PartsOnce
<1>8. ObjectWhole' /\ ClosingFits'
    BY <1>1 DEF MultipartInv, ObjectWhole, ClosingFits
<1> QED BY Zenon, <1>3, <1>4, <1>6, <1>7, <1>8 DEF MultipartInv

(* The answer puts the part, and the upload, into the map.                 *)
LEMMA PartAnswers ==
    ASSUME MultipartInv, NEW n \in 1..NumParts, Multipart!PartAnswered(n)
    PROVE  MultipartInv'
<1>0. PartTypes /\ Answers
    BY DEF MultipartInv
<1>1. /\ sent[n] = "stored" /\ sent' = [sent EXCEPT ![n] = "no"] /\ parts' = Append(parts, n)
      /\ (late' <=> late \/ ~tracked) /\ late' \in BOOLEAN /\ tracked' = TRUE /\ awaited' = awaited \ {n}
      /\ UNCHANGED <<s3, stored, object, batch, uploaded, closing, listed, afterAll, refused, forgotten, resends, lost>>
    BY Zenon, <1>0 DEF Answers, Multipart!PartAnswered, Multipart!s3Vars, Multipart!closeVars, Multipart!budget
<1>2. PICK q \in Seq(1..NumParts) : q = parts
    BY <1>0 DEF PartTypes
<1>3. /\ parts' \in Seq(1..NumParts)
      /\ \A m : Within(parts', m) <=> Within(parts, m) \/ m = n
      /\ Once(parts) /\ ~Within(parts, n) => Once(parts')
    <2>1. PICK V : V = 1..NumParts
        OBVIOUS
    <2>2. PICK t : t = Append(q, n)
        OBVIOUS
    <2>3. q \in Seq(V) /\ n \in V
        BY <1>2, <2>1
    <2>4. t \in Seq(V) /\ (\A m : Within(t, m) <=> Within(q, m) \/ m = n) /\ (Once(q) /\ ~Within(q, n) => Once(t))
        <3>1. Extends(V, q, n, t)
            BY Zenon, <2>2, <2>3, OneMore
        <3> QED BY <3>1 DEF Extends
    <2>5. t = parts'
        BY <1>1, <1>2, <2>2
    <2> QED BY <1>2, <2>1, <2>4, <2>5
<1>4. /\ sent' \in [1..NumParts -> PartStates]
      /\ \A m \in 1..NumParts : sent'[m] = IF m = n THEN "no" ELSE sent[m]
    BY <1>0, <1>1 DEF PartTypes, PartStates
<1>5. PartTypes'
    BY <1>0, <1>1, <1>3, <1>4 DEF PartTypes
<1>6. Answers'
    BY Zenon, <1>0, <1>1 DEF Answers
<1>7. PartsStored'
    BY <1>1, <1>3, <1>4 DEF MultipartInv, PartsStored
<1>8. PartsAwaited'
    <2>1. ASSUME batch > 0, NEW m \in 1..NumParts, m < batch + Concurrency
          PROVE  m \in awaited' \/ Within(parts', m)
        <3>1. m \in awaited \/ Within(parts, m)
            BY <2>1 DEF MultipartInv, PartsAwaited
        <3> QED BY <1>1, <1>3, <3>1
    <2>2. uploaded => \A m \in 1..NumParts : Within(parts', m)
        BY <1>3 DEF MultipartInv, PartsAwaited
    <2>3. afterAll => \A m \in 1..NumParts : Within(listed, m)
        BY DEF MultipartInv, PartsAwaited
    <2> QED BY <1>1, <2>1, <2>2, <2>3 DEF PartsAwaited
<1>9. PartsOnce'
    <2>1. ASSUME resends = 0
          PROVE  /\ Once(parts')
                 /\ \A m \in 1..NumParts : sent'[m] # "no" => ~Within(parts', m)
                 /\ \A m \in 1..NumParts : sent'[m] # "no" \/ Within(parts', m) => sent[m] # "no" \/ Within(parts, m)
        <3>1. Once(parts) /\ \A m \in 1..NumParts : sent[m] # "no" => ~Within(parts, m)
            BY <2>1 DEF MultipartInv, PartsOnce
        <3>2. Once(parts')
            BY <1>1, <1>3, <3>1
        <3> QED BY <1>1, <1>3, <1>4, <3>1, <3>2
    <2> QED BY <1>1, <2>1 DEF MultipartInv, PartsOnce
<1>10. ObjectWhole' /\ ClosingFits'
    BY <1>0, <1>1 DEF MultipartInv, ObjectWhole, ClosingFits, Answers
<1> QED BY Zenon, <1>5, <1>6, <1>7, <1>8, <1>9, <1>10 DEF MultipartInv

(* A part fails, and so does the call whose batch awaits it.               *)
LEMMA PartFailsKeeps ==
    ASSUME MultipartInv, NEW n \in 1..NumParts, Multipart!PartFails(n)
    PROVE  MultipartInv'
<1>0. PartTypes /\ Answers /\ MaxLost \in Nat /\ lost \in 0..MaxLost /\ NumParts \in Nat
    BY Bounds, Limits DEF MultipartInv, PartTypes
<1>1. /\ sent' = [sent EXCEPT ![n] = "no"]
      /\ lost' = lost \/ (lost < MaxLost /\ lost' = lost + 1)
      /\ (batch' = 0 /\ awaited' = {}) \/ UNCHANGED <<batch, awaited>>
      /\ UNCHANGED <<s3, stored, object, tracked, parts, uploaded, closing, listed, afterAll, refused, late,
                     forgotten, resends>>
    BY DEF Multipart!PartFails, Multipart!s3Vars, Multipart!mapVars, Multipart!closeVars
<1>2. lost' \in 0..MaxLost /\ (lost > 0 => lost' > 0)
    BY <1>0, <1>1
<1>3. /\ sent' \in [1..NumParts -> PartStates]
      /\ \A m \in 1..NumParts : sent'[m] = sent[m] \/ sent'[m] = "no"
    BY <1>0, <1>1 DEF PartTypes, PartStates
<1>4. PartTypes'
    <2>1. batch' \in 0..NumParts /\ awaited' \subseteq 1..NumParts
        <3>1. CASE batch' = 0 /\ awaited' = {}
            BY <1>0, <3>1
        <3>2. CASE UNCHANGED <<batch, awaited>>
            BY <1>0, <3>2 DEF PartTypes
        <3> QED BY <1>1, <3>1, <3>2
    <2> QED BY <1>0, <1>1, <1>2, <1>3, <2>1 DEF PartTypes
<1>5. Answers'
    BY Zenon, <1>0, <1>1 DEF Answers
<1>6. PartsStored'
    BY <1>1, <1>3 DEF MultipartInv, PartsStored
<1>7. PartsAwaited' /\ PartsOnce'
    <2>1. batch' = 0 \/ UNCHANGED <<batch, awaited>>
        BY <1>1
    <2>2. \A m \in 1..NumParts : sent'[m] # "no" => sent[m] # "no"
        BY <1>3
    <2> QED BY <1>1, <2>1, <2>2 DEF MultipartInv, PartsAwaited, PartsOnce
<1>8. ObjectWhole' /\ ClosingFits'
    BY <1>1, <1>2 DEF MultipartInv, ObjectWhole, ClosingFits
<1> QED BY Zenon, <1>4, <1>5, <1>6, <1>7, <1>8 DEF MultipartInv

(* A share of a hundred.                                                   *)
LEMMA Percent ==
    ASSUME NEW x \in Nat, NEW n \in Nat \ {0}, x <= 100 * n
    PROVE  x \div n \in Nat /\ x \div n <= 100
<1>1. PICK d \in Nat : d = x \div n
    OBVIOUS
<1>2. d * n <= x /\ d * n \in Nat
    BY <1>1
<1>3. d >= 101 => d * n >= 101 * n
    OBVIOUS
<1> QED BY <1>1, <1>2, <1>3

(* What a sequence of parts has is a part.                                 *)
LEMMA HasParts ==
    ASSUME NEW s \in Seq(1..NumParts), NEW m \in DOMAIN s
    PROVE  m \in 1..Len(s) /\ s[m] \in 1..NumParts
<1>1. PICK V : V = 1..NumParts
    OBVIOUS
<1>2. s \in Seq(V)
    BY <1>1
<1>3. m \in 1..Len(s) /\ s[m] \in V
    BY <1>2
<1> QED BY <1>1, <1>3

(* The completion names the parts of the state, sorted.                    *)
LEMMA CompleteKeeps ==
    ASSUME MultipartInv, Multipart!Complete
    PROVE  MultipartInv'
<1>0. PartTypes /\ Answers
    BY DEF MultipartInv
<1>1. /\ tracked /\ closing = "no" /\ closing' = "complete" /\ parts' = listed' /\ afterAll' = uploaded
      /\ UNCHANGED <<s3, stored, object, tracked, sent, batch, awaited, uploaded, refused, late, forgotten, resends, lost>>
    BY DEF Multipart!Complete, Multipart!s3Vars, Multipart!parallelVars, Multipart!budget
<1>2. PICK p \in Multipart!Bijection(DOMAIN parts, DOMAIN parts) :
        /\ \A m, n \in DOMAIN parts : m < n => parts[p[m]] <= parts[p[n]]
        /\ listed' = [k \in DOMAIN parts |-> parts[p[k]]]
    BY DEF Multipart!Complete
<1>3. PICK q \in Seq(1..NumParts) : q = parts
    BY <1>0 DEF PartTypes
<1>4. PICK t : t = [k \in DOMAIN q |-> q[p[k]]]
    OBVIOUS
<1>5. t = listed' /\ t = parts'
    BY <1>1, <1>2, <1>3, <1>4
<1>6. /\ t \in Seq(1..NumParts) /\ Len(t) = Len(q) /\ DOMAIN q = 1..Len(q)
      /\ \A n : Within(t, n) <=> Within(q, n)
      /\ Once(q) => Once(t)
    <2>1. PICK V : V = 1..NumParts
        OBVIOUS
    <2>2. q \in Seq(V) /\ p \in Multipart!Bijection(DOMAIN q, DOMAIN q)
        BY <1>2, <1>3, <2>1
    <2>3. /\ t \in Seq(V) /\ Len(t) = Len(q) /\ DOMAIN q = 1..Len(q)
          /\ \A n : Within(t, n) <=> Within(q, n)
          /\ Once(q) => Once(t)
        BY <1>4, <2>2, Permutes
    <2> QED BY <2>1, <2>3
<1>7. \A m, n \in 1..Len(t) : m < n => t[m] <= t[n]
    <2>1. \A m, n \in DOMAIN q : m < n => q[p[m]] <= q[p[n]]
        BY <1>2, <1>3
    <2>2. \A m \in DOMAIN q : t[m] = q[p[m]]
        BY <1>4
    <2> QED BY <1>6, <2>1, <2>2
<1>8. (\A n : Within(parts', n) <=> Within(parts, n)) /\ (Once(parts) => Once(parts')) /\ parts' \in Seq(1..NumParts)
    BY <1>3, <1>5, <1>6
<1>9. PartTypes'
    BY <1>0, <1>1, <1>8 DEF PartTypes, Closings
<1>10. Answers'
    BY Zenon, <1>0, <1>1 DEF Answers
<1>11. PartsStored'
    BY <1>1, <1>8 DEF MultipartInv, PartsStored
<1>12. PartsAwaited'
    BY <1>1, <1>8 DEF MultipartInv, PartsAwaited
<1>13. PartsOnce'
    <2>1. \A m, n \in 1..Len(listed') : m < n => listed'[m] <= listed'[n]
        BY <1>5, <1>7
    <2>2. ASSUME resends = 0
          PROVE  /\ ~refused /\ Once(parts')
                 /\ \A n \in 1..NumParts : sent[n] # "no" => ~Within(parts', n)
                 /\ batch > 0 =>
                      \A n \in 1..NumParts : sent[n] # "no" \/ Within(parts', n) => n < batch + Concurrency
        BY <1>8, <2>2 DEF MultipartInv, PartsOnce
    <2> QED BY <1>1, <2>1, <2>2 DEF PartsOnce
<1>14. ObjectWhole' /\ ClosingFits'
    BY <1>1 DEF MultipartInv, ObjectWhole, ClosingFits
<1> QED BY Zenon, <1>9, <1>10, <1>11, <1>12, <1>13, <1>14 DEF MultipartInv

(* It may name some of them instead: each once.                            *)
LEMMA CompleteGivenKeeps ==
    ASSUME MultipartInv, Multipart!CompleteGiven
    PROVE  MultipartInv'
<1>0. PartTypes /\ Answers
    BY DEF MultipartInv
<1>1. /\ closing = "no" /\ closing' = "complete" /\ afterAll' = FALSE
      /\ UNCHANGED <<s3, stored, object, tracked, parts, sent, batch, awaited, uploaded, refused, late, forgotten,
                     resends, lost>>
    BY DEF Multipart!CompleteGiven, Multipart!s3Vars, Multipart!mapVars, Multipart!parallelVars, Multipart!budget
<1>2. PICK some \in SUBSET Multipart!Range(parts) :
          \E list \in Multipart!Bijection(1..Multipart!Cardinality(some), some) :
              Multipart!Ascending(list) /\ listed' = list
    BY DEF Multipart!CompleteGiven
<1>3. PICK list \in Multipart!Bijection(1..Multipart!Cardinality(some), some) :
          Multipart!Ascending(list) /\ listed' = list
    BY <1>2
<1>4. some \subseteq 1..NumParts
    <2>1. PICK q \in Seq(1..NumParts) : q = parts
        BY <1>0 DEF PartTypes
    <2>2. \A m \in DOMAIN q : q[m] \in 1..NumParts
        BY HasParts
    <2> QED BY <1>2, <2>1, <2>2 DEF Multipart!Range
<1>5. PICK count \in Nat : count = Multipart!Cardinality(some)
    <2>1. IsFiniteSet(1..NumParts)
        BY Limits, FS_Interval
    <2>2. Cardinality(some) \in Nat
        BY <1>4, <2>1, FS_Subset, FS_CardinalityType
    <2> QED BY <2>2, CountsAlike
<1>6. list \in [1..count -> some]
    BY <1>3, <1>5 DEF Multipart!Bijection, Multipart!Injection
<1>7. /\ list \in Seq(1..NumParts) /\ Len(list) = count /\ DOMAIN list = 1..count
      /\ \A m \in 1..count : list[m] \in Nat
    <2>1. PICK V : V = 1..NumParts
        OBVIOUS
    <2>2. list \in [1..count -> V]
        BY <1>4, <1>6, <2>1
    <2>3. list \in Seq(V) /\ Len(list) = count /\ DOMAIN list = 1..count
        BY <2>2
    <2>4. \A m \in 1..count : list[m] \in 1..NumParts
        BY <1>4, <1>6
    <2>5. \A m \in 1..count : list[m] \in Nat
        BY <2>4
    <2> QED BY ONLY Zenon, <2>1, <2>3, <2>5
<1>8. \A m, n \in 1..count : m < n => list[m] < list[n]
    BY <1>3, <1>7 DEF Multipart!Ascending
<1>9. listed' \in Seq(1..NumParts) /\ Once(listed')
      /\ \A m, n \in 1..Len(listed') : m < n => listed'[m] <= listed'[n]
    <2>1. Once(list)
        <3> SUFFICES ASSUME NEW m \in 1..count, NEW n \in 1..count, list[m] = list[n], m # n PROVE FALSE
            BY <1>7 DEF Once
        <3>1. m < n \/ n < m
            OBVIOUS
        <3> QED BY <1>7, <1>8, <3>1
    <2>2. \A m, n \in 1..Len(list) : m < n => list[m] <= list[n]
        BY <1>7, <1>8
    <2> QED BY <1>3, <1>7, <2>1, <2>2
<1>10. PartTypes'
    BY <1>0, <1>1, <1>9 DEF PartTypes, Closings
<1>11. Answers'
    <2>1. afterAll' \in BOOLEAN
        BY <1>1
    <2> QED BY Zenon, <1>0, <1>1, <2>1 DEF Answers
<1>12. PartsStored' /\ PartsAwaited'
    BY <1>1 DEF MultipartInv, PartsStored, PartsAwaited, Within
<1>13. PartsOnce'
    BY <1>1, <1>9 DEF MultipartInv, PartsOnce, Within
<1>14. ObjectWhole' /\ ClosingFits'
    BY <1>1 DEF MultipartInv, ObjectWhole, ClosingFits
<1> QED BY Zenon, <1>10, <1>11, <1>12, <1>13, <1>14 DEF MultipartInv

(* A process that starts knows of no upload.                               *)
LEMMA MultipartRestarts ==
    ASSUME MultipartInv, Multipart!Restart
    PROVE  MultipartInv'
<1>0. PartTypes /\ Answers /\ ObjectWhole /\ NumParts \in Nat /\ (resends = 0 => ~refused)
    BY Limits DEF MultipartInv, PartsOnce
<1>1. /\ tracked' = FALSE /\ parts' = <<>> /\ forgotten' = TRUE /\ sent' = [n \in 1..NumParts |-> "no"]
      /\ batch' = 0 /\ awaited' = {} /\ uploaded' = FALSE
      /\ closing' = "no" /\ listed' = <<>> /\ afterAll' = FALSE
      /\ UNCHANGED <<s3, stored, object, refused, late, resends, lost>>
    BY DEF Multipart!Restart, Multipart!Parts, Multipart!s3Vars, Multipart!budget
<1>2. PartTypes'
    BY <1>0, <1>1 DEF PartTypes, Closings, PartStates
<1>3. Answers'
    <2>1. tracked' \in BOOLEAN /\ uploaded' \in BOOLEAN /\ afterAll' \in BOOLEAN /\ forgotten' \in BOOLEAN
        BY <1>1
    <2> QED BY Zenon, <1>0, <1>1, <2>1 DEF Answers
<1>4. \A n : ~Within(parts', n)
    BY <1>1 DEF Within
<1>5. PartsStored' /\ PartsAwaited' /\ ObjectWhole'
    BY <1>0, <1>1, <1>4 DEF PartsStored, PartsAwaited, ObjectWhole
<1>6. PartsOnce' /\ ClosingFits'
    BY <1>0, <1>1, <1>4 DEF PartsOnce, ClosingFits, Once
<1> QED BY <1>2, <1>3, <1>5, <1>6 DEF MultipartInv

(* S3 takes them, or refuses because one of them is there twice.           *)
LEMMA S3CompletesKeeps ==
    ASSUME MultipartInv, Multipart!S3Completes
    PROVE  MultipartInv'
<1>0. PartTypes /\ Answers /\ closing = "complete"
    BY DEF MultipartInv, Multipart!S3Completes
<1>1. UNCHANGED <<stored, tracked, parts, sent, batch, awaited, uploaded, listed, afterAll, late, forgotten, resends, lost>>
    BY DEF Multipart!S3Completes, Multipart!mapVars, Multipart!parallelVars, Multipart!budget
<1>2. CASE s3 = "open" /\ listed # <<>> /\ Multipart!Ascending(listed)
    <2>1. /\ s3' = "completed" /\ closing' = "completed" /\ UNCHANGED refused
          /\ object' = [parts |-> listed, afterAll |-> afterAll]
        BY <1>2 DEF Multipart!S3Completes
    <2>2. PartTypes'
        BY <1>0, <1>1, <2>1 DEF PartTypes, Closings, S3States
    <2>3. Answers'
        BY Zenon, <1>0, <1>1, <2>1 DEF Answers
    <2>4. object'.parts = listed /\ object'.afterAll = afterAll
        BY <2>1
    <2>5. ObjectWhole'
        BY <1>0, <2>4 DEF MultipartInv, PartTypes, PartsAwaited, ObjectWhole
    <2>6. PartsStored' /\ PartsAwaited' /\ PartsOnce'
        BY <1>1, <2>1 DEF MultipartInv, PartsStored, PartsAwaited, PartsOnce
    <2>7. ClosingFits'
        BY <2>1 DEF ClosingFits
    <2> QED BY Zenon, <2>2, <2>3, <2>5, <2>6, <2>7 DEF MultipartInv
<1>3. CASE ~(s3 = "open" /\ listed # <<>> /\ Multipart!Ascending(listed))
    <2>1. /\ closing' = "no" /\ UNCHANGED <<s3, object>>
          /\ refused' = (refused \/ (s3 = "open" /\ listed # <<>>))
        BY <1>3 DEF Multipart!S3Completes
    <2>2. PartTypes'
        BY <1>0, <1>1, <2>1 DEF PartTypes, Closings
    <2>3. refused' \in BOOLEAN /\ (refused' <=> refused \/ (s3 = "open" /\ listed # <<>>))
        BY Zenon, <1>0, <2>1 DEF Answers
    <2>4. Answers'
        BY Zenon, <1>0, <1>1, <2>3 DEF Answers
    <2>5. ASSUME resends = 0 PROVE ~refused'
        <3>1. /\ ~refused /\ \A m, n \in 1..Len(listed) : listed[m] = listed[n] => m = n
            BY <2>5 DEF MultipartInv, PartsOnce, Once
        <3>2. \A m, n \in 1..Len(listed) : m < n => listed[m] <= listed[n]
            BY DEF MultipartInv, PartsOnce
        <3>3. PICK q \in Seq(1..NumParts) : q = listed
            BY <1>0 DEF PartTypes
        <3>4. ASSUME NEW m \in DOMAIN q, NEW n \in DOMAIN q, m < n PROVE q[m] < q[n]
            <4>1. m \in 1..Len(q) /\ n \in 1..Len(q) /\ m # n /\ q[m] \in Nat /\ q[n] \in Nat
                <5>1. m \in 1..Len(q) /\ q[m] \in 1..NumParts /\ n \in 1..Len(q) /\ q[n] \in 1..NumParts
                    BY <3>4, HasParts
                <5> QED BY <3>4, <5>1
            <4>2. q[m] <= q[n] /\ q[m] # q[n]
                BY <3>1, <3>2, <3>3, <3>4, <4>1
            <4> QED BY <4>1, <4>2
        <3>5. Multipart!Ascending(listed)
            BY <3>3, <3>4 DEF Multipart!Ascending
        <3> QED BY <1>3, <2>3, <3>1, <3>5
    <2>6. PartsOnce'
        BY <1>1, <2>5 DEF MultipartInv, PartsOnce
    <2>7. PartsStored' /\ PartsAwaited'
        BY <1>1 DEF MultipartInv, PartsStored, PartsAwaited
    <2>8. ObjectWhole' /\ ClosingFits'
        BY <1>0, <1>1, <2>1 DEF MultipartInv, ObjectWhole, ClosingFits
    <2> QED BY Zenon, <2>2, <2>4, <2>6, <2>7, <2>8 DEF MultipartInv
<1> QED BY <1>2, <1>3

(* Every step of an upload keeps its invariant,                            *)
LEMMA MultipartKeeps == MultipartInv /\ Multipart!Next => MultipartInv'
BY Zenon, ClosingMoves, ParallelKeeps, NextBatchKeeps, PartSent, PartStores, PartAnswers, PartFailsKeeps,
   CompleteKeeps, CompleteGivenKeeps, MultipartRestarts, S3CompletesKeeps DEF Multipart!Next, Multipart!Parts

(* it holds at the start,                                                  *)
LEMMA MultipartInit == Multipart!Init => MultipartInv
<1> SUFFICES ASSUME Multipart!Init PROVE MultipartInv
    OBVIOUS
<1>1. /\ s3 = "none" /\ stored = {} /\ tracked = FALSE /\ parts = <<>>
      /\ sent = [n \in 1..NumParts |-> "no"] /\ batch = 0 /\ awaited = {} /\ uploaded = FALSE
      /\ closing = "no" /\ listed = <<>> /\ afterAll = FALSE /\ refused = FALSE /\ late = FALSE
      /\ forgotten = FALSE
      /\ resends = 0 /\ lost = 0 /\ object.afterAll = FALSE
    BY DEF Multipart!Init, Multipart!Parts
<1>2. NumParts \in Nat /\ MaxResends \in Nat /\ MaxLost \in Nat
    BY Limits, Bounds
<1>3. PartTypes
    BY <1>1, <1>2 DEF PartTypes, S3States, Closings, PartStates
<1>4. Answers
    BY <1>1 DEF Answers
<1>5. \A n : ~Within(parts, n)
    BY <1>1 DEF Within
<1>6. PartsStored /\ PartsAwaited /\ ObjectWhole
    BY <1>1, <1>2, <1>5 DEF PartsStored, PartsAwaited, ObjectWhole
<1>7. PartsOnce /\ ClosingFits
    BY <1>1, <1>2, <1>5 DEF PartsOnce, ClosingFits, Once
<1> QED BY <1>3, <1>4, <1>6, <1>7 DEF MultipartInv

(* and the other parts leave it alone.                                     *)
LEMMA MultipartRests == MultipartInv /\ UNCHANGED multipartVars => MultipartInv'
BY DEF multipartVars, MultipartInv, PartTypes, Answers, PartsStored, PartsAwaited, ObjectWhole, PartsOnce,
       ClosingFits, Within, Once

(* What the invariant says of an upload.                                   *)
LEMMA MultipartKept == MultipartInv => Multipart!TypeOK /\ Multipart!UploadsFollow
<1> SUFFICES ASSUME MultipartInv PROVE Multipart!TypeOK /\ Multipart!UploadsFollow
    OBVIOUS
<1>1. PartTypes /\ Answers /\ NumParts \in Nat \ {0}
    BY Limits DEF MultipartInv
<1>2. PICK q \in Seq(1..NumParts) : q = parts
    BY <1>1 DEF PartTypes
<1>3. Multipart!TypeOK
    <2>1. Multipart!Range(parts) \subseteq stored
        <3>1. ASSUME NEW n \in Multipart!Range(q) PROVE n \in stored
            <4>1. PICK m \in 1..Len(q) : n = q[m] /\ q[m] \in 1..NumParts
                BY HasParts DEF Multipart!Range
            <4>2. Within(parts, n)
                BY <1>2, <4>1 DEF Within
            <4> QED BY <4>1, <4>2 DEF MultipartInv, PartsStored
        <3> QED BY <1>2, <3>1
    <2>2. {tracked, uploaded, afterAll, refused, late, forgotten} \subseteq BOOLEAN
        BY Zenon, <1>1 DEF Answers
    <2>3. /\ s3 \in S3States /\ stored \subseteq 1..NumParts /\ awaited \subseteq 1..NumParts
          /\ sent \in [1..NumParts -> PartStates] /\ batch \in 0..NumParts /\ closing \in Closings
          /\ resends \in 0..MaxResends /\ lost \in 0..MaxLost
        BY <1>1 DEF PartTypes
    <2> QED BY Zenon, <2>1, <2>2, <2>3 DEF Multipart!TypeOK, Multipart!Parts, S3States, PartStates, Closings
<1>4. Multipart!UploadsFollow
    <2>1. s3 = "open" /\ ~tracked => lost > 0 \/ forgotten
        BY DEF MultipartInv, ClosingFits
    <2>2. s3 \in {"completed", "aborted"} /\ tracked => closing # "no" \/ lost > 0 \/ late
        BY DEF MultipartInv, ClosingFits
    <2>3. object.afterAll => Multipart!Range(object.parts) = Multipart!Parts
        <3> SUFFICES ASSUME object.afterAll PROVE Multipart!Range(object.parts) = 1..NumParts
            BY DEF Multipart!Parts
        <3>1. PICK t \in Seq(1..NumParts) : t = object.parts /\ \A n \in 1..NumParts : Within(t, n)
            BY DEF MultipartInv, ObjectWhole
        <3>2. \A n : n \in Multipart!Range(t) <=> Within(t, n)
            BY DEF Multipart!Range, Within
        <3>3. \A n : Within(t, n) => n \in 1..NumParts
            BY HasParts DEF Within
        <3> QED BY <3>1, <3>2, <3>3
    <2>4. refused => resends > 0
        BY <1>1, Bounds DEF MultipartInv, PartsOnce, PartTypes
    <2>5. Multipart!getProgress > 100 => resends > 0
        <3> SUFFICES ASSUME ~(resends > 0) PROVE ~(Multipart!getProgress > 100)
            OBVIOUS
        <3>1. resends = 0
            BY <1>1, Bounds DEF PartTypes
        <3>2. Once(q)
            BY <1>2, <3>1 DEF MultipartInv, PartsOnce
        <3>3. PICK l \in Nat : l = Len(q) /\ l <= NumParts
            BY <3>2, OnceIsShort
        <3>4. (100 * l) \div NumParts <= 100
            <4>1. PICK x \in Nat : x = 100 * l
                OBVIOUS
            <4>2. x <= 100 * NumParts
                BY <1>1, <3>3, <4>1
            <4> QED BY <1>1, <4>1, <4>2, Percent
        <3>5. Multipart!getProgress = (100 * l) \div NumParts
            BY <1>2, <3>3 DEF Multipart!getProgress
        <3> QED BY <1>1, <3>3, <3>4, <3>5
    <2> QED BY <2>1, <2>2, <2>3, <2>4, <2>5 DEF Multipart!UploadsFollow
<1> QED BY <1>3, <1>4

HIDE DEF Multipart!ghosts

-----------------------------------------------------------------------------
(***************************************************************************)
(* The pure utilities, and the migrations: their types.                    *)
(***************************************************************************)
(* A shuffled array is as long as the one given, and has items of it.      *)
ArrayInv ==
    /\ given \in Seq(Numbers) /\ other \in Seq(Numbers) /\ shuffled \in Seq(Numbers)
    /\ Len(shuffled) = Len(given) /\ i \in 0..Len(given)

(* The arrays that are given.                                              *)
LEMMA ArrayInit == Array!Init => ArrayInv
<1> SUFFICES ASSUME Array!Init PROVE ArrayInv
    OBVIOUS
<1>1. MaxLength \in Nat /\ shuffled = given /\ i = Len(given)
    BY BoundsAssumption DEF Array!Init
<1>2. \A n \in Nat : Array!BoundedSeq(Numbers, n) \subseteq Seq(Numbers)
    BY DEF Array!BoundedSeq, Array!SeqOf
<1>3. given \in Seq(Numbers) /\ other \in Seq(Numbers)
    BY <1>1, <1>2 DEF Array!Init
<1> QED BY <1>1, <1>3 DEF ArrayInv

(* An exchange of two items.                                               *)
LEMMA ArrayKeeps == ArrayInv /\ Array!Next => ArrayInv'
<1> SUFFICES ASSUME ArrayInv, Array!Next PROVE ArrayInv'
    OBVIOUS
<1>1. PICK s \in Seq(Numbers) : s = shuffled
    BY DEF ArrayInv
<1>2. PICK m \in 1..i : shuffled' = Array!Exchanged(shuffled, i, m)
    BY DEF Array!Next, Array!Shuffle
<1>3. i > 1 /\ i' = i - 1 /\ UNCHANGED <<given, other>> /\ i \in 0..Len(given) /\ Len(s) = Len(given) /\ Len(given) \in Nat
    BY <1>1 DEF Array!Next, Array!Shuffle, ArrayInv
<1>4. PICK n \in 1..Len(s) : n = i
    BY <1>1, <1>3
<1>5. shuffled' = [s EXCEPT ![n] = s[m], ![m] = s[n]] /\ m \in 1..Len(s)
    BY <1>1, <1>2, <1>3, <1>4 DEF Array!Exchanged
<1>6. shuffled' \in Seq(Numbers) /\ Len(shuffled') = Len(s)
    BY <1>1, <1>4, <1>5
<1> QED BY <1>3, <1>6 DEF ArrayInv

(* The other parts leave the arrays alone.                                 *)
LEMMA ArrayRests == ArrayInv /\ UNCHANGED <<given, other, shuffled, i>> => ArrayInv'
BY DEF ArrayInv

(* What the invariant says of the arrays.                                  *)
LEMMA ArrayKept == ArrayInv => Array!TypeOK
BY DEF ArrayInv, Array!TypeOK

(* The objects of object.util.ts, and what is merged of them.              *)
ObjectInv == target \in Object!Objects /\ source \in Object!Objects /\ merged \in BOOLEAN

(* An object by its keys and values.                                       *)
LEMMA ObjectsOf ==
    ASSUME NEW K, NEW V, NEW o
    PROVE  o \in Object!Of(K, V) <=> \E ks \in SUBSET K : o \in [ks -> V]
BY DEF Object!Of

(* Leaves and objects are told apart.                                      *)
LEMMA Apart ==
    /\ \A v \in Object!LeafValues : ~Object!isObject(v)
    /\ \A o : Object!isObject([object |-> o]) /\ [object |-> o].object = o
BY DEF Object!LeafValues, Object!isObject

(* Two objects of leaves, the second one over the first.                   *)
Joined(x, y) == [j \in DOMAIN x \cup DOMAIN y |-> IF j \in DOMAIN y THEN y[j] ELSE x[j]]
(* The keys of what is merged, and what only the target has.               *)
LEMMA MergedAt ==
    ASSUME NEW o, NEW from, NEW k
    PROVE  /\ DOMAIN Object!deepMerge(o, from) = DOMAIN o \cup DOMAIN from
           /\ k \in DOMAIN o /\ k \notin DOMAIN from => Object!deepMerge(o, from)[k] = o[k]
BY DEF Object!deepMerge, Object!Assigned

(* What is merged under a key of the source.                               *)
LEMMA MergedWhere ==
    ASSUME NEW o, NEW from, NEW k \in DOMAIN from, NEW v, v = Object!Value(o, k), NEW w, w = from[k]
    PROVE  Object!deepMerge(o, from)[k] =
               CASE ~Object!isObject(w) -> w
                 [] Object!isObject(w) /\ Object!isObject(v) -> [object |-> Joined(v.object, w.object)]
                 [] Object!isObject(w) /\ v \in Object!Nullish -> [object |-> Joined(Object!Empty, w.object)]
                 [] OTHER -> v
<1>1. Object!deepMerge(o, from)[k] =
          CASE ~Object!isObject(from[k]) -> from[k]
            [] Object!isObject(from[k]) /\ Object!isObject(Object!Value(o, k)) ->
                 [object |-> Joined(Object!Value(o, k).object, from[k].object)]
            [] Object!isObject(from[k]) /\ Object!Value(o, k) \in Object!Nullish ->
                 [object |-> Joined(Object!Empty, from[k].object)]
            [] OTHER -> Object!Value(o, k)
    BY DEF Object!deepMerge, Object!Assigned, Joined
<1> QED BY Zenon, <1>1

(* What two objects are merged to is an object of two levels again.        *)
LEMMA MergedIsObject ==
    ASSUME NEW o \in Object!Objects, NEW from \in Object!Objects
    PROVE  Object!deepMerge(o, from) \in Object!Objects
<1>1. PICK r : r = Object!deepMerge(o, from)
    OBVIOUS
<1>2. PICK W : W = Object!Within
    OBVIOUS
<1>3. PICK V : V = Object!LeafValues \cup {[object |-> w] : w \in W}
    OBVIOUS
<1>4. o \in Object!Of(Keys, V) /\ from \in Object!Of(Keys, V)
    BY <1>2, <1>3 DEF Object!Objects
<1>5. (\A k \in DOMAIN o : o[k] \in V) /\ (\A k \in DOMAIN from : from[k] \in V)
    BY <1>4, ObjectsOf
<1>6. \A v \in V : IF Object!isObject(v) THEN v.object \in W ELSE v \in Object!LeafValues
    <2> SUFFICES ASSUME NEW v \in V PROVE IF Object!isObject(v) THEN v.object \in W ELSE v \in Object!LeafValues
        OBVIOUS
    <2>1. CASE v \in Object!LeafValues
        BY <2>1, Apart
    <2>2. CASE v \in {[object |-> w] : w \in W}
        <3>1. PICK w \in W : v = [object |-> w]
            BY <2>2
        <3>2. Object!isObject(v) /\ v.object = w
            BY <3>1, Apart
        <3> QED BY <3>1, <3>2
    <2> QED BY <1>3, <2>1, <2>2
<1>7. Object!Empty \in W
    <2>1. Object!Empty \in [{} -> Object!LeafValues]
        BY DEF Object!Empty
    <2>2. {} \in SUBSET Inner
        OBVIOUS
    <2> QED BY <1>2, <2>1, <2>2, ObjectsOf DEF Object!Within
<1>8. ASSUME NEW x \in W, NEW y \in W PROVE Joined(x, y) \in W
    <2>1. x \in Object!Of(Inner, Object!LeafValues) /\ y \in Object!Of(Inner, Object!LeafValues)
        BY <1>2, <1>8 DEF Object!Within
    <2>2. PICK ks \in SUBSET Inner : x \in [ks -> Object!LeafValues]
        BY <2>1, ObjectsOf
    <2>3. PICK js \in SUBSET Inner : y \in [js -> Object!LeafValues]
        BY <2>1, ObjectsOf
    <2>4. Joined(x, y) \in [ks \cup js -> Object!LeafValues] /\ ks \cup js \in SUBSET Inner
        BY <2>2, <2>3 DEF Joined
    <2> QED BY <1>2, <2>4, ObjectsOf DEF Object!Within
<1>9. ASSUME NEW k \in DOMAIN o \cup DOMAIN from PROVE r[k] \in V
    <2>1. CASE k \notin DOMAIN from
        <3>1. r[k] = o[k] /\ k \in DOMAIN o
            BY Zenon, <1>1, <1>9, <2>1, MergedAt
        <3> QED BY <1>5, <3>1
    <2>2. CASE k \in DOMAIN from
        <3>1. PICK w, v : w = from[k] /\ v = Object!Value(o, k)
            OBVIOUS
        <3>2. r[k] = CASE ~Object!isObject(w) -> w
                       [] Object!isObject(w) /\ Object!isObject(v) -> [object |-> Joined(v.object, w.object)]
                       [] Object!isObject(w) /\ v \in Object!Nullish -> [object |-> Joined(Object!Empty, w.object)]
                       [] OTHER -> v
            <4>1. k \in DOMAIN from /\ v = Object!Value(o, k) /\ w = from[k]
                BY <2>2, <3>1
            <4> QED BY <1>1, <4>1, MergedWhere
        <3>3. w \in V
            BY <1>5, <2>2, <3>1
        <3>4. v \in V \/ (v \in Object!Nullish /\ ~Object!isObject(v))
            <4>1. ~Object!isObject(Object!Undefined) /\ Object!Undefined \in Object!Nullish
                BY DEF Object!isObject, Object!Undefined, Object!Nullish
            <4>2. v \in V \/ v = Object!Undefined
                <5>1. v = IF k \in DOMAIN o THEN o[k] ELSE Object!Undefined
                    BY Zenon, <3>1 DEF Object!Value
                <5> QED BY <1>5, <5>1
            <4> QED BY Zenon, <4>1, <4>2
        <3>5. CASE ~Object!isObject(w)
            BY <3>2, <3>3, <3>5
        <3>6. CASE Object!isObject(w) /\ Object!isObject(v)
            <4>0. v \notin Object!Nullish
                BY <3>6 DEF Object!isObject, Object!Undefined, Object!Nullish
            <4>1. r[k] = [object |-> Joined(v.object, w.object)]
                BY <3>2, <3>6, <4>0
            <4>2. Joined(v.object, w.object) \in W
                BY <1>6, <1>8, <3>3, <3>4, <3>6
            <4> QED BY <1>3, <4>1, <4>2
        <3>7. CASE Object!isObject(w) /\ ~Object!isObject(v) /\ v \in Object!Nullish
            <4>1. r[k] = [object |-> Joined(Object!Empty, w.object)]
                BY <3>2, <3>7
            <4>2. Joined(Object!Empty, w.object) \in W
                BY <1>6, <1>7, <1>8, <3>3, <3>7
            <4> QED BY <1>3, <4>1, <4>2
        <3>8. CASE Object!isObject(w) /\ ~Object!isObject(v) /\ v \notin Object!Nullish
            BY <3>2, <3>4, <3>8
        <3> QED BY <3>5, <3>6, <3>7, <3>8
    <2> QED BY <2>1, <2>2
<1>10. r \in Object!Of(Keys, V)
    <2>1. (\A k \in DOMAIN o \cup DOMAIN from : r[k] \in V) => r \in [DOMAIN o \cup DOMAIN from -> V]
        BY <1>1 DEF Object!deepMerge, Object!Assigned
    <2>2. PICK ks \in SUBSET Keys : o \in [ks -> V]
        BY <1>4, ObjectsOf
    <2>3. PICK js \in SUBSET Keys : from \in [js -> V]
        BY <1>4, ObjectsOf
    <2>4. DOMAIN o \cup DOMAIN from \in SUBSET Keys
        BY <2>2, <2>3
    <2>5. r \in [DOMAIN o \cup DOMAIN from -> V]
        BY <1>9, <2>1
    <2> QED BY <2>4, <2>5, ObjectsOf
<1> QED BY Zenon, <1>1, <1>2, <1>3, <1>10 DEF Object!Objects

(* The objects that are given.                                             *)
LEMMA ObjectInit == Object!Init => ObjectInv
BY DEF Object!Init, ObjectInv

(* A merge.                                                                *)
LEMMA ObjectKeeps == ObjectInv /\ Object!Next => ObjectInv'
<1> SUFFICES ASSUME ObjectInv, Object!Next PROVE ObjectInv'
    OBVIOUS
<1>1. target' = Object!deepMerge(target, source) /\ UNCHANGED source /\ merged' = TRUE
    BY DEF Object!Next, Object!DeepMerge
<1>2. target' \in Object!Objects
    BY Zenon, <1>1, MergedIsObject DEF ObjectInv
<1>3. merged' \in BOOLEAN
    BY Zenon, <1>1
<1> QED BY Zenon, <1>1, <1>2, <1>3 DEF ObjectInv

(* The other parts leave the objects alone.                                *)
LEMMA ObjectRests == ObjectInv /\ UNCHANGED <<target, source, merged>> => ObjectInv'
BY Zenon DEF ObjectInv

(* What the invariant says of the objects.                                 *)
LEMMA ObjectKept == ObjectInv => Object!TypeOK
BY Zenon DEF ObjectInv, Object!TypeOK

-----------------------------------------------------------------------------
(***************************************************************************)
(* The parts together: a step of the system is one of a part, and leaves   *)
(* the others alone.                                                       *)
(***************************************************************************)
(* What the system does to the gateways.                                   *)
LEMMA GatewayNext == GatewayInv /\ [Next]_vars => GatewayInv'
<1>1. [Next]_vars => Gateway!Next \/ UNCHANGED gatewayVars
    BY Zenon DEF Next, Services, Database, Utilities, vars, serviceVars, databaseVars, fileVars, pureVars,
           OnAuto, OnGateway, OnRequest, OnRate, OnMigrate, OnPool, OnAsync, OnBatch, OnTemp,
           OnMultipart, OnUpload, OnArray, OnObject, Gateway!Next
<1> QED BY Zenon, <1>1, GatewaySteps, GatewayRests

(* What the system does to the rate limit.                                 *)
LEMMA RateNext == RateInv /\ [Next]_vars => RateInv'
<1>1. [Next]_vars => Rate!Next \/ UNCHANGED rateVars
    BY Zenon DEF Next, Services, Database, Utilities, vars, serviceVars, databaseVars, fileVars, pureVars,
           OnAuto, OnGateway, OnRequest, OnRate, OnMigrate, OnPool, OnAsync, OnBatch, OnTemp,
           OnMultipart, OnUpload, OnArray, OnObject, Rate!Next
<1> QED BY Zenon, <1>1, RateKeeps, RateRests

(* What the system does to the monitor of the pool.                        *)
LEMMA PoolNext == PoolInv /\ [Next]_vars => PoolInv'
<1>1. [Next]_vars => Pool!Next \/ UNCHANGED poolVars
    BY Zenon DEF Next, Services, Database, Utilities, vars, serviceVars, databaseVars, fileVars, pureVars,
           OnAuto, OnGateway, OnRequest, OnRate, OnMigrate, OnPool, OnAsync, OnBatch, OnTemp,
           OnMultipart, OnUpload, OnArray, OnObject, Pool!Next
<1> QED BY Zenon, <1>1, PoolSteps, PoolRests

(* What the system does to the shared functions.                           *)
LEMMA AsyncNext == AsyncInv /\ [Next]_vars => AsyncInv'
<1>1. [Next]_vars => Async!Next \/ UNCHANGED asyncVars
    BY Zenon DEF Next, Services, Database, Utilities, vars, serviceVars, databaseVars, fileVars, pureVars,
           OnAuto, OnGateway, OnRequest, OnRate, OnMigrate, OnPool, OnAsync, OnBatch, OnTemp,
           OnMultipart, OnUpload, OnArray, OnObject, Async!Next
<1> QED BY Zenon, <1>1, AsyncKeeps, AsyncRests

(* What the system does to the temporary files.                            *)
LEMMA TempNext == TempInv /\ [Next]_vars => TempInv'
<1>1. [Next]_vars => Temp!Next \/ UNCHANGED tempVars
    BY Zenon DEF Next, Services, Database, Utilities, vars, serviceVars, databaseVars, fileVars, pureVars,
           OnAuto, OnGateway, OnRequest, OnRate, OnMigrate, OnPool, OnAsync, OnBatch, OnTemp,
           OnMultipart, OnUpload, OnArray, OnObject, Temp!Next
<1> QED BY Zenon, <1>1, TempKeeps, TempRests

(* What the system does to the uploads.                                    *)
LEMMA UploadNext == UploadInv /\ [Next]_vars => UploadInv'
<1>1. [Next]_vars => Upload!Next \/ UNCHANGED uploadVars
    BY Zenon DEF Next, Services, Database, Utilities, vars, serviceVars, databaseVars, fileVars, pureVars,
           OnAuto, OnGateway, OnRequest, OnRate, OnMigrate, OnPool, OnAsync, OnBatch, OnTemp,
           OnMultipart, OnUpload, OnArray, OnObject, Upload!Next
<1> QED BY Zenon, <1>1, UploadKeeps, UploadRests

(* What the system does to the migrations.                                 *)
LEMMA MigrateNext == Migrate!TypeOK /\ [Next]_vars => Migrate!TypeOK'
<1>1. [Next]_vars => Migrate!Next \/ UNCHANGED migrationVars
    BY Zenon DEF Next, Services, Database, Utilities, vars, serviceVars, databaseVars, fileVars, pureVars,
           OnAuto, OnGateway, OnRequest, OnRate, OnMigrate, OnPool, OnAsync, OnBatch, OnTemp,
           OnMultipart, OnUpload, OnArray, OnObject, Migrate!Next
<1> QED BY Zenon, <1>1, MigrateKeeps, MigrateRests

(* What the system does to the arrays.                                     *)
LEMMA ArrayNext == ArrayInv /\ [Next]_vars => ArrayInv'
<1>1. [Next]_vars => Array!Next \/ UNCHANGED <<given, other, shuffled, i>>
    BY Zenon DEF Next, Services, Database, Utilities, vars, serviceVars, databaseVars, fileVars, pureVars,
           OnAuto, OnGateway, OnRequest, OnRate, OnMigrate, OnPool, OnAsync, OnBatch, OnTemp,
           OnMultipart, OnUpload, OnArray, OnObject, Array!Next
<1> QED BY Zenon, <1>1, ArrayKeeps, ArrayRests

(* What the system does to the objects.                                    *)
LEMMA ObjectNext == ObjectInv /\ [Next]_vars => ObjectInv'
<1>1. [Next]_vars => Object!Next \/ UNCHANGED <<target, source, merged>>
    BY Zenon DEF Next, Services, Database, Utilities, vars, serviceVars, databaseVars, fileVars, pureVars,
           OnAuto, OnGateway, OnRequest, OnRate, OnMigrate, OnPool, OnAsync, OnBatch, OnTemp,
           OnMultipart, OnUpload, OnArray, OnObject, Object!Next
<1> QED BY Zenon, <1>1, ObjectKeeps, ObjectRests

(* What the system does to the batches.                                    *)
LEMMA BatchNext == BatchInv /\ [Next]_vars => BatchInv'
<1>1. BatchInv => \A n \in 1..MaxItems : n <= items => n \in Batch!Items
    <2> SUFFICES ASSUME BatchInv, NEW n \in 1..MaxItems, n <= items PROVE n \in Batch!Items
        OBVIOUS
    <2>1. items \in Nat /\ n \in Nat \ {0}
        BY Bounds DEF BatchInv, BatchTypes
    <2> QED BY <2>1 DEF Batch!Items
<1>2. BatchInv /\ [Next]_vars => Batch!Next \/ UNCHANGED batchVars
    BY Zenon, <1>1 DEF Next, Services, Database, Utilities, vars, serviceVars, databaseVars, fileVars, pureVars,
           OnAuto, OnGateway, OnRequest, OnRate, OnMigrate, OnPool, OnAsync, OnBatch, OnTemp,
           OnMultipart, OnUpload, OnArray, OnObject, Batch!Next
<1> QED BY Zenon, <1>2, BatchKeeps, BatchRests

(* What the system does to the parts of an upload.                         *)
LEMMA MultipartNext == MultipartInv /\ [Next]_vars => MultipartInv'
<1>1. [Next]_vars => Multipart!Next \/ UNCHANGED multipartVars
    BY Zenon DEF Next, Services, Database, Utilities, vars, serviceVars, databaseVars, fileVars, pureVars,
           OnAuto, OnGateway, OnRequest, OnRate, OnMigrate, OnPool, OnAsync, OnBatch, OnTemp,
           OnMultipart, OnUpload, OnArray, OnObject, Multipart!Next, Multipart!Parts
<1> QED BY Zenon, <1>1, MultipartKeeps, MultipartRests

(* The invariants of the parts, and what they begin with.                  *)
PartNames ==
    {"autosave", "gateway", "migrations", "requests", "rate", "async", "batch", "temp",
     "multipart", "uploads", "arrays", "objects", "pool"}
PartsInv ==
    /\ part \in PartNames
    /\ RequestInv /\ SaveInv /\ SaveRests /\ RateInv /\ AsyncInv /\ BatchInv
    /\ GatewayInv /\ PoolInv /\ TempInv /\ UploadInv /\ MultipartInv
    /\ Migrate!TypeOK /\ ArrayInv /\ ObjectInv

(* They hold at the start: of the arrays and the objects too, which are    *)
(* empty while another part moves.                                         *)
LEMMA PartsBegin == Init => PartsInv
<1> SUFFICES ASSUME Init PROVE PartsInv
    OBVIOUS
<1>1. /\ Saves!Init /\ Gateway!Init /\ Request!Init /\ Rate!Init /\ Temp!Init /\ Pool!Init
      /\ Async!Init /\ Upload!Init /\ Migrate!Init /\ Batch!Init /\ Multipart!Init
    BY Zenon DEF Init
<1>2. ArrayInv
    <2>1. Array!Init \/ (given = <<>> /\ other = <<>> /\ shuffled = <<>> /\ i = 0)
        BY Zenon DEF Init
    <2>2. CASE given = <<>> /\ other = <<>> /\ shuffled = <<>> /\ i = 0
        BY <2>2 DEF ArrayInv
    <2> QED BY Zenon, <2>1, <2>2, ArrayInit
<1>3. ObjectInv
    <2>1. Object!Init \/ (target = Object!Empty /\ source = Object!Empty /\ merged = FALSE)
        BY Zenon DEF Init
    <2>2. Object!Empty \in Object!Objects
        <3>1. Object!Empty \in [{} -> Object!LeafValues \cup {[object |-> o] : o \in Object!Within}]
            BY DEF Object!Empty
        <3> QED BY <3>1 DEF Object!Objects, Object!Of
    <2> QED BY Zenon, <2>1, <2>2, ObjectInit DEF ObjectInv
<1>4. part \in PartNames
    BY Zenon DEF Init, PartNames
<1> QED BY Zenon, <1>1, <1>2, <1>3, <1>4, RequestInit, SaveInit, SaveBegins, RateInit, AsyncInit, GatewayInit,
           PoolInit, TempInit, UploadInit, MigrateInit, BatchInit, MultipartInit DEF PartsInv

(* Every step keeps them.                                                  *)
LEMMA PartsNext == PartsInv /\ [Next]_vars => PartsInv'
<1>1. [Next]_vars => part' = part
    BY Zenon DEF Next, Services, Database, Utilities, vars,
           OnAuto, OnGateway, OnRequest, OnRate, OnMigrate, OnPool, OnAsync, OnBatch, OnTemp,
           OnMultipart, OnUpload, OnArray, OnObject
<1> QED BY Zenon, <1>1, RequestNext, SavesNext, RateNext, AsyncNext, GatewayNext, PoolNext, TempNext,
           UploadNext, MigrateNext, BatchNext, MultipartNext, ArrayNext, ObjectNext DEF PartsInv

(* What every part keeps is of its types.                                  *)
THEOREM TypesAlways == Spec => []TypeOK
<1>1. PartsInv => TypeOK
    BY Zenon, RequestKeeps, SavesKept, RateKept, AsyncKept, GatewayKept, PoolKept, TempKept,
       UploadKept, BatchKept, MultipartKept, ArrayKept, ObjectKept DEF PartsInv, PartNames, TypeOK
<1> QED BY <1>1, PartsBegin, PartsNext, PTL DEF Spec

(* Requests about avatars keep the default that was chosen last, no field  *)
(* that was written is lost and statistics add up; the autosaves outgrow   *)
(* their limit by what is in flight or has failed alone, and the newest    *)
(* holds the most unless saves overlapped; no more requests than the limit *)
(* pass while checks do not overlap; a lock is one caller's, a debounced   *)
(* function answers its newest call, a memoized one is executed once; and  *)
(* batches of one item, or of fewer items than may run at once, run no     *)
(* more than that and collect every result in its place.                   *)
THEOREM RequestsHoldAlways == Spec => []RequestsHold
<1>1. PartsInv => RequestsHold
    BY Zenon, RequestKeeps, SavesKept, RateKept, AsyncKept, BatchKept DEF PartsInv, RequestsHold
<1> QED BY <1>1, PartsBegin, PartsNext, PTL DEF Spec

(* The sockets' books name those that are there and no others, reports of  *)
(* the pool count its sessions and agree with themselves, every temporary  *)
(* file is accounted for, also when writing or unlinking fails, an         *)
(* upload's progress is reported as it is, and the map of uploads in parts *)
(* follows S3 unless it was cleared or its process ended.                  *)
THEOREM BooksAgreeAlways == Spec => []BooksAgree
<1>1. PartsInv => BooksAgree
    BY Zenon, GatewayKept, PoolKept, TempKept, UploadKept, MultipartKept DEF PartsInv, BooksAgree
<1> QED BY <1>1, PartsBegin, PartsNext, PTL DEF Spec
=============================================================================
