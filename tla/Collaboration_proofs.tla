------------------------ MODULE Collaboration_proofs ------------------------
(***************************************************************************)
(* Types, that strict clients leave no lock behind, and that the log of    *)
(* updates keeps the newest, for any users, sockets, designs and layers    *)
(* and any number of handlers in flight.                                   *)
(***************************************************************************)
EXTENDS Collaboration, FiniteSetTheorems, WellFoundedInduction, TLAPS

(* A strict client has one join in flight at most, and while it has, it is *)
(* in no other design.                                                     *)
JoinInv ==
    strict => \A h \in Tasks : At(h, "verify") =>
        /\ current[task[h].socket] \in {"none", task[h].design}
        /\ \A k \in Tasks \ {h} : ~(At(k, "verify") /\ task[k].socket = task[h].socket)

(* A handler that is in flight has a socket, and the design or layer that   *)
(* its step works on.                                                       *)
Sound(x) ==
    /\ x.step # "idle" => x.socket \in Sockets
    /\ x.step \in {"verify", "record", "trim", "keys", "scan", "free"} => x.design \in Designs
    /\ x.step \in {"unlock", "free"} => x.layer \in Layers
TaskInv == \A h \in Tasks : Sound(task[h])

IInv == TypeOK /\ TaskInv /\ (faults = 0 => JoinInv) /\ NoOrphanLocks

(* The two ways in which the user of a lock still stands behind it.        *)
Stays(l) ==
    \E s \in Sockets : Open(s) /\ UserOf[s] = lock[l] /\ current[s] = DesignOf[l]
Cleans(l) == \E h \in Tasks : WillReach(h, l) /\ User(h) = lock[l]

-----------------------------------------------------------------------------
(* What a handler does next: it begins a join only with a message.         *)
LEMMA MessageTask ==
    ASSUME TypeOK, NEW h \in Tasks, NEW s \in Sockets, Message(h, s)
    PROVE  \/ task' = task
           \/ \E x \in Task : /\ Sound(x)
                              /\ task' = [task EXCEPT ![h] = x]
                              /\ x.step = "verify" => Join(h, s)
                              /\ x.step # "trim"
<1> USE DEF TypeOK, Task, Idle, Steps, Sound, Become
<1>1. CASE Join(h, s)
  <2>1. PICK d \in Designs :
          Become(h, [Idle EXCEPT !.step = "verify", !.socket = s, !.design = d])
    BY <1>1 DEF Join
  <2> DEFINE x == [Idle EXCEPT !.step = "verify", !.socket = s, !.design = d]
  <2>2. x \in Task /\ Sound(x) /\ x.step # "trim"
    OBVIOUS
  <2>3. QED
    BY <1>1, <2>1, <2>2
<1>2. ASSUME NEW d \in Designs, Remove(h, s, d)
      PROVE  \E x \in Task : /\ Sound(x)
                             /\ task' = [task EXCEPT ![h] = x]
                             /\ x.step \notin {"verify", "trim"}
  <2> DEFINE x == [Idle EXCEPT !.step = "keys", !.socket = s, !.design = d]
  <2>1. x \in Task /\ Sound(x) /\ x.step \notin {"verify", "trim"}
    OBVIOUS
  <2>2. QED
    BY <1>2, <2>1 DEF Remove
<1>3. CASE Leave(h, s)
  BY <1>2, <1>3 DEF Leave
<1>4. CASE Close(h, s)
  BY <1>2, <1>4 DEF Close
<1>5. CASE UnlockCheck(h, s)
  <2>1. PICK l \in Layers :
          Become(h, [Idle EXCEPT !.step = "unlock", !.socket = s, !.layer = l])
    BY <1>5 DEF UnlockCheck
  <2> DEFINE x == [Idle EXCEPT !.step = "unlock", !.socket = s, !.layer = l]
  <2>2. x \in Task /\ Sound(x) /\ x.step \notin {"verify", "trim"}
    OBVIOUS
  <2>3. QED
    BY <2>1, <2>2
<1>6. CASE UpdateLayer(h, s) \/ Update(h, s)
  <2>1. PICK d \in Designs :
          Become(h, [Idle EXCEPT !.step = "record", !.socket = s, !.design = d])
    BY <1>6, PeopleAssumption DEF UpdateLayer, Update
  <2> DEFINE x == [Idle EXCEPT !.step = "record", !.socket = s, !.design = d]
  <2>2. x \in Task /\ Sound(x) /\ x.step \notin {"verify", "trim"}
    OBVIOUS
  <2>3. QED
    BY <2>1, <2>2
<1>7. QED
  BY <1>1, <1>3, <1>4, <1>5, <1>6 DEF Message

(* A handler that goes on, or fails, stays sound and begins no join.       *)
LEMMA HandlerTask ==
    ASSUME TypeOK, TaskInv, NEW h \in Tasks, Handler(h) \/ TaskFails(h)
    PROVE  \E x \in Task : /\ Sound(x)
                           /\ task' = [task EXCEPT ![h] = x]
                           /\ x.step # "verify"
<1> USE DEF Task, Steps, Sound, Become, At
<1>0. task[h] \in Task /\ Sound(task[h])
  BY DEF TypeOK, TaskInv
<1>1. CASE Become(h, Idle)
  <2>1. Idle \in Task /\ Sound(Idle) /\ Idle.step # "verify"
    BY DEF Idle
  <2>2. QED
    BY <1>1, <2>1
<1>2. CASE ReleaseKeys(h)
  <2> DEFINE locked == {l \in Layers : DesignOf[l] = task[h].design /\ lock[l] # "none"}
             x == [task[h] EXCEPT !.step = "scan", !.todo = locked]
  <2>1. x \in Task /\ Sound(x) /\ x.step # "verify"
    BY <1>0, <1>2 DEF ReleaseKeys
  <2>2. QED
    BY <1>2, <2>1 DEF ReleaseKeys
<1>3. ASSUME ReleaseCheck(h), ~Become(h, Idle)
      PROVE  \E x \in Task : /\ Sound(x)
                             /\ task' = [task EXCEPT ![h] = x]
                             /\ x.step # "verify"
  <2>1. PICK l \in task[h].todo :
          Become(h, [task[h] EXCEPT
                       !.step = IF lock[l] = User(h) THEN "free" ELSE "scan",
                       !.layer = l,
                       !.todo = @ \ {l}])
    BY <1>3 DEF ReleaseCheck
  <2> DEFINE x == [task[h] EXCEPT !.step = IF lock[l] = User(h) THEN "free" ELSE "scan",
                                  !.layer = l,
                                  !.todo = @ \ {l}]
  <2>2. x \in Task /\ Sound(x) /\ x.step # "verify"
    BY <1>0, <1>3 DEF ReleaseCheck
  <2>3. QED
    BY <2>1, <2>2
<1>4. CASE ReleaseFree(h) \/ Record(h)
  <2>1. PICK a \in {"scan", "trim"} : Become(h, [task[h] EXCEPT !.step = a])
    BY <1>4 DEF ReleaseFree, Record
  <2> DEFINE x == [task[h] EXCEPT !.step = a]
  <2>2. x \in Task /\ Sound(x) /\ x.step # "verify"
    BY <1>0, <1>4 DEF ReleaseFree, Record
  <2>3. QED
    BY <2>1, <2>2
<1>5. QED
  BY <1>1, <1>2, <1>3, <1>4 DEF Handler, Enter, Unlock, Trim, TaskFails

(* One handler at a sound next step leaves all of them sound.              *)
LEMMA TaskTypes ==
    ASSUME TypeOK, TaskInv, NEW h \in Tasks, NEW x \in Task, Sound(x),
           task' = [task EXCEPT ![h] = x]
    PROVE  task' \in [Tasks -> Task] /\ TaskInv'
BY DEF TypeOK, TaskInv

(* One write to a hash of active users.                                    *)
LEMMA PresenceTypes ==
    ASSUME present \in [Designs -> [Users -> Sockets \cup {"none"}]],
           NEW d \in Designs, NEW s \in Sockets, NEW x \in Sockets \cup {"none"},
           present' = [present EXCEPT ![d][UserOf[s]] = x]
    PROVE  present' \in [Designs -> [Users -> Sockets \cup {"none"}]]
BY PeopleAssumption

(* Every handler, message and fault keeps the variables in their types,    *)
(* and a handler in flight keeps its socket, design and layer.             *)
LEMMA TypeStep ==
    ASSUME TypeOK, TaskInv, [Next]_vars
    PROVE  TypeOK' /\ TaskInv'
<1> USE PeopleAssumption, BoundAssumption DEF sessions, logs, bounds
<1> DEFINE Rest ==
             /\ link \in [Sockets -> {"new", "open", "gone"}]
             /\ rooms \in [Sockets -> SUBSET Designs]
             /\ current \in [Sockets -> Designs \cup {"none"}]
             /\ present \in [Designs -> [Users -> Sockets \cup {"none"}]]
             /\ lock \in [Layers -> Users \cup {"none"}]
             /\ log \in [Designs -> SUBSET Nat]
             /\ count \in [Designs -> Nat]
             /\ strict \in BOOLEAN
             /\ expiries \in 0..MaxExpiries
             /\ faults \in 0..MaxFaults
<1>1. Rest /\ task \in [Tasks -> Task]
  BY DEF TypeOK
<1>2. ASSUME Rest', task' \in [Tasks -> Task], TaskInv'
      PROVE  TypeOK' /\ TaskInv'
  BY <1>2 DEF TypeOK
<1>3. ASSUME UNCHANGED task
      PROVE  task' \in [Tasks -> Task] /\ TaskInv'
  BY <1>1, <1>3 DEF TaskInv
<1>4. ASSUME NEW s \in Sockets, Connect(s) \/ LockLayer(s)
      PROVE  Rest' /\ UNCHANGED task
  <2>1. CASE Connect(s)
    BY <1>1, <2>1 DEF Connect
  <2>2. CASE LockLayer(s)
    <3>1. lock' \in [Layers -> Users \cup {"none"}]
      BY <1>1, <2>2 DEF LockLayer
    <3>2. QED
      BY <1>1, <2>2, <3>1 DEF LockLayer
  <2>3. QED
    BY <1>4, <2>1, <2>2
<1>5. ASSUME NEW h \in Tasks, NEW s \in Sockets, Message(h, s)
      PROVE  Rest' /\ task' \in [Tasks -> Task] /\ TaskInv'
  <2>1. task' \in [Tasks -> Task] /\ TaskInv'
    BY <1>3, <1>5, MessageTask, TaskTypes
  <2>2. CASE Leave(h, s)
    BY <1>1, <2>1, <2>2 DEF Leave, Remove
  <2>3. CASE Close(h, s)
    <3>1. present' \in [Designs -> [Users -> Sockets \cup {"none"}]]
      <4>1. CASE current[s] = "none"
        BY <1>1, <2>3, <4>1 DEF Close
      <4>2. CASE current[s] # "none"
        <5>1. current[s] \in Designs
          BY <1>1, <4>2
        <5>2. present' = [present EXCEPT ![current[s]][UserOf[s]] = "none"]
          BY <2>3, <4>2 DEF Close, Remove
        <5>3. QED
          BY <1>1, <5>1, <5>2, PresenceTypes
      <4>3. QED
        BY <4>1, <4>2
    <3>2. /\ link' \in [Sockets -> {"new", "open", "gone"}]
          /\ rooms' \in [Sockets -> SUBSET Designs]
      BY <1>1, <2>3 DEF Close
    <3>3. UNCHANGED <<current, lock, logs, bounds>>
      BY <2>3 DEF Close
    <3>4. QED
      BY <1>1, <2>1, <3>1, <3>2, <3>3
  <2>4. CASE Join(h, s) \/ UnlockCheck(h, s) \/ UpdateLayer(h, s) \/ Update(h, s)
    BY <1>1, <2>1, <2>4 DEF Join, UnlockCheck, UpdateLayer, Update
  <2>5. QED
    BY <1>5, <2>2, <2>3, <2>4 DEF Message
<1>6. ASSUME NEW h \in Tasks, Handler(h) \/ TaskFails(h)
      PROVE  Rest' /\ task' \in [Tasks -> Task] /\ TaskInv'
  <2>1. task' \in [Tasks -> Task] /\ TaskInv'
    BY <1>6, HandlerTask, TaskTypes
  <2>2. Sound(task[h])
    BY DEF TaskInv
  <2>3. CASE Enter(h)
    <3>1. task[h].socket \in Sockets /\ task[h].design \in Designs
      BY <2>2, <2>3 DEF Enter, Sound, At
    <3> DEFINE s == task[h].socket
               d == task[h].design
    <3>2. \/ /\ rooms' = [rooms EXCEPT ![s] = (@ \ {current[s]}) \cup {d}]
             /\ current' = [current EXCEPT ![s] = d]
             /\ present' = [present EXCEPT ![d][UserOf[s]] = s]
          \/ UNCHANGED <<rooms, current, present>>
      BY <2>3 DEF Enter
    <3> HIDE DEF s, d
    <3>6. s \in Sockets /\ d \in Designs
      BY <3>1 DEF s, d
    <3>7. present' \in [Designs -> [Users -> Sockets \cup {"none"}]]
      BY <1>1, <3>2, <3>6, PresenceTypes
    <3>8. current' \in [Sockets -> Designs \cup {"none"}]
      BY <1>1, <3>2, <3>6
    <3>9. ((rooms[s] \ {current[s]}) \cup {d}) \in SUBSET Designs
      BY <1>1, <3>6
    <3>3. rooms' \in [Sockets -> SUBSET Designs]
      BY <1>1, <3>2, <3>6, <3>9
    <3>4. UNCHANGED <<link, lock, logs, bounds>>
      BY <2>3 DEF Enter
    <3>5. QED
      BY <1>1, <2>1, <3>3, <3>4, <3>7, <3>8
  <2>4. CASE Unlock(h) \/ ReleaseFree(h)
    BY <1>1, <2>1, <2>2, <2>4 DEF Unlock, ReleaseFree, Sound, At
  <2>5. CASE ReleaseKeys(h) \/ ReleaseCheck(h)
    BY <1>1, <2>1, <2>5 DEF ReleaseKeys, ReleaseCheck
  <2>8. CASE TaskFails(h)
    BY <1>1, <2>1, <2>8 DEF TaskFails
  <2>6. CASE Record(h) \/ Trim(h)
    <3>1. task[h].design \in Designs
      BY <2>2, <2>6 DEF Record, Trim, Sound, At
    <3>2. UNCHANGED <<link, rooms, current, present, lock, strict, expiries, faults>>
      BY <2>6 DEF Record, Trim
    <3>3. count' \in [Designs -> Nat] /\ log' \in [Designs -> SUBSET Nat]
      <4>1. CASE Record(h)
        BY <1>1, <3>1, <4>1 DEF Record
      <4>2. CASE Trim(h)
        BY <1>1, <3>1, <4>2 DEF Trim, Newest
      <4>3. QED
        BY <2>6, <4>1, <4>2
    <3>4. QED
      BY <1>1, <2>1, <3>2, <3>3
  <2>7. QED
    BY <1>6, <2>3, <2>4, <2>5, <2>6, <2>8 DEF Handler
<1>7. ASSUME NEW l \in Layers, LockExpires(l)
      PROVE  Rest' /\ UNCHANGED task
  BY <1>1, <1>7 DEF LockExpires
<1>8. ASSUME NEW d \in Designs, PresenceExpires(d) \/ LogExpires(d)
      PROVE  Rest' /\ UNCHANGED task
  <2>1. CASE PresenceExpires(d)
    <3>1. present' \in [Designs -> [Users -> Sockets \cup {"none"}]]
      BY <1>1, <2>1 DEF PresenceExpires
    <3>2. QED
      BY <1>1, <2>1, <3>1 DEF PresenceExpires
  <2>2. CASE LogExpires(d)
    <3>1. log' \in [Designs -> SUBSET Nat] /\ count' \in [Designs -> Nat]
      BY <1>1, <2>2 DEF LogExpires
    <3>2. QED
      BY <1>1, <2>2, <3>1 DEF LogExpires
  <2>3. QED
    BY <1>8, <2>1, <2>2
<1>9. CASE Crash
  <2>1. Rest'
    BY <1>1, <1>9 DEF Crash, Open
  <2>2. task' = [h \in Tasks |-> Idle] /\ Idle \in Task /\ Sound(Idle)
    BY <1>9 DEF Crash, Idle, Task, Steps, Sound
  <2>3. QED
    BY <1>2, <2>1, <2>2 DEF TaskInv
<1>10. CASE UNCHANGED vars
  <2>1. Rest' /\ UNCHANGED task
    BY <1>1, <1>10 DEF vars
  <2>2. QED
    BY <1>2, <1>3, <2>1
<1>11. QED
  BY <1>2, <1>3, <1>4, <1>5, <1>6, <1>7, <1>8, <1>9, <1>10 DEF Next

-----------------------------------------------------------------------------
(* A step that starts no join and moves no socket to another design leaves *)
(* the joins in order: some sockets may have left theirs.                  *)
LEMMA JoinsKept ==
    ASSUME TypeOK, TaskInv, JoinInv, strict' = strict,
           \A s \in Sockets : current'[s] \in {current[s], "none"},
           \A h \in Tasks : At(h, "verify")' => task'[h] = task[h]
    PROVE  JoinInv'
BY DEF TypeOK, TaskInv, Sound, JoinInv, At

(* Without a fault after a step there was none before it, and clients do   *)
(* not change their habits.                                                *)
LEMMA NoFaultStep ==
    ASSUME TypeOK, [Next]_vars, faults' = 0
    PROVE  faults = 0 /\ strict' = strict
<1> USE DEF bounds
<1>1. ASSUME NEW s \in Sockets, Connect(s) \/ LockLayer(s)
      PROVE  UNCHANGED <<strict, faults>>
  BY <1>1 DEF Connect, LockLayer
<1>2. ASSUME NEW h \in Tasks, NEW s \in Sockets, Message(h, s)
      PROVE  UNCHANGED <<strict, faults>>
  BY <1>2 DEF Message, Join, Leave, Close, UnlockCheck, UpdateLayer, Update
<1>3. ASSUME NEW h \in Tasks, Handler(h)
      PROVE  UNCHANGED <<strict, faults>>
  BY <1>3 DEF Handler, Enter, Unlock, ReleaseKeys, ReleaseCheck, ReleaseFree, Record, Trim
<1>4. ASSUME NEW h \in Tasks, TaskFails(h)
      PROVE  FALSE
  BY <1>4, BoundAssumption DEF TaskFails, TypeOK
<1>5. CASE Crash
  BY <1>5, BoundAssumption DEF Crash, TypeOK
<1>6. CASE \/ \E l \in Layers : LockExpires(l)
           \/ \E d \in Designs : PresenceExpires(d) \/ LogExpires(d)
           \/ UNCHANGED vars
  BY <1>6 DEF LockExpires, PresenceExpires, LogExpires, vars
<1>7. QED
  BY <1>1, <1>2, <1>3, <1>4, <1>5, <1>6 DEF Next

(* A strict client never has two joins in flight, nor a join while it is   *)
(* in another design, whatever the other handlers do.                      *)
LEMMA JoinStep ==
    ASSUME TypeOK, TaskInv, faults = 0 => JoinInv, [Next]_vars, faults' = 0
    PROVE  JoinInv'
<1> USE DEF Become, Idle, Arrives, sessions, logs, bounds
<1>0. faults = 0 /\ JoinInv /\ strict' = strict
  BY NoFaultStep
<1>1. ASSUME NEW h \in Tasks, NEW s \in Sockets, Join(h, s)
      PROVE  JoinInv'
  <2>1. PICK d \in Designs :
          /\ strict => /\ current[s] \in {"none", d}
                       /\ \A k \in Tasks : ~(At(k, "verify") /\ task[k].socket = s)
          /\ task' = [task EXCEPT ![h] = [Idle EXCEPT !.step = "verify", !.socket = s,
                                                      !.design = d]]
    BY <1>1 DEF Join
  <2>2. current' = current
    BY <1>1 DEF Join
  <2>3. task'[h].socket = s /\ task'[h].design = d
    BY <2>1 DEF TypeOK
  <2>4. \A k \in Tasks \ {h} : task'[k] = task[k]
    BY <2>1 DEF TypeOK
  <2>5. QED
    BY <1>0, <2>1, <2>2, <2>3, <2>4 DEF JoinInv, At
<1>2. ASSUME NEW h \in Tasks, Enter(h)
      PROVE  JoinInv'
  <2>1. /\ At(h, "verify")
        /\ task' = [task EXCEPT ![h] = Idle]
        /\ \A s \in Sockets \ {task[h].socket} : current'[s] = current[s]
    BY <1>2 DEF Enter, TypeOK
  <2>2. ~At(h, "verify")'
    BY <2>1 DEF TypeOK, At
  <2>3. \A k \in Tasks \ {h} : task'[k] = task[k]
    BY <2>1 DEF TypeOK
  <2>4. QED
    BY <1>0, <2>1, <2>2, <2>3 DEF JoinInv, At, TaskInv, Sound
<1>3. ASSUME NEW h \in Tasks,
             \/ \E s \in Sockets : Message(h, s) /\ ~Join(h, s)
             \/ (Handler(h) /\ ~Enter(h)) \/ TaskFails(h)
      PROVE  JoinInv'
  <2>1. \A s \in Sockets : current'[s] \in {current[s], "none"}
    BY <1>3 DEF TypeOK, Message, Leave, Close, UnlockCheck, UpdateLayer, Update, Handler,
       Unlock, ReleaseKeys, ReleaseCheck, ReleaseFree, Record, Trim, TaskFails
  <2>2. \/ task' = task
        \/ \E x \in Task : x.step # "verify" /\ task' = [task EXCEPT ![h] = x]
    BY <1>3, MessageTask, HandlerTask
  <2>3. \A k \in Tasks : At(k, "verify")' => task'[k] = task[k]
    BY <2>2 DEF TypeOK, At
  <2>4. QED
    BY <1>0, <2>1, <2>3, JoinsKept
<1>4. ASSUME UNCHANGED <<current, task>>
      PROVE  JoinInv'
  BY <1>0, <1>4, JoinsKept
<1>5. ~Crash
  BY <1>0 DEF Crash
<1>6. QED
  BY <1>1, <1>2, <1>3, <1>4, <1>5 DEF Next, vars, Connect, LockLayer, LockExpires,
     PresenceExpires, LogExpires

-----------------------------------------------------------------------------
(* A handler that is not releasing locks, neither before nor after a step, *)
(* has no part in who cleans up.                                           *)
LEMMA CleansKept ==
    ASSUME TypeOK, NEW h \in Tasks, NEW x \in Task, NEW l \in Layers, Cleans(l),
           task[h].step \notin {"keys", "scan", "free"},
           task' = [task EXCEPT ![h] = x], lock'[l] = lock[l]
    PROVE  Cleans(l)'
<1>1. PICK k \in Tasks : WillReach(k, l) /\ User(k) = lock[l]
  BY DEF Cleans
<1>2. k # h
  BY <1>1 DEF WillReach, At
<1>3. task'[k] = task[k]
  BY <1>2 DEF TypeOK
<1>4. QED
  BY <1>1, <1>3 DEF Cleans, WillReach, User, At

(* The step of one action for one layer that is locked after it: either    *)
(* the lock is new and its socket is open and in the design, or the user   *)
(* who stood behind it still does.  A socket that leaves or closes hands   *)
(* over to the cleanup it starts; the cleanup keeps the layer on its list  *)
(* until it has read the lock.                                             *)
LEMMA OrphanMessage ==
    ASSUME TypeOK, TaskInv, NEW h \in Tasks, NEW s \in Sockets, Message(h, s),
           NEW l \in Layers, strict, lock[l] # "none", Stays(l) \/ Cleans(l)
    PROVE  Stays(l)' \/ Cleans(l)'
<1>0. lock' = lock /\ At(h, "idle") /\ Open(s)
  BY DEF Message, Join, Leave, Close, UnlockCheck, UpdateLayer, Update, Arrives
<1>1. CASE Cleans(l)
  <2>1. CASE task' = task
    BY <1>0, <1>1, <2>1 DEF Cleans, WillReach, User, At
  <2>2. ASSUME NEW x \in Task, task' = [task EXCEPT ![h] = x]
        PROVE  Cleans(l)'
    BY <1>0, <1>1, <2>2, CleansKept DEF At
  <2>3. QED
    BY <2>1, <2>2, MessageTask
<1>2. CASE Stays(l)
  <2>1. PICK w \in Sockets : Open(w) /\ UserOf[w] = lock[l] /\ current[w] = DesignOf[l]
    BY <1>2 DEF Stays
  <2>2. ASSUME Remove(h, s, DesignOf[l]), w = s
        PROVE  Cleans(l)'
    <3>1. task'[h] = [Idle EXCEPT !.step = "keys", !.socket = s, !.design = DesignOf[l]]
      BY <2>2 DEF Remove, Become, TypeOK
    <3>2. /\ task'[h].step = "keys"
          /\ task'[h].socket = s
          /\ task'[h].design = DesignOf[l]
      BY <3>1 DEF Idle
    <3>3. QED
      BY <1>0, <2>1, <2>2, <3>2 DEF Cleans, WillReach, User, At
  <2>3. ASSUME current'[w] = current[w], link'[w] = link[w]
        PROVE  Stays(l)'
    BY <1>0, <2>1, <2>3 DEF Stays, Open
  <2>4. CASE Leave(h, s)
    BY <2>1, <2>2, <2>3, <2>4 DEF Leave, TypeOK
  <2>5. CASE Close(h, s)
    BY <2>1, <2>2, <2>3, <2>5, PeopleAssumption DEF Close, TypeOK
  <2>6. CASE Join(h, s) \/ UnlockCheck(h, s) \/ UpdateLayer(h, s) \/ Update(h, s)
    BY <2>3, <2>6 DEF Join, UnlockCheck, UpdateLayer, Update, sessions
  <2>7. QED
    BY <2>4, <2>5, <2>6 DEF Message
<1>3. QED
  BY <1>1, <1>2

(* The same for the handlers: a join in flight does not take its socket    *)
(* away from the design, and a cleanup loses a layer only by freeing it or *)
(* by reading the lock of somebody else.                                   *)
LEMMA OrphanHandler ==
    ASSUME TypeOK, TaskInv, JoinInv, NEW h \in Tasks, Handler(h),
           NEW l \in Layers, strict, lock'[l] # "none", Stays(l) \/ Cleans(l)
    PROVE  Stays(l)' \/ Cleans(l)'
<1>0. lock'[l] = lock[l]
  BY DEF Handler, Enter, Unlock, ReleaseKeys, ReleaseCheck, ReleaseFree, Record, Trim, TypeOK
<1>1. CASE Stays(l)
  <2>1. PICK w \in Sockets : Open(w) /\ UserOf[w] = lock[l] /\ current[w] = DesignOf[l]
    BY <1>1 DEF Stays
  <2>2. link' = link
    BY DEF Handler, Enter, Unlock, ReleaseKeys, ReleaseCheck, ReleaseFree, Record, Trim, sessions
  <2>3. current'[w] = current[w]
    <3>1. CASE Enter(h)
      <4>1. CASE w = task[h].socket
        <5>1. current[w] \in {"none", task[h].design}
          BY <3>1, <4>1 DEF JoinInv, Enter
        <5>2. DesignOf[l] # "none"
          BY PeopleAssumption
        <5>3. QED
          BY <2>1, <3>1, <4>1, <5>1, <5>2 DEF Enter, TypeOK
      <4>2. CASE w # task[h].socket
        BY <3>1, <4>2 DEF Enter, TypeOK
      <4>3. QED
        BY <4>1, <4>2
    <3>2. CASE ~Enter(h)
      BY <3>2 DEF Handler, Unlock, ReleaseKeys, ReleaseCheck, ReleaseFree, Record, Trim, sessions
    <3>3. QED
      BY <3>1, <3>2
  <2>4. QED
    BY <1>0, <2>1, <2>2, <2>3 DEF Stays, Open
<1>2. ASSUME NEW k \in Tasks, WillReach(k, l), User(k) = lock[l], k # h
      PROVE  Cleans(l)'
  <2>1. PICK x \in Task : task' = [task EXCEPT ![h] = x]
    BY HandlerTask
  <2>2. task'[k] = task[k]
    BY <1>2, <2>1 DEF TypeOK
  <2>3. QED
    BY <1>0, <1>2, <2>2 DEF Cleans, WillReach, User, At
<1>3. ASSUME WillReach(h, l), User(h) = lock[l]
      PROVE  Cleans(l)'
  <2>0. task[h] \in Task /\ lock[l] # "none"
    BY <1>0 DEF TypeOK
  <2>1. ASSUME task'[h].socket = task[h].socket, task'[h].design = task[h].design,
               \/ task'[h].step = "scan" /\ l \in task'[h].todo
               \/ task'[h].step = "free" /\ (l = task'[h].layer \/ l \in task'[h].todo)
        PROVE  Cleans(l)'
    BY <1>0, <1>3, <2>1 DEF Cleans, WillReach, User, At
  <2>2. CASE ReleaseKeys(h)
    <3> DEFINE locked == {m \in Layers : DesignOf[m] = task[h].design /\ lock[m] # "none"}
    <3>1. l \in locked
      BY <1>3, <2>0 DEF WillReach
    <3>2. task'[h] = [task[h] EXCEPT !.step = "scan", !.todo = locked]
      BY <2>2 DEF ReleaseKeys, Become, TypeOK
    <3>3. QED
      BY <2>0, <2>1, <3>1, <3>2 DEF Task
  <2>3. CASE ReleaseCheck(h)
    <3>1. l \in task[h].todo
      BY <1>3, <2>3 DEF WillReach, ReleaseCheck, At
    <3>2. PICK m \in task[h].todo :
            Become(h, [task[h] EXCEPT
                         !.step = IF lock[m] = User(h) THEN "free" ELSE "scan",
                         !.layer = m,
                         !.todo = @ \ {m}])
      BY <2>3, <3>1 DEF ReleaseCheck
    <3> DEFINE next == IF lock[m] = User(h) THEN "free" ELSE "scan"
    <3>3. task'[h] = [task[h] EXCEPT !.step = next, !.layer = m, !.todo = @ \ {m}]
      BY <3>2 DEF Become, TypeOK
    <3>4. /\ task'[h].socket = task[h].socket
          /\ task'[h].design = task[h].design
          /\ task'[h].step = next
          /\ task'[h].layer = m
          /\ task'[h].todo = task[h].todo \ {m}
      BY <2>0, <3>3 DEF Task
    <3>5. CASE m = l
      BY <1>3, <2>1, <3>4, <3>5
    <3>6. CASE m # l
      BY <2>1, <3>1, <3>4, <3>6
    <3>7. QED
      BY <3>5, <3>6
  <2>4. CASE ReleaseFree(h)
    <3>1. l # task[h].layer
      BY <2>4 DEF ReleaseFree, TypeOK
    <3>2. l \in task[h].todo
      BY <1>3, <2>4, <3>1 DEF WillReach, ReleaseFree, At
    <3>3. task'[h] = [task[h] EXCEPT !.step = "scan"]
      BY <2>4 DEF ReleaseFree, Become, TypeOK
    <3>4. QED
      BY <2>0, <2>1, <3>2, <3>3 DEF Task
  <2>5. QED
    BY <1>3, <2>2, <2>3, <2>4 DEF Handler, Enter, Unlock, Record, Trim, WillReach, At
<1>4. QED
  BY <1>1, <1>2, <1>3 DEF Cleans

(* No step makes an orphan of a lock.                                      *)
LEMMA OrphanStep ==
    ASSUME TypeOK, TaskInv, faults = 0 => JoinInv, NoOrphanLocks, [Next]_vars
    PROVE  NoOrphanLocks'
<1> SUFFICES ASSUME strict', faults' = 0, NEW l \in Layers, lock'[l] # "none"
             PROVE  Stays(l)' \/ Cleans(l)'
  BY DEF NoOrphanLocks, Stays, Cleans
<1>1. faults = 0 /\ strict
  BY NoFaultStep
<1>2. ASSUME lock[l] # "none"
      PROVE  Stays(l) \/ Cleans(l)
  BY <1>1, <1>2 DEF NoOrphanLocks, Stays, Cleans
<1>3. ASSUME lock'[l] = lock[l], UNCHANGED <<current, task>>,
             \A s \in Sockets : Open(s) => Open(s)'
      PROVE  Stays(l)' \/ Cleans(l)'
  BY <1>2, <1>3 DEF Stays, Cleans, WillReach, User, At
<1>4. ASSUME NEW s \in Sockets, Connect(s)
      PROVE  Stays(l)' \/ Cleans(l)'
  BY <1>3, <1>4 DEF Connect, Open, TypeOK
<1>5. ASSUME NEW s \in Sockets, LockLayer(s)
      PROVE  Stays(l)' \/ Cleans(l)'
  <2>1. CASE lock'[l] = lock[l]
    BY <1>3, <1>5, <2>1 DEF LockLayer, sessions, Open
  <2>2. CASE lock'[l] # lock[l]
    BY <1>1, <1>5, <2>2 DEF LockLayer, sessions, Open, Stays, TypeOK
  <2>3. QED
    BY <2>1, <2>2
<1>6. ASSUME NEW h \in Tasks, NEW s \in Sockets, Message(h, s)
      PROVE  Stays(l)' \/ Cleans(l)'
  <2>1. lock' = lock
    BY <1>6 DEF Message, Join, Leave, Close, UnlockCheck, UpdateLayer, Update
  <2>2. QED
    BY <1>1, <1>2, <1>6, <2>1, OrphanMessage
<1>7. ASSUME NEW h \in Tasks, Handler(h)
      PROVE  Stays(l)' \/ Cleans(l)'
  <2>1. lock[l] # "none"
    BY <1>7 DEF Handler, Enter, Unlock, ReleaseKeys, ReleaseCheck, ReleaseFree, Record, Trim,
       TypeOK
  <2>2. QED
    BY <1>1, <1>2, <1>7, <2>1, OrphanHandler
<1>8. ASSUME NEW m \in Layers, LockExpires(m)
      PROVE  Stays(l)' \/ Cleans(l)'
  BY <1>3, <1>8 DEF LockExpires, sessions, Open, TypeOK
<1>9. CASE \/ \E d \in Designs : PresenceExpires(d) \/ LogExpires(d)
           \/ UNCHANGED vars
  BY <1>3, <1>9 DEF PresenceExpires, LogExpires, sessions, Open, vars
<1>10. ~Crash /\ \A h \in Tasks : ~TaskFails(h)
  BY <1>1 DEF Crash, TaskFails
<1>11. QED
  BY <1>4, <1>5, <1>6, <1>7, <1>8, <1>9, <1>10 DEF Next

-----------------------------------------------------------------------------
(* The log of updates.                                                     *)

(* A finite set of numbers has a smallest one: a smallest subset without   *)
(* one would lose it with any of its elements.                             *)
LEMMA SmallestNumber ==
    ASSUME NEW S \in SUBSET Nat, IsFiniteSet(S), S # {}
    PROVE  \E m \in S : \A i \in S : m <= i
<1> DEFINE Based(U) == \E m \in U : \A i \in U : m <= i
           T == {U \in SUBSET S : U # {} /\ ~Based(U)}
<1>1. SUFFICES ASSUME T # {} PROVE FALSE
  OBVIOUS
<1>2. IsWellFoundedOn(StrictSubsetOrdering(S), SUBSET S)
  BY FS_StrictSubsetOrderingWellFounded, FS_FiniteSubsetsOfFinite
<1>3. PICK U \in T : \A V \in T : <<V, U>> \notin StrictSubsetOrdering(S)
  <2>1. T \subseteq SUBSET S
    OBVIOUS
  <2> HIDE DEF T
  <2> QED
    BY <1>1, <1>2, <2>1, WFMin
<1>4. PICK x \in U : TRUE
  OBVIOUS
<1> DEFINE V == U \ {x}
<1>5. V \subseteq U /\ V # U /\ V \in SUBSET S
  BY <1>4
<1>6. V \notin T
  <2>1. <<V, U>> \in StrictSubsetOrdering(S)
    BY <1>5 DEF StrictSubsetOrdering
  <2> QED
    BY <1>3, <2>1
<1>7. \A k \in U : k \in Nat
  OBVIOUS
<1>8. CASE V = {}
  <2>1. U = {x}
    BY <1>4, <1>8
  <2> QED
    BY <1>7, <2>1
<1>9. CASE V # {}
  <2>1. PICK m \in V : \A k \in V : m <= k
    BY <1>5, <1>6, <1>9
  <2>2. CASE m <= x
    BY <1>5, <1>7, <2>1, <2>2
  <2>3. CASE m > x
    BY <1>4, <1>7, <2>1, <2>3
  <2> QED
    BY <1>4, <1>5, <1>7, <2>1, <2>2, <2>3
<1> QED
  BY <1>8, <1>9

(* Of a finite set, the n newest numbers are n at most.                    *)
LEMMA NewestAreFew ==
    ASSUME NEW S \in SUBSET Nat, IsFiniteSet(S), NEW n \in Nat
    PROVE  Cardinality(Newest(S, n)) <= n
<1> DEFINE T == Newest(S, n)
<1>1. T \in SUBSET S /\ IsFiniteSet(T)
  BY FS_Subset DEF Newest
<1>2. CASE T = {}
  BY <1>2, FS_EmptySet
<1>3. CASE T # {}
  <2>1. PICK m \in T : \A i \in T : m <= i
    <3> HIDE DEF T
    <3> QED
      BY <1>1, <1>3, SmallestNumber
  <2> DEFINE L == {j \in S : j > m}
  <2>2. IsFiniteSet(L) /\ Cardinality(L) < n
    BY <2>1, FS_Subset DEF Newest
  <2> HIDE DEF T
  <2>3. T \ {m} \in SUBSET L
    BY <1>1, <2>1
  <2> HIDE DEF L
  <2>4. Cardinality(T \ {m}) <= Cardinality(L) /\ Cardinality(T \ {m}) = Cardinality(T) - 1
    BY <1>1, <2>1, <2>2, <2>3, FS_Subset, FS_RemoveElement
  <2>5. Cardinality(T) \in Nat /\ Cardinality(L) \in Nat
    BY <1>1, <2>2, FS_CardinalityType
  <2> QED
    BY <2>2, <2>4, <2>5 DEF T
<1> QED
  BY <1>2, <1>3

(* What the log of a design has: updates that were recorded, the newest    *)
(* LogCap of them, and more only while somebody is about to trim it.       *)
Trimmers(d) == {h \in Tasks : At(h, "trim") /\ task[h].design = d}
LogOf(d) ==
    /\ log[d] \subseteq 1..count[d]
    /\ \A i \in 1..count[d] : i + LogCap > count[d] => i \in log[d]
    /\ faults = 0 => Cardinality(log[d]) <= LogCap + Cardinality(Trimmers(d))
LogInv == \A d \in Designs : LogOf(d)

(* Handlers that neither record nor trim are not among the trimmers,       *)
(* neither before nor after their step.                                    *)
LEMMA TrimmersKept ==
    ASSUME TypeOK, NEW h \in Tasks, NEW d \in Designs,
           \/ \E s \in Sockets : Message(h, s)
           \/ Handler(h) /\ ~Record(h) /\ ~Trim(h)
    PROVE  Trimmers(d)' = Trimmers(d)
<1> USE DEF At, Become
<1>1. ASSUME NEW x, task' = [task EXCEPT ![h] = x], x.step # "trim", ~At(h, "trim")
      PROVE  Trimmers(d)' = Trimmers(d)
  BY <1>1 DEF TypeOK, Trimmers
<1>2. ASSUME UNCHANGED task
      PROVE  Trimmers(d)' = Trimmers(d)
  BY <1>2 DEF Trimmers
<1>3. CASE \E s \in Sockets : Message(h, s)
  <2>1. PICK s \in Sockets : Message(h, s)
    BY <1>3
  <2>2. \/ UNCHANGED task
        \/ \E x : task' = [task EXCEPT ![h] = x] /\ x.step # "trim"
    BY <2>1, MessageTask
  <2>3. ~At(h, "trim")
    BY <2>1 DEF Message, Join, Leave, Close, Remove, UnlockCheck, UpdateLayer, Update, Arrives
  <2> QED
    BY <1>1, <1>2, <2>2, <2>3
<1>4. CASE Handler(h) /\ ~Record(h) /\ ~Trim(h)
  <2>1. task[h] \in Task
    BY DEF TypeOK
  <2>2. \E x : task' = [task EXCEPT ![h] = x] /\ x.step # "trim"
    <3>1. CASE Enter(h) \/ Unlock(h)
      BY <3>1 DEF Enter, Unlock, Idle
    <3>2. CASE ReleaseKeys(h)
      <4> DEFINE locked == {l \in Layers : DesignOf[l] = task[h].design /\ lock[l] # "none"}
                 x == [task[h] EXCEPT !.step = "scan", !.todo = locked]
      <4>1. x.step = "scan"
        BY <2>1 DEF Task
      <4> QED
        BY <3>2, <4>1 DEF ReleaseKeys
    <3>3. ASSUME ReleaseCheck(h), ~Become(h, Idle)
          PROVE  \E x : task' = [task EXCEPT ![h] = x] /\ x.step # "trim"
      <4>1. PICK l \in task[h].todo :
              Become(h, [task[h] EXCEPT
                           !.step = IF lock[l] = User(h) THEN "free" ELSE "scan",
                           !.layer = l,
                           !.todo = @ \ {l}])
        BY <3>3 DEF ReleaseCheck
      <4> DEFINE x == [task[h] EXCEPT !.step = IF lock[l] = User(h) THEN "free" ELSE "scan",
                                      !.layer = l,
                                      !.todo = @ \ {l}]
      <4>2. x.step # "trim"
        BY <2>1 DEF Task
      <4> QED
        BY <4>1, <4>2
    <3>4. CASE ReleaseFree(h)
      <4>1. [task[h] EXCEPT !.step = "scan"].step = "scan"
        BY <2>1 DEF Task
      <4> QED
        BY <3>4, <4>1 DEF ReleaseFree
    <3>5. CASE Become(h, Idle)
      <4>1. Idle.step # "trim"
        BY DEF Idle
      <4> QED
        BY <3>5, <4>1
    <3> QED
      BY <1>4, <3>1, <3>2, <3>3, <3>4, <3>5 DEF Handler
  <2>3. ~At(h, "trim")
    BY <1>4 DEF Handler, Enter, Unlock, ReleaseKeys, ReleaseCheck, ReleaseFree
  <2> QED
    BY <1>1, <2>2, <2>3
<1> QED
  BY <1>3, <1>4

(* The handlers about to trim a log are finitely many.                     *)
LEMMA TrimmersFinite ==
    ASSUME NEW d
    PROVE  IsFiniteSet(Trimmers(d)) /\ Cardinality(Trimmers(d)) \in Nat
<1>1. IsFiniteSet(Trimmers(d))
  BY BoundAssumption, FS_Subset DEF Trimmers
<1> QED
  BY <1>1, FS_CardinalityType

(* Recording adds an update and somebody who will trim.                    *)
LEMMA RecordStep ==
    ASSUME TypeOK, TaskInv, LogInv, NEW h \in Tasks, Record(h), NEW d \in Designs
    PROVE  LogOf(d)'
<1> DEFINE e == task[h].design
<1>1. /\ e \in Designs /\ ~At(h, "trim") /\ task[h] \in Task
      /\ count' = [count EXCEPT ![e] = @ + 1]
      /\ log' = [log EXCEPT ![e] = @ \cup {count[e] + 1}]
      /\ task' = [task EXCEPT ![h] = [task[h] EXCEPT !.step = "trim"]]
      /\ faults' = faults
  BY DEF Record, TaskInv, Sound, At, TypeOK, Become, bounds
<1>2. task'[h].step = "trim" /\ task'[h].design = e /\ \A k \in Tasks \ {h} : task'[k] = task[k]
  BY <1>1 DEF TypeOK, Task
<1> HIDE DEF e
<1>3. LogOf(d) /\ count[d] \in Nat /\ log[d] \subseteq Nat
  BY DEF LogInv, TypeOK
<1>4. CASE d # e
  <2>1. log'[d] = log[d] /\ count'[d] = count[d]
    BY <1>1, <1>4 DEF TypeOK
  <2>2. Trimmers(d)' = Trimmers(d)
    BY <1>1, <1>2, <1>4 DEF Trimmers, At, e
  <2> QED
    BY <1>1, <1>3, <2>1, <2>2 DEF LogOf
<1>5. CASE d = e
  <2>1. PICK n \in Nat : n = count[d]
    BY <1>3
  <2>2. count'[d] = n + 1 /\ log'[d] = log[d] \cup {n + 1}
    BY <1>1, <1>5, <2>1 DEF TypeOK
  <2>3. Trimmers(d)' = Trimmers(d) \cup {h} /\ h \notin Trimmers(d)
    BY <1>1, <1>2, <1>5 DEF Trimmers, At
  <2>4. IsFiniteSet(log[d]) /\ n + 1 \notin log[d]
    <3>1. IsFiniteSet(1..n)
      BY FS_Interval
    <3>2. log[d] \in SUBSET (1..n)
      BY <1>3, <2>1 DEF LogOf
    <3> QED
      BY <3>1, <3>2, FS_Subset
  <2>5. Cardinality(log'[d]) = Cardinality(log[d]) + 1 /\ Cardinality(log[d]) \in Nat
    BY <2>2, <2>4, FS_AddElement, FS_CardinalityType
  <2>6. Cardinality(Trimmers(d)') = Cardinality(Trimmers(d)) + 1 /\ Cardinality(Trimmers(d)) \in Nat
    BY <2>3, TrimmersFinite, FS_AddElement
  <2>7. log'[d] \subseteq 1..count'[d]
    BY <1>3, <2>1, <2>2 DEF LogOf
  <2>8. \A i \in 1..count'[d] : i + LogCap > count'[d] => i \in log'[d]
    BY <1>3, <2>1, <2>2, BoundAssumption DEF LogOf
  <2>9. faults' = 0 => Cardinality(log'[d]) <= LogCap + Cardinality(Trimmers(d)')
    <3>1. faults = 0 => Cardinality(log[d]) <= LogCap + Cardinality(Trimmers(d))
      BY <1>3 DEF LogOf
    <3> QED
      BY <1>1, <2>5, <2>6, <3>1, BoundAssumption
  <2> QED
    BY <2>7, <2>8, <2>9 DEF LogOf
<1> QED
  BY <1>4, <1>5

(* Trimming keeps the newest LogCap updates, and no more.                  *)
LEMMA TrimStep ==
    ASSUME TypeOK, TaskInv, LogInv, NEW h \in Tasks, Trim(h), NEW d \in Designs
    PROVE  LogOf(d)'
<1> DEFINE e == task[h].design
<1>1. /\ log' = [log EXCEPT ![e] = Newest(@, LogCap)]
      /\ task' = [task EXCEPT ![h] = Idle]
      /\ count' = count /\ faults' = faults
  BY DEF Trim, Become, bounds
<1>2. task'[h] = Idle /\ Idle.step # "trim" /\ \A k \in Tasks \ {h} : task'[k] = task[k]
  BY <1>1 DEF TypeOK, Idle
<1> HIDE DEF e
<1>3. LogOf(d) /\ count[d] \in Nat /\ log[d] \in SUBSET Nat
  BY DEF LogInv, TypeOK
<1>4. CASE d # e
  <2>1. log'[d] = log[d] /\ count'[d] = count[d]
    BY <1>1, <1>4 DEF TypeOK
  <2>2. Trimmers(d)' = Trimmers(d)
    BY <1>2, <1>4 DEF Trimmers, At, e
  <2> QED
    BY <1>1, <1>3, <2>1, <2>2 DEF LogOf
<1>5. CASE d = e
  <2>1. PICK n \in Nat : n = count[d]
    BY <1>3
  <2>2. log'[d] = Newest(log[d], LogCap) /\ count'[d] = n
    BY <1>1, <1>5, <2>1 DEF TypeOK
  <2>3. IsFiniteSet(log[d]) /\ log[d] \subseteq 1..n
    <3>1. IsFiniteSet(1..n)
      BY FS_Interval
    <3>2. log[d] \in SUBSET (1..n)
      BY <1>3, <2>1 DEF LogOf
    <3> QED
      BY <3>1, <3>2, FS_Subset
  <2>4. Cardinality(log'[d]) <= LogCap
    BY <1>3, <2>2, <2>3, NewestAreFew, BoundAssumption
  <2>5. log'[d] \subseteq 1..count'[d]
    BY <2>2, <2>3 DEF Newest
  <2>6. ASSUME NEW i \in 1..n, i + LogCap > n PROVE i \in log'[d]
    <3>1. i \in log[d]
      BY <1>3, <2>1, <2>6 DEF LogOf
    <3> DEFINE A == {j \in log[d] : j > i}
    <3>2. A \in SUBSET (i+1..n)
      BY <2>3
    <3>3. IsFiniteSet(i+1..n) /\ Cardinality(i+1..n) = IF i + 1 > n THEN 0 ELSE n - (i + 1) + 1
      BY FS_Interval
    <3> HIDE DEF A
    <3>4. IsFiniteSet(A) /\ Cardinality(A) <= Cardinality(i+1..n) /\ Cardinality(A) \in Nat
      BY <3>2, <3>3, FS_Subset, FS_CardinalityType
    <3>5. Cardinality(A) < LogCap
      BY <2>6, <3>3, <3>4, BoundAssumption
    <3> QED
      BY <2>2, <3>1, <3>5 DEF Newest, A
  <2>7. Cardinality(log'[d]) <= LogCap + Cardinality(Trimmers(d)')
    <3>1. IsFiniteSet(Trimmers(d)')
      BY BoundAssumption, FS_Subset DEF Trimmers
    <3>2. Cardinality(Trimmers(d)') \in Nat
      BY <3>1, FS_CardinalityType
    <3>3. IsFiniteSet(log'[d])
      BY <2>2, <2>3, FS_Subset DEF Newest
    <3>4. Cardinality(log'[d]) \in Nat
      BY <3>3, FS_CardinalityType
    <3> QED
      BY <2>4, <3>2, <3>4, BoundAssumption
  <2> QED
    BY <2>2, <2>5, <2>6, <2>7 DEF LogOf
<1> QED
  BY <1>4, <1>5

(* Every step keeps LogInv.                                                *)
LEMMA LogStep ==
    ASSUME TypeOK, TaskInv, LogInv, [Next]_vars
    PROVE  LogInv'
<1> SUFFICES ASSUME NEW d \in Designs PROVE LogOf(d)'
  BY DEF LogInv
<1>1. LogOf(d) /\ count[d] \in Nat
  BY DEF LogInv, TypeOK
<1>2. ASSUME log' = log, count' = count, faults' = 0 => faults = 0 /\ Trimmers(d)' = Trimmers(d)
      PROVE  LogOf(d)'
  BY <1>1, <1>2 DEF LogOf
<1>3. ASSUME NEW s \in Sockets, Connect(s) \/ LockLayer(s) PROVE LogOf(d)'
  BY <1>2, <1>3 DEF Connect, LockLayer, logs, bounds, Trimmers, At
<1>4. ASSUME NEW h \in Tasks, NEW s \in Sockets, Message(h, s) PROVE LogOf(d)'
  <2>1. Trimmers(d)' = Trimmers(d)
    BY <1>4, TrimmersKept
  <2>2. UNCHANGED <<log, count, faults>>
    BY <1>4 DEF Message, Join, Leave, Close, UnlockCheck, UpdateLayer, Update, logs, bounds
  <2> QED
    BY <1>2, <2>1, <2>2
<1>5. ASSUME NEW h \in Tasks, Handler(h) PROVE LogOf(d)'
  <2>1. CASE Record(h)
    BY <2>1, RecordStep
  <2>2. CASE Trim(h)
    BY <2>2, TrimStep
  <2>3. CASE ~Record(h) /\ ~Trim(h)
    <3>1. Trimmers(d)' = Trimmers(d)
      BY <1>5, <2>3, TrimmersKept
    <3>2. UNCHANGED <<log, count, faults>>
      BY <1>5, <2>3 DEF Handler, Enter, Unlock, ReleaseKeys, ReleaseCheck, ReleaseFree, logs, bounds
    <3> QED
      BY <1>2, <3>1, <3>2
  <2> QED
    BY <2>1, <2>2, <2>3
<1>6. ASSUME NEW h \in Tasks, TaskFails(h) PROVE LogOf(d)'
  BY <1>2, <1>6, BoundAssumption DEF TaskFails, logs, TypeOK
<1>7. CASE Crash
  BY <1>2, <1>7, BoundAssumption DEF Crash, logs, TypeOK
<1>8. ASSUME NEW l \in Layers, LockExpires(l) PROVE LogOf(d)'
  BY <1>2, <1>8 DEF LockExpires, logs, Trimmers, At
<1>9. ASSUME NEW e \in Designs, PresenceExpires(e) PROVE LogOf(d)'
  BY <1>2, <1>9 DEF PresenceExpires, logs, Trimmers, At
<1>10. ASSUME NEW e \in Designs, LogExpires(e) PROVE LogOf(d)'
  <2>1. /\ log' = [log EXCEPT ![e] = {}] /\ count' = [count EXCEPT ![e] = 0]
        /\ task' = task /\ faults' = faults
    BY <1>10 DEF LogExpires
  <2>2. Trimmers(d)' = Trimmers(d)
    BY <2>1 DEF Trimmers, At
  <2>3. CASE d # e
    BY <1>1, <2>1, <2>2, <2>3 DEF LogOf, TypeOK
  <2>4. CASE d = e
    <3>1. log'[d] = {} /\ count'[d] = 0
      BY <2>1, <2>4 DEF TypeOK
    <3>2. Cardinality(log'[d]) = 0 /\ Cardinality(Trimmers(d)') \in Nat
      BY <2>2, <3>1, FS_EmptySet, TrimmersFinite
    <3>3. Cardinality(log'[d]) <= LogCap + Cardinality(Trimmers(d)')
      BY <3>2, BoundAssumption
    <3>4. \A i \in 1..count'[d] : FALSE
      BY <3>1
    <3> QED
      BY <3>1, <3>3, <3>4 DEF LogOf
  <2> QED
    BY <2>3, <2>4
<1>11. CASE UNCHANGED vars
  BY <1>2, <1>11 DEF vars, Trimmers, At
<1> QED
  BY <1>3, <1>4, <1>5, <1>6, <1>7, <1>8, <1>9, <1>10, <1>11 DEF Next

-----------------------------------------------------------------------------
(* The types, the sound handlers, the joins in order and the locks with    *)
(* their users, together, are inductive.                                   *)
LEMMA Invariance == Spec => []IInv
<1>1. Init => IInv
  BY PeopleAssumption, BoundAssumption DEF Init, IInv, TypeOK, TaskInv, Sound, JoinInv,
     NoOrphanLocks, Idle, Task, Steps, At
<1>2. IInv /\ [Next]_vars => IInv'
  <2> SUFFICES ASSUME IInv, [Next]_vars
               PROVE  IInv'
    OBVIOUS
  <2>1. TypeOK /\ TaskInv /\ (faults = 0 => JoinInv) /\ NoOrphanLocks
    BY DEF IInv
  <2>2. TypeOK' /\ TaskInv'
    BY <2>1, TypeStep
  <2>3. faults' = 0 => JoinInv'
    BY <2>1, JoinStep
  <2>4. NoOrphanLocks'
    BY <2>1, OrphanStep
  <2>5. QED
    BY <2>2, <2>3, <2>4 DEF IInv
<1>3. QED
  BY <1>1, <1>2, PTL DEF Spec

(* Whatever clients send and whatever fails, every variable keeps its type. *)
THEOREM TypesCorrect == Spec => []TypeOK
<1>1. IInv => TypeOK
  BY DEF IInv
<1>2. QED
  BY <1>1, Invariance, PTL

(* Clients that lock what they are in, wait for their joins and leave      *)
(* before they join elsewhere never leave a lock behind, however their     *)
(* sockets, unlocks and cleanups interleave, while nothing fails.          *)
THEOREM NoOrphanLocksAlways == Spec => []NoOrphanLocks
<1>1. IInv => NoOrphanLocks
  BY DEF IInv
<1>2. QED
  BY <1>1, Invariance, PTL

(* However the updates of several handlers interleave with each other and  *)
(* with expiries and failures, the log of a design has its newest LogCap   *)
(* updates; while nothing fails, no more than those and one for each       *)
(* handler that is about to trim it.                                       *)
THEOREM LogKeepsNewestAlways == Spec => []LogKeepsNewest
<1>1. Init => LogInv
  <2> SUFFICES ASSUME Init, NEW d \in Designs PROVE LogOf(d)
    BY DEF LogInv
  <2>1. log[d] = {} /\ count[d] = 0
    BY DEF Init
  <2>2. Cardinality(log[d]) <= LogCap + Cardinality(Trimmers(d))
    <3>1. Cardinality(log[d]) = 0 /\ Cardinality(Trimmers(d)) \in Nat
      BY <2>1, FS_EmptySet, TrimmersFinite
    <3> QED
      BY <3>1, BoundAssumption
  <2>3. \A i \in 1..count[d] : FALSE
    BY <2>1
  <2> QED
    BY <2>1, <2>2, <2>3 DEF LogOf
<1>2. IInv /\ LogInv /\ [Next]_vars => LogInv'
  BY LogStep DEF IInv
<1>3. TypeOK /\ LogInv => LogKeepsNewest
  <2> SUFFICES ASSUME TypeOK, LogInv, NEW d \in Designs
               PROVE  /\ Newest(1..count[d], LogCap) \subseteq log[d]
                      /\ faults = 0 => Cardinality(log[d]) <= LogCap + Cardinality(Trimmers(d))
    BY DEF LogKeepsNewest, Trimmers
  <2>1. LogOf(d)
    BY DEF LogInv
  <2>2. PICK n \in Nat : n = count[d]
    BY DEF TypeOK
  <2>3. ASSUME NEW i \in Newest(1..n, LogCap) PROVE i \in log[d]
    <3>1. i \in 1..n /\ Cardinality({j \in 1..n : j > i}) < LogCap
      BY <2>3 DEF Newest
    <3>2. {j \in 1..n : j > i} = i+1..n
      BY <3>1
    <3>3. Cardinality(i+1..n) = IF i + 1 > n THEN 0 ELSE n - (i + 1) + 1
      BY <3>1, FS_Interval
    <3>4. Cardinality(i+1..n) < LogCap
      BY <3>1, <3>2
    <3>5. i + LogCap > n
      BY <3>1, <3>3, <3>4, BoundAssumption
    <3> QED
      BY <2>1, <2>2, <3>1, <3>5 DEF LogOf
  <2> QED
    BY <2>1, <2>2, <2>3 DEF LogOf
<1>4. IInv => TypeOK
  BY DEF IInv
<1> QED
  BY <1>1, <1>2, <1>3, <1>4, Invariance, PTL DEF Spec
=============================================================================
