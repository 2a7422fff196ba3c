---------------------------- MODULE Collaboration ----------------------------
(***************************************************************************)
(* design.gateway.ts and collaboration.service.ts: sockets join and leave  *)
(* the rooms of designs, lock layers for editing, and record updates.      *)
(* Presence, locks and update logs are in Redis.                           *)
(*                                                                         *)
(* The process has one connection to Redis, so commands take effect in the *)
(* order in which handlers issue them; between a reply and the command     *)
(* that follows it, every other handler may run.  A handler is a task; its *)
(* synchronous part up to the next await is one step.  WsJwtAuthGuard,     *)
(* which runs before a handler, awaits nothing that takes time.            *)
(***************************************************************************)
EXTENDS Naturals, FiniteSets

CONSTANTS
    Users, Sockets, Designs, Layers,
    UserOf,       \* the user of a socket
    DesignOf,     \* the design of a layer
    Tasks,        \* handlers that may be in flight at once
    LogCap,       \* updates that recordUpdate keeps
    MaxUpdates,   \* bound on the updates recorded
    MaxExpiries,  \* bound on keys whose TTL runs out
    MaxFaults,    \* bound on Redis errors and crashes of the process
    Habits        \* values of `strict' to begin with

ASSUME PeopleAssumption ==
    /\ UserOf \in [Sockets -> Users]
    /\ DesignOf \in [Layers -> Designs]
    /\ "none" \notin Users \cup Sockets \cup Designs \cup Layers
ASSUME BoundAssumption ==
    /\ LogCap \in Nat \ {0}
    /\ MaxUpdates \in Nat
    /\ MaxExpiries \in Nat
    /\ MaxFaults \in Nat
    /\ Habits \subseteq BOOLEAN
    /\ IsFiniteSet(Tasks)

VARIABLES
    link,      \* link[s]: "new", "open" or "gone"; a client that comes back has a new socket
    rooms,     \* rooms[s]: designs whose events s gets
    current,   \* current[s]: client.data.designId
    present,   \* present[d][u]: the socket in the hash of active users
    lock,      \* lock[l]: the user in the lock key
    log,       \* log[d]: numbers of the updates in the sorted set
    count,     \* count[d]: updates recorded since the log was last empty
    task,      \* task[h]: what handler h does next
    strict,    \* clients lock layers of the design they are in, wait for their joins, and
               \* leave one design before they join another
    expiries, faults

sessions == <<link, rooms, current, present>>
logs == <<log, count>>
bounds == <<strict, expiries, faults>>
vars == <<link, rooms, current, present, lock, log, count, task, strict, expiries, faults>>

-----------------------------------------------------------------------------
Steps == {"idle", "verify", "unlock", "record", "trim", "keys", "scan", "free"}
Task == [step: Steps, socket: Sockets \cup {"none"}, design: Designs \cup {"none"},
         layer: Layers \cup {"none"}, todo: SUBSET Layers]
Idle == [step |-> "idle", socket |-> "none", design |-> "none", layer |-> "none", todo |-> {}]

TypeOK ==
    /\ link \in [Sockets -> {"new", "open", "gone"}]
    /\ rooms \in [Sockets -> SUBSET Designs]
    /\ current \in [Sockets -> Designs \cup {"none"}]
    /\ present \in [Designs -> [Users -> Sockets \cup {"none"}]]
    /\ lock \in [Layers -> Users \cup {"none"}]
    /\ log \in [Designs -> SUBSET Nat]
    /\ count \in [Designs -> Nat]
    /\ task \in [Tasks -> Task]
    /\ strict \in BOOLEAN
    /\ expiries \in 0..MaxExpiries
    /\ faults \in 0..MaxFaults

Init ==
    /\ link = [s \in Sockets |-> "new"]
    /\ rooms = [s \in Sockets |-> {}]
    /\ current = [s \in Sockets |-> "none"]
    /\ present = [d \in Designs |-> [u \in Users |-> "none"]]
    /\ lock = [l \in Layers |-> "none"]
    /\ log = [d \in Designs |-> {}]
    /\ count = [d \in Designs |-> 0]
    /\ task = [h \in Tasks |-> Idle]
    /\ strict \in Habits
    /\ expiries = 0
    /\ faults = 0

At(h, step) == task[h].step = step
User(h) == UserOf[task[h].socket]
Become(h, fields) == task' = [task EXCEPT ![h] = fields]
Open(s) == link[s] = "open"

(* A message of a client whose handler awaits something.                   *)
Arrives(h, s) == At(h, "idle") /\ Open(s)

-----------------------------------------------------------------------------
(* Rooms and presence.                                                     *)

Connect(s) ==
    /\ link[s] = "new"
    /\ link' = [link EXCEPT ![s] = "open"]
    /\ UNCHANGED <<rooms, current, present, lock, logs, task, bounds>>

(* design:join waits for verifyDesignAccess, ...                           *)
Join(h, s) ==
    /\ Arrives(h, s)
    /\ \E d \in Designs :
         /\ strict =>
              /\ current[s] \in {"none", d}
              /\ \A k \in Tasks : ~(At(k, "verify") /\ task[k].socket = s)
         /\ Become(h, [Idle EXCEPT !.step = "verify", !.socket = s, !.design = d])
    /\ UNCHANGED <<sessions, lock, logs, bounds>>

(* ... and then enters the room and the hash, the socket open or not.  The *)
(* room it comes from knows nothing of it.  Access may also be refused.    *)
Enter(h) ==
    /\ At(h, "verify")
    /\ LET s == task[h].socket  d == task[h].design IN
         \/ /\ rooms' = [rooms EXCEPT ![s] = (@ \ {current[s]}) \cup {d}]
            /\ current' = [current EXCEPT ![s] = d]
            /\ present' = [present EXCEPT ![d][UserOf[s]] = s]
         \/ UNCHANGED <<rooms, current, present>>
    /\ Become(h, Idle)
    /\ UNCHANGED <<link, lock, logs, bounds>>

(* removeUserFromDesign(d, user): HDEL at once, the locks afterwards.      *)
Remove(h, s, d) ==
    /\ present' = [present EXCEPT ![d][UserOf[s]] = "none"]
    /\ Become(h, [Idle EXCEPT !.step = "keys", !.socket = s, !.design = d])

(* design:leave: of the design the client names.                           *)
Leave(h, s) ==
    /\ Arrives(h, s)
    /\ \E d \in Designs :
         /\ strict => current[s] = d
         /\ rooms' = [rooms EXCEPT ![s] = @ \ {d}]
         /\ current' = [current EXCEPT ![s] = "none"]
         /\ Remove(h, s, d)
    /\ UNCHANGED <<link, lock, logs, bounds>>

(* Mutant: the design of the socket is looked up after it was cleared.     *)
CloseForgetful(h, s) ==
    /\ Arrives(h, s)
    /\ link' = [link EXCEPT ![s] = "gone"]
    /\ rooms' = [rooms EXCEPT ![s] = {}]
    /\ UNCHANGED <<current, present, task, lock, logs, bounds>>

(* The socket closes: handleDisconnect.                                    *)
Close(h, s) ==
    /\ Arrives(h, s)
    /\ link' = [link EXCEPT ![s] = "gone"]
    /\ rooms' = [rooms EXCEPT ![s] = {}]
    /\ IF current[s] # "none" THEN Remove(h, s, current[s])
       ELSE UNCHANGED <<present, task>>
    /\ UNCHANGED <<current, lock, logs, bounds>>

-----------------------------------------------------------------------------
(* Locks.                                                                  *)

(* Mutant: the lock names the socket.                                      *)
LockForSocket(s) ==
    /\ Open(s)
    /\ \E l \in Layers :
         /\ strict => current[s] = DesignOf[l]
         /\ lock[l] = "none"
         /\ lock' = [lock EXCEPT ![l] = s]
    /\ UNCHANGED <<sessions, logs, task, bounds>>

(* layer:lock: SET NX.  The user who has the lock is refused as well.      *)
LockLayer(s) ==
    /\ Open(s)
    /\ \E l \in Layers :
         /\ strict => current[s] = DesignOf[l]
         /\ lock[l] = "none"
         /\ lock' = [lock EXCEPT ![l] = UserOf[s]]
    /\ UNCHANGED <<sessions, logs, task, bounds>>

(* layer:unlock: GET, and DEL when the lock is the user's.                 *)
UnlockCheck(h, s) ==
    /\ Arrives(h, s)
    /\ \E l \in Layers :
         /\ lock[l] = UserOf[s]
         /\ Become(h, [Idle EXCEPT !.step = "unlock", !.socket = s, !.layer = l])
    /\ UNCHANGED <<sessions, lock, logs, bounds>>

Unlock(h) ==
    /\ At(h, "unlock")
    /\ lock' = [lock EXCEPT ![task[h].layer] = "none"]
    /\ Become(h, Idle)
    /\ UNCHANGED <<sessions, logs, bounds>>

(* releaseUserLocks: KEYS, ...                                             *)
ReleaseKeys(h) ==
    /\ At(h, "keys")
    /\ LET locked == {l \in Layers : DesignOf[l] = task[h].design /\ lock[l] # "none"} IN
         Become(h, [task[h] EXCEPT !.step = "scan", !.todo = locked])
    /\ UNCHANGED <<sessions, lock, logs, bounds>>

(* ... and for each of them GET, and DEL when the lock is the user's.      *)
ReleaseCheck(h) ==
    /\ At(h, "scan")
    /\ \/ \E l \in task[h].todo :
            Become(h, [task[h] EXCEPT
                         !.step = IF lock[l] = User(h) THEN "free" ELSE "scan",
                         !.layer = l,
                         !.todo = @ \ {l}])
       \/ task[h].todo = {} /\ Become(h, Idle)
    /\ UNCHANGED <<sessions, lock, logs, bounds>>

ReleaseFree(h) ==
    /\ At(h, "free")
    /\ lock' = [lock EXCEPT ![task[h].layer] = "none"]
    /\ Become(h, [task[h] EXCEPT !.step = "scan"])
    /\ UNCHANGED <<sessions, logs, bounds>>

(* The TTL of a lock, which nothing renews, runs out.                      *)
LockExpires(l) ==
    /\ expiries < MaxExpiries
    /\ lock[l] # "none"
    /\ lock' = [lock EXCEPT ![l] = "none"]
    /\ expiries' = expiries + 1
    /\ UNCHANGED <<sessions, logs, task, strict, faults>>

(* The hash of active users runs out: only joins renew it.                 *)
PresenceExpires(d) ==
    /\ expiries < MaxExpiries
    /\ present' = [present EXCEPT ![d] = [u \in Users |-> "none"]]
    /\ expiries' = expiries + 1
    /\ UNCHANGED <<link, rooms, current, lock, logs, task, strict, faults>>

-----------------------------------------------------------------------------
(* Updates.                                                                *)

(* layer:updated is refused while another user has the lock.               *)
UpdateLayer(h, s) ==
    /\ Arrives(h, s)
    /\ \E l \in Layers :
         /\ lock[l] \in {"none", UserOf[s]}
         /\ Become(h, [Idle EXCEPT !.step = "record", !.socket = s, !.design = DesignOf[l]])
    /\ UNCHANGED <<sessions, lock, logs, bounds>>

(* layer:added, layer:deleted, layer:reordered, design:updated and         *)
(* canvas:updated are recorded as they come.                               *)
Update(h, s) ==
    /\ Arrives(h, s)
    /\ \E d \in Designs :
         Become(h, [Idle EXCEPT !.step = "record", !.socket = s, !.design = d])
    /\ UNCHANGED <<sessions, lock, logs, bounds>>

(* recordUpdate: ZADD with the time as score, ...                          *)
Record(h) ==
    /\ At(h, "record")
    /\ LET d == task[h].design IN
         /\ count[d] < MaxUpdates
         /\ count' = [count EXCEPT ![d] = @ + 1]
         /\ log' = [log EXCEPT ![d] = @ \cup {count[d] + 1}]
    /\ Become(h, [task[h] EXCEPT !.step = "trim"])
    /\ UNCHANGED <<sessions, lock, bounds>>

Newest(S, n) == {i \in S : Cardinality({j \in S : j > i}) < n}

(* Mutant: zremrangebyrank(key, 0, -LogCap).                               *)
TrimOneMore(h) ==
    /\ At(h, "trim")
    /\ LET d == task[h].design IN log' = [log EXCEPT ![d] = Newest(@, LogCap - 1)]
    /\ Become(h, Idle)
    /\ UNCHANGED <<sessions, lock, count, bounds>>

(* ... and zremrangebyrank(key, 0, -(LogCap + 1)).                         *)
Trim(h) ==
    /\ At(h, "trim")
    /\ LET d == task[h].design IN log' = [log EXCEPT ![d] = Newest(@, LogCap)]
    /\ Become(h, Idle)
    /\ UNCHANGED <<sessions, lock, count, bounds>>

(* An hour without updates: a log that is written again starts anew.       *)
LogExpires(d) ==
    /\ expiries < MaxExpiries
    /\ log' = [log EXCEPT ![d] = {}]
    /\ count' = [count EXCEPT ![d] = 0]
    /\ expiries' = expiries + 1
    /\ UNCHANGED <<sessions, lock, task, strict, faults>>

-----------------------------------------------------------------------------
(* A query or a command fails: every handler catches it and ends.          *)
TaskFails(h) ==
    /\ faults < MaxFaults
    /\ ~At(h, "idle")
    /\ Become(h, Idle)
    /\ faults' = faults + 1
    /\ UNCHANGED <<sessions, lock, logs, strict, expiries>>

(* The process dies, and with it the sockets; Redis keeps what it has.     *)
Crash ==
    /\ faults < MaxFaults
    /\ link' = [s \in Sockets |-> IF Open(s) THEN "gone" ELSE link[s]]
    /\ rooms' = [s \in Sockets |-> {}]
    /\ task' = [h \in Tasks |-> Idle]
    /\ faults' = faults + 1
    /\ UNCHANGED <<current, present, lock, logs, strict, expiries>>

-----------------------------------------------------------------------------
Handler(h) ==
    \/ Enter(h) \/ Unlock(h) \/ ReleaseKeys(h) \/ ReleaseCheck(h) \/ ReleaseFree(h)
    \/ Record(h) \/ Trim(h)

Message(h, s) ==
    \/ Join(h, s) \/ Leave(h, s) \/ Close(h, s) \/ UnlockCheck(h, s)
    \/ UpdateLayer(h, s) \/ Update(h, s)

Next ==
    \/ \E s \in Sockets : Connect(s) \/ LockLayer(s) \/ \E h \in Tasks : Message(h, s)
    \/ \E h \in Tasks : Handler(h) \/ TaskFails(h)
    \/ \E l \in Layers : LockExpires(l)
    \/ \E d \in Designs : PresenceExpires(d) \/ LogExpires(d)
    \/ Crash

Spec == Init /\ [][Next]_vars

-----------------------------------------------------------------------------
(* Properties.                                                             *)

(* The cleanup that h runs for user u in design d has layer l still ahead. *)
WillReach(h, l) ==
    /\ task[h].design = DesignOf[l]
    /\ \/ At(h, "keys")
       \/ At(h, "scan") /\ l \in task[h].todo
       \/ At(h, "free") /\ (l = task[h].layer \/ l \in task[h].todo)

(* Clients that are strict leave no lock behind: the user of a lock has an *)
(* open socket in the layer's design, or a cleanup that still gets to the  *)
(* layer.  The cleanup works on a list of keys it read earlier, while      *)
(* other sockets of the same user lock, unlock and leave.                  *)
NoOrphanLocks ==
    strict /\ faults = 0 =>
        \A l \in Layers : lock[l] # "none" =>
            \/ \E s \in Sockets : Open(s) /\ UserOf[s] = lock[l] /\ current[s] = DesignOf[l]
            \/ \E h \in Tasks : WillReach(h, l) /\ User(h) = lock[l]

(* However updates of several handlers interleave, the log of a design has *)
(* its newest LogCap updates, and more only while somebody is about to     *)
(* trim it.                                                                *)
LogKeepsNewest ==
    \A d \in Designs :
        /\ Newest(1..count[d], LogCap) \subseteq log[d]
        /\ faults = 0 =>
             Cardinality(log[d])
                <= LogCap + Cardinality({h \in Tasks : At(h, "trim") /\ task[h].design = d})

-----------------------------------------------------------------------------
(* What comments of the code claim and the code does not do.               *)

(* unlockLayer: "Verify user owns the lock before releasing".              *)
OwnerReleases ==
    [][\A h \in Tasks :
         LET l == task[h].layer IN
           Unlock(h) => lock[l] \in {"none", User(h)}]_vars
=============================================================================
