----------------------------- MODULE PoolMonitor -----------------------------
(***************************************************************************)
(* connection-pool-monitor.service.ts, and the sessions of the database it *)
(* reads in pg_stat_activity through a connection of the same pool.        *)
(***************************************************************************)
EXTENDS Naturals, FiniteSets

CONSTANTS
    Connections,      \* of the pool
    MaxQueries,       \* bound on the queries of the application
    MaxReadFailures   \* bound on readings that fail

VARIABLES
    session,       \* session[c]: "none", "active", "lock" (active, but waiting) or "idle"
    monitoring,    \* the interval is set
    reading,       \* the connections the monitor has taken
    status,        \* the last report: {} or {report}
    queries, readFailures

poolVars == <<session, monitoring, reading, status, queries, readFailures>>

-----------------------------------------------------------------------------
(* A session that waits for its client waits too: wait_event_type is       *)
(* Client then, and not null.                                              *)
CountOf(states) == Cardinality({c \in Connections : session[c] \in states})
Stats ==
    [total |-> CountOf({"active", "lock", "idle"}), active |-> CountOf({"active", "lock"}),
     idle |-> CountOf({"idle"}), waiting |-> CountOf({"lock", "idle"})]
NoStats == [total |-> 0, active |-> 0, idle |-> 0, waiting |-> 0]

(* The percentage of the connections that are active is at least p.        *)
Utilized(stats, p) == stats.total > 0 /\ 100 * stats.active >= p * stats.total

Report(stats) ==
    [stats |-> stats,
     isHealthy |-> ~Utilized(stats, 95) /\ stats.waiting = 0,
     warnings |-> {w \in {"critical", "warning", "waiting", "low idle"} :
         CASE w = "critical" -> Utilized(stats, 95)
           [] w = "warning" -> Utilized(stats, 80) /\ ~Utilized(stats, 95)
           [] w = "waiting" -> stats.waiting > 0
           [] w = "low idle" -> stats.total > 0 /\ 100 * stats.idle < 10 * stats.total}]

TypeOK ==
    /\ session \in [Connections -> {"none", "active", "lock", "idle"}]
    /\ monitoring \in BOOLEAN /\ reading \subseteq Connections
    /\ \A s \in status : s.stats.total <= Cardinality(Connections) /\ s.isHealthy \in BOOLEAN
    /\ queries \in 0..MaxQueries /\ readFailures \in 0..MaxReadFailures

Init ==
    /\ session = [c \in Connections |-> "none"]
    /\ monitoring = TRUE /\ reading = {} /\ status = {}
    /\ queries = 0 /\ readFailures = 0

-----------------------------------------------------------------------------
(* The application's queries: a connection is opened or taken up again,    *)
(* may wait for a lock, is idle between queries and closed after a while.  *)
Query(c) ==
    /\ session[c] \in {"none", "idle"} /\ queries < MaxQueries
    /\ queries' = queries + 1
    /\ session' = [session EXCEPT ![c] = "active"]
    /\ UNCHANGED <<monitoring, reading, status, readFailures>>
Wait(c) ==
    /\ session[c] = "active" /\ c \notin reading
    /\ session' = [session EXCEPT ![c] = "lock"]
    /\ UNCHANGED <<monitoring, reading, status, queries, readFailures>>
Answered(c) ==
    /\ session[c] \in {"active", "lock"} /\ c \notin reading
    /\ session' = [session EXCEPT ![c] = IF @ = "lock" THEN "active" ELSE "idle"]
    /\ UNCHANGED <<monitoring, reading, status, queries, readFailures>>
Close(c) ==
    /\ session[c] = "idle"
    /\ session' = [session EXCEPT ![c] = "none"]
    /\ UNCHANGED <<monitoring, reading, status, queries, readFailures>>

-----------------------------------------------------------------------------
(* The interval asks for the statistics, whether it has been answered or   *)
(* not, and waits for a connection when all are in use.                    *)
GetPoolHealth(c) ==
    /\ monitoring /\ session[c] \in {"none", "idle"}
    /\ reading' = reading \cup {c}
    /\ session' = [session EXCEPT ![c] = "active"]
    /\ UNCHANGED <<monitoring, status, queries, readFailures>>

(* The statistics count the monitor's own query.  An error is logged, and  *)
(* zeros are reported instead.                                             *)
GetPoolStats(c) ==
    /\ c \in reading
    /\ reading' = reading \ {c}
    /\ \/ status' = {Report(Stats)} /\ UNCHANGED readFailures
       \/ /\ readFailures < MaxReadFailures /\ readFailures' = readFailures + 1
          /\ status' = {Report(NoStats)}
    /\ session' = [session EXCEPT ![c] = "idle"]
    /\ UNCHANGED <<monitoring, queries>>

StopMonitoring ==
    /\ monitoring /\ monitoring' = FALSE
    /\ UNCHANGED <<session, reading, status, queries, readFailures>>

Next ==
    \/ \E c \in Connections :
        Query(c) \/ Wait(c) \/ Answered(c) \/ Close(c) \/ GetPoolHealth(c) \/ GetPoolStats(c)
    \/ StopMonitoring

Spec == Init /\ [][Next]_poolVars

-----------------------------------------------------------------------------
(* The monitor shares the pool with the application and both keep to their *)
(* connections: those it reads through are active until it gives them      *)
(* back.  A report counts every session once, it is healthy unless it      *)
(* warns of a critical pool or of waiting queries, and the 95% and the 10% *)
(* agree: a critical pool is low on idle connections too.                  *)
ReportsAgree ==
    /\ \A c \in reading : session[c] = "active"
    /\ \A s \in status :
         /\ s.stats.active + s.stats.idle = s.stats.total
         /\ s.isHealthy <=> s.warnings \cap {"critical", "waiting"} = {}
         /\ "critical" \in s.warnings => "low idle" \in s.warnings /\ "warning" \notin s.warnings
=============================================================================
