--------------------------------- MODULE Launch ---------------------------------
(***************************************************************************)
(* Who starts the broker.  There is one per machine, but many that launch  *)
(* it: the SessionStart hook, the MCP servers that miss it, the restart    *)
(* script, and on some machines a supervisor.  Nothing coordinates them but *)
(* the file system (a lock directory, the supervisor's pidfile and the     *)
(* mutex of its takeover), the health check and the port.                  *)
(*                                                                         *)
(* Sources: server/launch-lock.ts, server/broker-client.ts, server.ts,     *)
(* server/supervisor-lock.ts, broker/singleton-guard.ts, broker.ts,        *)
(* scripts/ensure-broker-running.ts, scripts/restart-broker.ts,            *)
(* scripts/broker-supervisor.ts.                                           *)
(***************************************************************************)
EXTENDS Naturals, FiniteSets

CONSTANTS
  Launcher,    \* processes that may start a broker: MCP servers, restarts, and
  Hook,        \* the SessionStart hooks among them
  Supervisor,  \* processes of scripts/broker-supervisor.ts
  Broker,      \* broker processes
  Nobody, Dead, NoBroker,
  MaxFaults,   \* bound: faults and requests of the operator
  Env          \* which faults are explored, see LaunchEnvKind

(***************************************************************************)
(* "crash":   a process dies without a word.                               *)
(* "sleep":   the machine sleeps, or a process is paused, so long that a   *)
(*            lock looks stale although its holder lives.                  *)
(* "preempt": a supervisor is interrupted between the creation of its      *)
(*            pidfile and the writing of its pid.                          *)
(* "stop":    the operator stops the supervisor or restarts the broker.    *)
(***************************************************************************)
LaunchEnvKind == {"crash", "sleep", "preempt", "stop"}

ASSUME LaunchEnvAssumption == Env \subseteq LaunchEnvKind
ASSUME MaxFaultsAssumption == MaxFaults \in Nat
ASSUME HookAssumption == Hook \subseteq Launcher
ASSUME LaunchNamesAssumption ==
  /\ Nobody \notin Launcher \cup Supervisor
  /\ Dead \notin Launcher \cup Supervisor
  /\ Nobody # Dead
  /\ NoBroker \notin Broker

VARIABLES
  broker,    \* where each broker process is
  at,        \* where each launcher is
  lock,      \* the directory .broker-launch.lock
  sup,       \* where each supervisor is
  child,     \* the broker process a supervisor waits for
  file,      \* broker-supervisor.pid
  mutex,     \* the directory broker-supervisor.pid.takeover
  stopfile,  \* broker-supervisor.stop exists
  faults,    \* faults so far
  stolen     \* history: a stale launch lock was removed

lvars == <<broker, at, lock, sup, child, file, mutex, stopfile, faults, stolen>>
launching == <<at, lock, stolen>>
supervising == <<sup, child, file, mutex, stopfile>>

\* "guard": asks whether a broker answers; "open": the database is open, the
\* timers run, and the port is about to be bound.
BrokerState == {"off", "guard", "open", "serving"}

\* "down": saw no broker; "free": nor a supervisor; "holding": has the lock;
\* "watching": waits for what it spawned; "waiting": for what another spawns;
\* "stealing": found the lock stale; "retrying": removed it; "killed": a restart
\* that has stopped the broker.
LauncherState == {"idle", "down", "free", "holding", "watching", "waiting",
                  "stealing", "retrying", "killed"}

\* "created", "recreated": the pidfile is new and empty; "contending": there was
\* one; "takeover": has the mutex; "removing": found the file dead; "removed".
\* "loop" to "child" run the broker; "stopping" and "releasing" end it.
Acquiring == {"created", "contending", "takeover", "removing", "removed", "recreated"}
Running == {"loop", "spawning", "child"}
SupervisorState == {"off", "stopping", "releasing"} \cup Acquiring \cup Running

\* Types, and which process waits for what.
LTypeOK ==
  /\ broker \in [Broker -> BrokerState]
  /\ at \in [Launcher -> LauncherState]
  /\ lock \in [by : Launcher \cup {Nobody, Dead}, stale : BOOLEAN]
  /\ sup \in [Supervisor -> SupervisorState]
  /\ child \in [Supervisor -> Broker \cup {NoBroker}]
  /\ file \in [by : Supervisor \cup {Nobody, Dead}, written : BOOLEAN, fresh : BOOLEAN]
  /\ \A v \in Supervisor : child[v] # NoBroker => sup[v] \in {"child", "stopping"}
  /\ mutex \in Supervisor \cup {Nobody, Dead}
  /\ \A v \in Supervisor :
       mutex = v <=> sup[v] \in {"takeover", "removing", "removed", "recreated"}
  /\ stopfile \in BOOLEAN
  /\ faults \in 0..MaxFaults
  /\ stolen \in BOOLEAN

NoLock == [by |-> Nobody, stale |-> FALSE]
NoFile == [by |-> Nobody, written |-> FALSE, fresh |-> FALSE]

LInit ==
  /\ broker = [b \in Broker |-> "off"]
  /\ at = [l \in Launcher |-> "idle"] /\ lock = NoLock
  /\ sup = [v \in Supervisor |-> "off"]
  /\ child = [v \in Supervisor |-> NoBroker]
  /\ file = NoFile /\ mutex = Nobody /\ stopfile = FALSE
  /\ faults = 0 /\ stolen = FALSE

Serving == \E b \in Broker : broker[b] = "serving"

\* The pidfile names a live process and was refreshed lately.
readSupervisorLock == file.by \in Supervisor /\ file.written /\ file.fresh

\* One of the faults the bound allows.
Fault(kind) ==
  /\ kind \in Env
  /\ faults < MaxFaults /\ faults' = faults + 1

-----------------------------------------------------------------------------
(* The broker process *)

Spawned(b) ==
  /\ broker[b] = "off"
  /\ broker' = [broker EXCEPT ![b] = "guard"]

\* broker/singleton-guard.ts
guard(b) ==
  /\ broker[b] = "guard"
  /\ broker' = [broker EXCEPT ![b] = IF Serving THEN "off" ELSE "open"]
  /\ UNCHANGED <<launching, supervising, faults>>

\* The port has one listener; a loser exits.
bind(b) ==
  /\ broker[b] = "open"
  /\ broker' = [broker EXCEPT ![b] = IF Serving THEN "off" ELSE "serving"]
  /\ UNCHANGED <<launching, supervising, faults>>

brokerCrash(b) ==
  /\ broker[b] # "off" /\ Fault("crash")
  /\ broker' = [broker EXCEPT ![b] = "off"]
  /\ UNCHANGED <<launching, supervising>>

-----------------------------------------------------------------------------
(* The launchers: scripts/ensure-broker-running.ts and ensureBroker *)

Goes(l, from, to) ==
  /\ at[l] = from
  /\ at' = [at EXCEPT ![l] = to]

isBrokerAlive(l) ==
  /\ Goes(l, "idle", "down")
  /\ ~Serving
  /\ UNCHANGED <<broker, lock, stolen, supervising, faults>>

\* Leave the start to the supervisor, or go for the lock.
checkSupervisor(l) ==
  /\ Goes(l, "down", IF readSupervisorLock THEN "idle" ELSE "free")
  /\ UNCHANGED <<broker, lock, stolen, supervising, faults>>

Take(l) == lock' = [by |-> l, stale |-> FALSE]

\* (Mutation: the directory is made recursively, which never fails.)
tryAcquireAnyLock(l) ==
  /\ Goes(l, "free", "holding") /\ Take(l)
  /\ UNCHANGED <<broker, stolen, supervising, faults>>

\* mkdir: one wins.  The others wait, but a hook gives up.
tryAcquireLock(l) ==
  /\ \/ lock.by = Nobody /\ Goes(l, "free", "holding") /\ Take(l)
     \/ /\ lock.by # Nobody /\ UNCHANGED lock
        /\ Goes(l, "free", IF l \in Hook THEN "idle" ELSE "waiting")
  /\ UNCHANGED <<broker, stolen, supervising, faults>>

spawnBroker(l) ==
  /\ Goes(l, "holding", "watching")
  /\ \E b \in Broker : Spawned(b)
  /\ UNCHANGED <<lock, stolen, supervising, faults>>

\* The directory is removed whoever made it.
releaseLock(l) ==
  /\ Goes(l, "watching", "idle")
  /\ lock' = NoLock
  /\ UNCHANGED <<broker, stolen, supervising, faults>>

\* (Mutation: a lock is never taken for abandoned.)
neverStale == FALSE

isLockStale == lock.by # Nobody /\ lock.stale

\* The wait for the other's broker is over: it is up, or the lock is judged.
waited(l) ==
  /\ Goes(l, "waiting", IF ~Serving /\ isLockStale THEN "stealing" ELSE "idle")
  /\ UNCHANGED <<broker, lock, stolen, supervising, faults>>

stealLock(l) ==
  /\ Goes(l, "stealing", "retrying")
  /\ lock' = NoLock /\ stolen' = TRUE
  /\ UNCHANGED <<broker, supervising, faults>>

retryLock(l) ==
  /\ \/ lock.by = Nobody /\ Goes(l, "retrying", "holding") /\ Take(l)
     \/ lock.by # Nobody /\ Goes(l, "retrying", "idle") /\ UNCHANGED lock
  /\ UNCHANGED <<broker, stolen, supervising, faults>>

\* scripts/restart-broker.ts: stop whoever listens, ...
restartKill(l) ==
  /\ Goes(l, "idle", "killed") /\ Fault("stop")
  /\ broker' = [b \in Broker |-> IF broker[b] = "serving" THEN "off" ELSE broker[b]]
  /\ UNCHANGED <<lock, stolen, supervising>>

\* ... and start another, without the lock, unless a supervisor will.
restartSpawn(l) ==
  /\ Goes(l, "killed", "idle")
  /\ IF readSupervisorLock \/ Serving THEN UNCHANGED broker
                                      ELSE \E b \in Broker : Spawned(b)
  /\ UNCHANGED <<lock, stolen, supervising, faults>>

\* What the launcher held stays behind.
launcherCrash(l) ==
  /\ at[l] # "idle" /\ Fault("crash")
  /\ at' = [at EXCEPT ![l] = "idle"]
  /\ lock' = [lock EXCEPT !.by = IF @ = l THEN Dead ELSE @]
  /\ UNCHANGED <<broker, stolen, supervising>>

\* The staleness of a lock is far longer than a launch takes.
lockAges ==
  /\ lock.by = Dead /\ ~lock.stale
  /\ lock' = [lock EXCEPT !.stale = TRUE]
  /\ UNCHANGED <<broker, at, stolen, supervising, faults>>

-----------------------------------------------------------------------------
(* The supervisor: its lock *)

Moves(v, from, to) ==
  /\ sup[v] \in from
  /\ sup' = [sup EXCEPT ![v] = to]

FileOf(v, w) == [by |-> v, written |-> w, fresh |-> TRUE]

\* Exclusive creation of the pidfile, and its contents: at once, or later.
createFile(v, from, interrupted) ==
  /\ file.by = Nobody
  /\ \/ /\ Moves(v, {from}, "loop")
        /\ file' = FileOf(v, TRUE)
        /\ mutex' = IF from = "removed" THEN Nobody ELSE mutex
        /\ stopfile' = FALSE /\ UNCHANGED faults
     \/ /\ Moves(v, {from}, interrupted) /\ Fault("preempt")
        /\ file' = FileOf(v, FALSE)
        /\ UNCHANGED <<mutex, stopfile>>

startSupervisor(v) ==
  /\ \/ createFile(v, "off", "created")
     \/ /\ file.by # Nobody
        /\ Moves(v, {"off"}, "contending")
        /\ UNCHANGED <<file, mutex, stopfile, faults>>
  /\ UNCHANGED <<broker, launching, child>>

\* The pid goes to the file that was created, which may be gone by now.
writePid(v) ==
  /\ Moves(v, {"created", "recreated"}, "loop")
  /\ file' = [file EXCEPT !.written = @ \/ file.by = v]
  /\ mutex' = IF sup[v] = "recreated" THEN Nobody ELSE mutex
  /\ stopfile' = FALSE
  /\ UNCHANGED <<broker, launching, child, faults>>

\* The mutex of the takeover; one that was left behind is cleared for the next.
enterTakeover(v) ==
  /\ IF mutex = Nobody
       THEN Moves(v, {"contending"}, "takeover") /\ mutex' = v
       ELSE /\ Moves(v, {"contending"}, "off")
            /\ mutex' = IF mutex = Dead THEN Nobody ELSE mutex
  /\ UNCHANGED <<broker, launching, child, file, stopfile, faults>>

judgeFile(v) ==
  /\ IF readSupervisorLock
       THEN Moves(v, {"takeover"}, "off") /\ mutex' = Nobody
       ELSE Moves(v, {"takeover"}, "removing") /\ UNCHANGED mutex
  /\ UNCHANGED <<broker, launching, child, file, stopfile, faults>>

removeFile(v) ==
  /\ Moves(v, {"removing"}, "removed")
  /\ file' = NoFile
  /\ UNCHANGED <<broker, launching, child, mutex, stopfile, faults>>

\* Another one may have created it first: the second creation throws.
recreateFile(v) ==
  /\ \/ createFile(v, "removed", "recreated")
     \/ /\ file.by # Nobody
        /\ Moves(v, {"removed"}, "off") /\ mutex' = Nobody
        /\ UNCHANGED <<file, stopfile, faults>>
  /\ UNCHANGED <<broker, launching, child>>

\* (Mutation: the file is refreshed whoever it names.)
touchOnly(v) ==
  /\ sup[v] \in Running /\ file.by # Nobody /\ ~file.fresh
  /\ file' = [file EXCEPT !.fresh = TRUE]
  /\ UNCHANGED <<broker, launching, sup, child, mutex, stopfile, faults>>

\* The supervisor refreshes its file, or steps down if it is another's.
heartbeat(v) ==
  /\ \/ /\ sup[v] \in Running
        /\ file.by = v /\ file.written /\ ~file.fresh
        /\ file' = [file EXCEPT !.fresh = TRUE] /\ UNCHANGED sup
     \/ /\ ~(file.by = v /\ file.written)
        /\ Moves(v, Running, "stopping") /\ UNCHANGED file
  /\ UNCHANGED <<broker, launching, child, mutex, stopfile, faults>>

-----------------------------------------------------------------------------
(* The supervisor: its loop *)

\* While anybody serves the port it stands by.
checkHealth(v) ==
  /\ ~Serving /\ Moves(v, {"loop"}, "spawning")
  /\ UNCHANGED <<broker, launching, child, file, mutex, stopfile, faults>>

spawnChild(v) ==
  /\ Moves(v, {"spawning"}, "child")
  /\ \E b \in Broker : Spawned(b) /\ child' = [child EXCEPT ![v] = b]
  /\ UNCHANGED <<launching, file, mutex, stopfile, faults>>

\* The backoff is left out: it only delays the next round.
childExit(v) ==
  /\ child[v] # NoBroker /\ broker[child[v]] = "off"
  /\ Moves(v, {"child"}, "loop")
  /\ child' = [child EXCEPT ![v] = NoBroker]
  /\ UNCHANGED <<broker, launching, file, mutex, stopfile, faults>>

\* --stop
requestSupervisorStop ==
  /\ readSupervisorLock /\ ~stopfile /\ Fault("stop")
  /\ stopfile' = TRUE
  /\ UNCHANGED <<broker, launching, sup, child, file, mutex>>

seeStopfile(v) ==
  /\ stopfile /\ Moves(v, Running, "stopping")
  /\ UNCHANGED <<broker, launching, child, file, mutex, stopfile, faults>>

\* The child is killed and waited for; then the pidfile is read ...
stopChild(v) ==
  /\ Moves(v, {"stopping"}, IF file.by = v /\ file.written THEN "releasing" ELSE "off")
  /\ broker' = [b \in Broker |-> IF b = child[v] THEN "off" ELSE broker[b]]
  /\ child' = [child EXCEPT ![v] = NoBroker]
  /\ stopfile' = (stopfile /\ sup'[v] = "releasing")
  /\ UNCHANGED <<launching, file, mutex, faults>>

\* ... and removed if it was its own.
releaseSupervisorLock(v) ==
  /\ Moves(v, {"releasing"}, "off")
  /\ file' = NoFile /\ stopfile' = FALSE
  /\ UNCHANGED <<broker, launching, child, mutex, faults>>

\* The broker it ran goes on.
supervisorCrash(v) ==
  /\ sup[v] # "off" /\ Fault("crash")
  /\ sup' = [sup EXCEPT ![v] = "off"]
  /\ child' = [child EXCEPT ![v] = NoBroker]
  /\ file' = [file EXCEPT !.by = IF @ = v THEN Dead ELSE @]
  /\ mutex' = IF mutex = v THEN Dead ELSE mutex
  /\ UNCHANGED <<broker, launching, stopfile>>

\* Every lock in use looks stale when the machine wakes up.
machineSleeps ==
  /\ Fault("sleep")
  /\ lock' = [lock EXCEPT !.stale = lock.by # Nobody]
  /\ file' = [file EXCEPT !.fresh = FALSE]
  /\ UNCHANGED <<broker, at, stolen, sup, child, mutex, stopfile>>

-----------------------------------------------------------------------------
BrokerStep(b) == guard(b) \/ bind(b)

LauncherStep(l) ==
  \/ checkSupervisor(l) \/ tryAcquireLock(l) \/ spawnBroker(l) \/ releaseLock(l)
  \/ waited(l) \/ stealLock(l) \/ retryLock(l) \/ restartSpawn(l)

SupervisorStep(v) ==
  \/ writePid(v) \/ enterTakeover(v) \/ judgeFile(v) \/ removeFile(v)
  \/ recreateFile(v) \/ checkHealth(v) \/ spawnChild(v) \/ childExit(v)
  \/ stopChild(v) \/ releaseSupervisorLock(v)

LNext ==
  \/ \E b \in Broker : (BrokerStep(b) \/ brokerCrash(b)) /\ UNCHANGED stolen
  \/ \E l \in Launcher :
       isBrokerAlive(l) \/ LauncherStep(l) \/ restartKill(l) \/ launcherCrash(l)
  \/ \E v \in Supervisor :
       startSupervisor(v) \/ SupervisorStep(v) \/ heartbeat(v) \/ seeStopfile(v)
         \/ supervisorCrash(v)
  \/ lockAges \/ requestSupervisorStop \/ machineSleeps

LSpec == LInit /\ [][LNext]_lvars

-----------------------------------------------------------------------------
(* Every process takes its next step sometime, the MCP servers look for the *)
(* broker again and again (a heartbeat that failed three times), and time  *)
(* passes.  Nobody has to start a supervisor, or to stop one.              *)

LFairness ==
  /\ \A b \in Broker : WF_lvars(BrokerStep(b))
  /\ \A l \in Hook : WF_lvars(LauncherStep(l))
  /\ \A l \in Launcher \ Hook : WF_lvars(isBrokerAlive(l) \/ LauncherStep(l))
  /\ \A v \in Supervisor :
       WF_lvars(SupervisorStep(v)) /\ WF_lvars(heartbeat(v) \/ seeStopfile(v))
  /\ WF_lvars(lockAges)

LFairSpec == LSpec /\ LFairness

-----------------------------------------------------------------------------
(* Properties *)

\* Until a lock is taken for abandoned, one launcher at a time is between the
\* lock and the end of its launch.
OneLauncher ==
  ~stolen => Cardinality({l \in Launcher : at[l] \in {"holding", "watching"}}) =< 1

\* At most one supervisor runs.
OneSupervisor == Cardinality({v \in Supervisor : sup[v] \in Running}) =< 1

\* Two supervisors do not stay: when a pidfile was taken over from a live one,
\* one of the two steps down.
SupervisorsSettle == []<>OneSupervisor

\* Whatever died with whatever lock in its hands, the port is served again.
ServedAgain == []<>Serving

\* No broker process that lost the race for the port lingers.
LosersLeave == \A b \in Broker : []<>(broker[b] # "open")

\* What was started twice does not stay: the second supervisor steps down, and the
\* broker that lost the port exits.
DoublesLeave == SupervisorsSettle /\ LosersLeave
=============================================================================
