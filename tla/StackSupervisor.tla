--------------------------- MODULE StackSupervisor ---------------------------
(***************************************************************************)
(* run_stack.py: the launcher that checks the infrastructure, starts the   *)
(* backend services one after the other, then the M1->M2 bridge and the    *)
(* web frontends, and supervises them; the --stop command, which may run   *)
(* at any time beside it; and the operating system's processes, which bind *)
(* their ports late, die, and outlive the launcher that started them.      *)
(*                                                                         *)
(* A process is <<name, run>>: the component and the launch that started   *)
(* it.  `up' holds the processes that serve their component's port (for    *)
(* the bridge: that have written their banner).                            *)
(***************************************************************************)
EXTENDS Naturals, Sequences, FiniteSets, Functions

CONSTANTS
  Infra,        \* the probed infrastructure, in order; Infra[1] is Docker
  Containers,   \* what ensure_containers_running can start
  Services,     \* SERVICES_SPEC, in order
  M1,           \* the service with a second probe, /ready
  Bridge,       \* BRIDGE_SPEC
  Frontends,    \* UI_SERVICES_SPEC, in order
  Polls,        \* polls of the bridge in its stabilisation window
  MaxTries,     \* bound: polls before a deadline passes
  MaxRuns,      \* bound: launches
  MaxFaults     \* bound: deaths, outages and hard kills of the launcher

Names == Range(Services) \cup {Bridge} \cup Range(Frontends)

\* A service or a frontend has one entry.
Listing(s) == s \in Seq(Range(s)) /\ \A i, j \in DOMAIN s : s[i] = s[j] => i = j

ASSUME StackAssumption ==
  /\ Infra \in Seq(Range(Infra)) /\ Listing(Services) /\ Listing(Frontends)
  /\ Infra # <<>> /\ {"kafka", "minio"} \cup Containers \subseteq Range(Infra)
  /\ M1 \in Range(Services)
  /\ Bridge \notin Range(Services) \cup Range(Frontends)
  /\ Range(Services) \cap Range(Frontends) = {}
  /\ Polls \in Nat /\ MaxTries \in Nat /\ MaxRuns \in Nat /\ MaxFaults \in Nat

VARIABLES
  run,       \* launches so far; processes of the launcher carry its number
  mode,      \* "supervise", "check" (--check-only) or "infra" (--infra-only)
  plan,      \* what this launch starts, in order
  at,        \* where the launcher is, "off" when there is none
  state,     \* DeploymentSupervisor.state
  step,      \* position in Infra or in plan
  tries,     \* polls since the last deadline was set
  records,   \* records[n]: pid_records[n].status; "none" if not in procs,
             \* "HEALTHY" for M1 between its two probes
  exit,      \* how the launcher of this run ended
  pidfile,   \* the run whose PID file exists, 0 for none
  stopper,   \* where --stop is
  alive,     \* processes that run
  up,        \* processes that answer on their component's port
  available, \* infrastructure that answers its probe
  created,   \* what the probes create: the Kafka topic and the MinIO bucket
  diedAt,    \* diedAt[n]: the step during which n of this run was found or
             \* made dead, 0 while it lives
  faults

launcher == <<run, mode, plan, at, state, step, tries, records, exit>>
stackVars == <<launcher, pidfile, stopper, alive, up, available, created, diedAt,
               faults>>

Full(ui) == Services \o <<Bridge>> \o (IF ui THEN Frontends ELSE <<>>)

TypeOK ==
  /\ run \in 0..MaxRuns /\ mode \in {"supervise", "check", "infra"}
  /\ plan \in {Full(TRUE), Full(FALSE)}
  /\ at \in {"off", "kill", "ports", "infra", "popen", "record", "poll",
             "get", "banner", "stable", "write", "supervise", "cleanup"}
  /\ state \in {"INFRASTRUCTURE_STARTING", "INFRASTRUCTURE_READY",
                "SERVICES_STARTING", "SERVICES_READY", "PIPELINE_READY",
                "FAILED"}
  /\ step \in Nat /\ tries \in 0..MaxTries + Polls
  /\ records \in [Names -> {"none", "STARTING", "HEALTHY", "READY"}]
  /\ exit \in {"none", "0", "1", "left", "killed"}
  /\ pidfile \in 0..MaxRuns /\ stopper \in {"off", "ports"}
  /\ alive \subseteq Names \X (1..MaxRuns) /\ up \subseteq alive
  /\ available \subseteq Range(Infra)
  /\ created \subseteq {"topic", "bucket"}
  /\ diedAt \in [Names -> Nat] /\ faults \in 0..MaxFaults

\* Nothing of the stack runs; the infrastructure is up or not.
StackInit ==
  /\ run = 0 /\ mode = "supervise" /\ plan = Full(FALSE)
  /\ at = "off" /\ state = "INFRASTRUCTURE_STARTING" /\ step = 1 /\ tries = 0
  /\ records = [n \in Names |-> "none"] /\ exit = "none"
  /\ pidfile = 0 /\ stopper = "off" /\ alive = {} /\ up = {}
  /\ available \in {Range(Infra) \ S : S \in SUBSET Containers}
  /\ created \in {{}, {"topic", "bucket"}}
  /\ diedAt = [n \in Names |-> 0] /\ faults = 0

Fault == faults < MaxFaults /\ faults' = faults + 1
procs == {n \in Names : records[n] # "none"}
Own(n) == <<n, run>>
Running(n) == Own(n) \in alive

\* Processes end; the launcher's own are remembered with the step.
End(gone) ==
  /\ alive' = alive \ gone /\ up' = up \ gone
  /\ diedAt' = [n \in Names |-> IF Own(n) \in gone \cap alive
                                THEN step ELSE diedAt[n]]
-----------------------------------------------------------------------------
(* main and run. *)

\* A new launch: DeploymentSupervisor.__init__ and the handlers of run().
Launch(m, ui) ==
  /\ at = "off" /\ run < MaxRuns
  /\ run' = run + 1 /\ mode' = m /\ plan' = Full(ui)
  /\ at' = IF m = "infra" THEN "infra" ELSE "kill"
  /\ state' = "INFRASTRUCTURE_STARTING" /\ step' = 1 /\ tries' = 0
  /\ records' = [n \in Names |-> "none"] /\ exit' = "none"
  /\ diedAt' = [n \in Names |-> 0]
  /\ UNCHANGED <<pidfile, stopper, alive, up, available, created, faults>>

\* kill_existing_processes(keep_ui=True): the bridges by their command line,
\* then whatever listens on a port of a service.  Processes that have not
\* bound their port yet are not found, and frontends are kept.
Bridges == {p \in alive : p[1] = Bridge}
Listeners == {p \in up : p[1] \in Range(Services)}

KillBridges ==
  /\ at = "kill" /\ at' = "ports"
  /\ End(Bridges)
  /\ UNCHANGED <<run, mode, plan, state, step, tries, records, exit, pidfile,
                 stopper, available, created, faults>>

KillListeners ==
  /\ at = "ports" /\ at' = "infra"
  /\ End(Listeners)
  /\ UNCHANGED <<run, mode, plan, state, step, tries, records, exit, pidfile,
                 stopper, available, created, faults>>

\* main with --stop: the same, then the PID file is removed.
StopBridges ==
  /\ stopper = "off" /\ stopper' = "ports"
  /\ End(Bridges)
  /\ UNCHANGED <<launcher, pidfile, available, created, faults>>

StopListeners ==
  /\ stopper = "ports" /\ stopper' = "off"
  /\ End(Listeners)
  /\ pidfile' = 0
  /\ UNCHANGED <<launcher, available, created, faults>>

-----------------------------------------------------------------------------
(* verify_infrastructure. *)

Exit(code) == at' = "off" /\ exit' = code

\* ensure_containers_running and the restart inside probe_kafka.
StartContainer(c) ==
  /\ at = "infra" /\ step > 1 /\ c \in Containers \ available
  /\ available' = available \cup {c}
  /\ UNCHANGED <<launcher, pidfile, stopper, alive, up, created, diedAt,
                 faults>>

\* What a successful probe has made sure of.
Creates(c) == (IF c = "kafka" THEN {"topic"} ELSE {})
                \cup (IF c = "minio" THEN {"bucket"} ELSE {})

\* Mutant: Kafka without the topic is good enough.
ProbeSucceedsLax ==
  /\ at = "infra" /\ Infra[step] \in available
  /\ tries' = 0
  /\ IF step < Len(Infra)
     THEN step' = step + 1 /\ UNCHANGED <<at, state, exit>>
     ELSE /\ step' = 1
          /\ IF mode = "infra"
             THEN state' = "INFRASTRUCTURE_READY" /\ Exit("0")
             ELSE /\ state' = "SERVICES_STARTING"
                  /\ at' = "popen" /\ UNCHANGED exit
  /\ UNCHANGED <<run, mode, plan, records, pidfile, stopper, alive, up,
                 available, created, diedAt, faults>>

\* The next component; after the last one INFRASTRUCTURE_READY, where
\* --infra-only ends and start_services begins.
ProbeSucceeds ==
  /\ at = "infra" /\ Infra[step] \in available
  /\ created' = created \cup Creates(Infra[step])
  /\ tries' = 0
  /\ IF step < Len(Infra)
     THEN step' = step + 1 /\ UNCHANGED <<at, state, exit>>
     ELSE /\ step' = 1
          /\ IF mode = "infra"
             THEN state' = "INFRASTRUCTURE_READY" /\ Exit("0")
             ELSE /\ state' = "SERVICES_STARTING"
                  /\ at' = "popen" /\ UNCHANGED exit
  /\ UNCHANGED <<run, mode, plan, records, pidfile, stopper, alive, up,
                 available, diedAt, faults>>

\* A failed attempt: again until the deadline (Docker is asked once), then
\* FAILED and sys.exit(1) without cleanup().
ProbeFails ==
  /\ at = "infra" /\ Infra[step] \notin available
  /\ \/ /\ step > 1 /\ tries < MaxTries
        /\ tries' = tries + 1 /\ UNCHANGED <<at, state, exit>>
     \/ state' = "FAILED" /\ Exit("1") /\ UNCHANGED tries
  /\ UNCHANGED <<run, mode, plan, step, records, pidfile, stopper, alive, up,
                 available, created, diedAt, faults>>
-----------------------------------------------------------------------------
(* start_services. *)

Current == plan[step]

\* spawn_service: Popen returns, then the process is recorded.
Popen ==
  /\ at = "popen" /\ at' = "record"
  /\ alive' = alive \cup {Own(Current)}
  /\ UNCHANGED <<run, mode, plan, state, step, tries, records, exit, pidfile,
                 stopper, up, available, created, diedAt, faults>>

Record ==
  /\ at = "record"
  /\ at' = IF Current = Bridge THEN "banner" ELSE "poll"
  /\ records' = [records EXCEPT ![Current] = "STARTING"]
  /\ tries' = 0
  /\ UNCHANGED <<run, mode, plan, state, step, exit, pidfile, stopper, alive,
                 up, available, created, diedAt, faults>>

\* A failed start: state FAILED, and run() calls cleanup().
GiveUp == state' = "FAILED" /\ at' = "cleanup" /\ UNCHANGED tries

\* Mutant: only the service waited for is polled.
PollOwn ==
  /\ at = "poll"
  /\ IF Running(Current)
     THEN at' = "get" /\ UNCHANGED <<state, tries>>
     ELSE GiveUp
  /\ UNCHANGED <<run, mode, plan, step, records, exit, pidfile, stopper,
                 alive, up, available, created, diedAt, faults>>

\* wait_for_http and wait_for_m1_ready: every process is polled first.
Poll ==
  /\ at = "poll"
  /\ IF \A n \in procs : Running(n)
     THEN at' = "get" /\ UNCHANGED <<state, tries>>
     ELSE GiveUp
  /\ UNCHANGED <<run, mode, plan, step, records, exit, pidfile, stopper,
                 alive, up, available, created, diedAt, faults>>

\* Whoever holds the port answers; /ready needs Kafka and MinIO as well.
Answers ==
  /\ \E r \in 1..MaxRuns : <<Current, r>> \in up
  /\ records[Current] = "HEALTHY" => {"kafka", "minio"} \subseteq available

\* The component is READY: go on to the next one, or to the PID file.
Advance ==
  /\ records' = [records EXCEPT ![Current] = "READY"]
  /\ tries' = 0
  /\ state' = IF step = Len(Services) THEN "SERVICES_READY" ELSE state
  /\ IF step < Len(plan) THEN step' = step + 1 /\ at' = "popen"
                         ELSE at' = "write" /\ UNCHANGED step

\* 200 or 202: READY, after M1's second probe for M1.
GetAnswered ==
  /\ at = "get" /\ Answers
  /\ \/ /\ Current = M1 /\ records[M1] = "STARTING"
        /\ records' = [records EXCEPT ![M1] = "HEALTHY"]
        /\ tries' = 0 /\ at' = "poll" /\ UNCHANGED <<state, step>>
     \/ /\ Current = M1 => records[M1] = "HEALTHY"
        /\ Advance
  /\ UNCHANGED <<run, mode, plan, exit, pidfile, stopper, alive, up,
                 available, created, diedAt, faults>>

\* Mutant: no deadline.
GetFailsForever ==
  /\ at = "get" /\ ~Answers
  /\ at' = "poll"
  /\ UNCHANGED <<run, mode, plan, state, step, tries, records, exit, pidfile,
                 stopper, alive, up, available, created, diedAt, faults>>

\* No answer: again, until the deadline.
GetFails ==
  /\ at = "get" /\ ~Answers
  /\ \/ /\ tries < MaxTries /\ tries' = tries + 1
        /\ at' = "poll" /\ UNCHANGED state
     \/ GiveUp
  /\ UNCHANGED <<run, mode, plan, step, records, exit, pidfile, stopper,
                 alive, up, available, created, diedAt, faults>>

\* verify_bridge_liveness polls the bridge alone: until its banner is in the
\* log, then for the stabilisation window.
BridgeBanner ==
  /\ at = "banner"
  /\ \/ Running(Bridge) /\ Own(Bridge) \in up
        /\ at' = "stable" /\ tries' = 0 /\ UNCHANGED state
     \/ Running(Bridge) /\ Own(Bridge) \notin up
        /\ tries < MaxTries /\ tries' = tries + 1 /\ UNCHANGED <<at, state>>
     \/ Own(Bridge) \notin up /\ GiveUp
  /\ UNCHANGED <<run, mode, plan, step, records, exit, pidfile, stopper,
                 alive, up, available, created, diedAt, faults>>

BridgeStable ==
  /\ at = "stable"
  /\ \/ /\ Running(Bridge) /\ tries < Polls
        /\ tries' = tries + 1 /\ UNCHANGED <<at, state, step, records>>
     \/ Running(Bridge) /\ tries = Polls /\ Advance
     \/ ~Running(Bridge) /\ GiveUp /\ UNCHANGED <<step, records>>
  /\ UNCHANGED <<run, mode, plan, exit, pidfile, stopper, alive, up,
                 available, created, diedAt, faults>>

\* The PID file is written and PIPELINE_READY announced; --check-only returns
\* and leaves the processes running.
Announce ==
  /\ at = "write"
  /\ pidfile' = run /\ state' = "PIPELINE_READY"
  /\ IF mode = "check" THEN Exit("left")
                       ELSE at' = "supervise" /\ UNCHANGED exit
  /\ UNCHANGED <<run, mode, plan, step, tries, records, stopper, alive, up,
                 available, created, diedAt, faults>>

\* The supervision loop finds a dead process.
Supervise ==
  /\ at = "supervise" /\ \E n \in procs : ~Running(n)
  /\ state' = "FAILED" /\ at' = "cleanup"
  /\ UNCHANGED <<run, mode, plan, step, tries, records, exit, pidfile,
                 stopper, alive, up, available, created, diedAt, faults>>

\* SIGINT or SIGTERM: the handler is cleanup().
Signal ==
  /\ at \notin {"off", "cleanup"} /\ mode # "infra"
  /\ at' = "cleanup"
  /\ UNCHANGED <<run, mode, plan, state, step, tries, records, exit, pidfile,
                 stopper, alive, up, available, created, diedAt, faults>>

\* cleanup's loop: the recorded processes, in the order they were started,
\* each with its children.  The kill takes effect here; the code also goes on
\* after one that fails (taskkill exists on Windows only) or takes more than
\* two seconds.  A second signal runs the handler inside the first, which
\* repeats the loop from its start: to the same end.
Terminate ==
  /\ at = "cleanup"
  /\ \E i \in DOMAIN plan :
       /\ plan[i] \in procs /\ Running(plan[i])
       /\ \A j \in 1..i - 1 : plan[j] \in procs => ~Running(plan[j])
       /\ End({Own(plan[i])})
  /\ UNCHANGED <<launcher, pidfile, stopper, available, created, faults>>

\* Mutant: only the services that became READY are stopped.
cleanupReady ==
  /\ at = "cleanup" /\ \A n \in procs : records[n] = "READY" => ~Running(n)
  /\ pidfile' = 0
  /\ Exit(IF state = "PIPELINE_READY" THEN "0" ELSE "1")
  /\ UNCHANGED <<run, mode, plan, state, step, tries, records, stopper, alive,
                 up, available, created, diedAt, faults>>

\* After the loop the PID file is removed and the launcher exits.
cleanup ==
  /\ at = "cleanup" /\ \A n \in procs : ~Running(n)
  /\ pidfile' = 0
  /\ Exit(IF state = "PIPELINE_READY" THEN "0" ELSE "1")
  /\ UNCHANGED <<run, mode, plan, state, step, tries, records, stopper, alive,
                 up, available, created, diedAt, faults>>
-----------------------------------------------------------------------------
(* The environment. *)

\* A process binds its port (the bridge writes its banner).
Bind(p) ==
  /\ p \in alive \ up
  /\ p[1] # Bridge => \A q \in up : q[1] # p[1]
  /\ up' = up \cup {p}
  /\ UNCHANGED <<launcher, pidfile, stopper, alive, available, created,
                 diedAt, faults>>

\* The port of a service is taken: it exits.  A frontend picks another port
\* and keeps running.
PortTaken(p) ==
  /\ p \in alive \ up /\ p[1] \in Range(Services)
  /\ \E q \in up : q[1] = p[1]
  /\ End({p})
  /\ UNCHANGED <<launcher, pidfile, stopper, available, created, faults>>

Dies(p) ==
  /\ Fault /\ p \in alive
  /\ End({p})
  /\ UNCHANGED <<launcher, pidfile, stopper, available, created>>

Outage(c) ==
  /\ Fault /\ c \in available
  /\ available' = available \ {c}
  /\ UNCHANGED <<launcher, pidfile, stopper, alive, up, created, diedAt>>

\* The launcher is killed hard, or its window closed.
LauncherKilled ==
  /\ Fault /\ at # "off"
  /\ Exit("killed")
  /\ UNCHANGED <<run, mode, plan, state, step, tries, records, pidfile,
                 stopper, alive, up, available, created, diedAt>>
-----------------------------------------------------------------------------
Launcher == \/ KillBridges \/ KillListeners
            \/ ProbeSucceeds \/ ProbeFails
            \/ Popen \/ Record \/ Poll \/ GetAnswered \/ GetFails
            \/ BridgeBanner \/ BridgeStable \/ Announce
            \/ Supervise \/ Terminate \/ cleanup

Environment == \/ \E p \in alive : Bind(p) \/ PortTaken(p) \/ Dies(p)
               \/ \E c \in Range(Infra) : StartContainer(c) \/ Outage(c)
               \/ LauncherKilled

StackNext == \/ \E m \in {"supervise", "check"}, ui \in BOOLEAN : Launch(m, ui)
             \/ Launch("infra", FALSE)
             \/ Launcher \/ Signal \/ StopBridges \/ StopListeners
             \/ Environment

\* The launcher is a running process: it takes every step it can take.
StackSpec == StackInit /\ [][StackNext]_stackVars
FairStackSpec == StackSpec /\ WF_stackVars(Launcher)
-----------------------------------------------------------------------------
(* Properties. *)

\* "Sequential startup with health verification": whatever fails, is stopped
\* or restarted meanwhile, a component of this launch runs only if the topic
\* and the bucket exist, and only once every component before it is READY.
StartedInOrder ==
  \A i \in DOMAIN plan :
    Running(plan[i]) =>
      /\ created = {"topic", "bucket"}
      /\ \A j \in 1..i - 1 : records[plan[j]] = "READY"

\* A launch that ends by itself, by a signal or by a failure leaves none of
\* the processes it recorded behind, and no PID file of its own; only
\* --check-only and a hard kill do.
NothingLeftBehind ==
  at = "off" /\ exit \in {"0", "1"} =>
    /\ \A n \in procs : ~Running(n)
    /\ pidfile = run => run = 0

\* The last component whose start polls all the others.
LastPoller == CHOOSE i \in DOMAIN plan :
                /\ plan[i] # Bridge
                /\ \A j \in DOMAIN plan : plan[j] # Bridge => j <= i

\* A component that dies before the last HTTP wait of the start-up is noticed:
\* PIPELINE_READY is not announced.
DeathsNoticed ==
  state = "PIPELINE_READY" =>
    \A n \in procs : diedAt[n] # 0 => diedAt[n] >= LastPoller

\* A launch ends or comes to supervise, and a supervised process that dies
\* takes the launcher, and with it the stack, down.
LaunchSettles ==
  /\ (at # "off") ~> (at \in {"off", "supervise"})
  /\ (at = "supervise" /\ \E n \in procs : ~Running(n)) ~> (at = "off")

=============================================================================
