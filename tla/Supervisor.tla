------------------------------ MODULE Supervisor ------------------------------
(***************************************************************************)
(* The supervisor of the sing-box child process                            *)
(* (internal/supervisor/supervisor.go): Apply, restart, Stop and the       *)
(* waiter goroutine that restart leaves behind.                            *)
(*                                                                         *)
(* Apply is not serialised by any lock: mu protects only the fields cmd,   *)
(* cancel, running and lastErr, one short critical section at a time.  So  *)
(* one action below is one critical section or one system call, and the    *)
(* goroutines that are inside Apply interleave between them.               *)
(***************************************************************************)
EXTENDS Naturals, FiniteSets

CONSTANTS
    Appliers,   \* goroutines that call Apply (API handlers, traffic loop, TLS)
    Main,       \* the main goroutine: it calls Stop once, at shutdown
    Configs,    \* compiled configurations
    Valid,      \* those that `sing-box check` accepts
    Children,   \* process identities, each used at most once (a bound for TLC)
    Nil,        \* "no process"
    Faults,     \* which faults of the environment may happen
    Modes       \* the values SOOOSKI_CORE_MODE may have

FaultKinds == {"write", "lookpath", "start", "crash", "slowload", "slowdeath"}

ASSUME SupervisorAssumption ==
    /\ Main \notin Appliers
    /\ Valid \subseteq Configs
    /\ Nil \notin Children \cup Configs
    /\ Faults \subseteq FaultKinds
    /\ Modes \subseteq {"embed", "noop"}

VARIABLES
    mode,       \* Supervisor.Mode
    file,       \* content of ConfigPath: a configuration, "empty" or "mixed"
    cmd,        \* Supervisor.cmd (cancel is set and cleared with it)
    running,    \* Supervisor.running
    lastErr,    \* Supervisor.lastErr, by its cause
    child,      \* the processes: unborn, starting, serving, signalled, dead
    loaded,     \* the configuration a process has read, Nil before
    waiter,     \* the goroutine of each process: idle, waiting, done
    pc,         \* where each goroutine is
    arg,        \* Apply's cfg, per goroutine
    took,       \* Stop's local cmd, per goroutine
    mine        \* restart's local cmd, per goroutine

vars == <<mode, file, cmd, running, lastErr, child, loaded, waiter,
          pc, arg, took, mine>>
fields == <<cmd, running, lastErr>>
processes == <<child, loaded, waiter>>
locals == <<arg, took, mine>>

Threads == Appliers \cup {Main}
FileContents == Configs \cup {"empty", "mixed"}
Causes == {"none", "notfound", "check", "start", "exit"}
Steps == {"idle", "open", "write", "look", "check", "take", "signal", "reap",
          "start", "set", "sleep", "exited"}

TypeOK ==
    /\ mode \in {"embed", "noop"}
    /\ file \in FileContents
    /\ cmd \in Children \cup {Nil}
    /\ running \in BOOLEAN
    /\ lastErr \in Causes
    /\ child \in [Children -> {"unborn", "starting", "serving", "signalled", "dead"}]
    /\ loaded \in [Children -> Configs \cup {Nil}]
    /\ waiter \in [Children -> {"idle", "waiting", "done"}]
    /\ pc \in [Threads -> Steps]
    /\ arg \in [Appliers -> Configs \cup {Nil}]
    /\ took \in [Threads -> Children \cup {Nil}]
    /\ mine \in [Appliers -> Children \cup {Nil}]

Init ==
    /\ mode \in Modes
    /\ file = "empty"
    /\ cmd = Nil
    /\ running = FALSE
    /\ lastErr = "none"
    /\ child = [k \in Children |-> "unborn"]
    /\ loaded = [k \in Children |-> Nil]
    /\ waiter = [k \in Children |-> "idle"]
    /\ pc = [t \in Threads |-> "idle"]
    /\ arg = [a \in Appliers |-> Nil]
    /\ took = [t \in Threads |-> Nil]
    /\ mine = [a \in Appliers |-> Nil]

(* The panel's goroutines run until main returns. *)
Up == pc[Main] # "exited"
Goto(t, from, to) == Up /\ pc[t] = from /\ pc' = [pc EXCEPT ![t] = to]
Alive(k) == child[k] \in {"starting", "serving"}
HoldsPorts(k) == loaded[k] # Nil /\ child[k] # "dead"

-------------------------------------------------------------------------------
(* Apply: os.WriteFile truncates the file and then writes it.  The guard on  *)
(* Children keeps a fresh process for every Apply in flight.                  *)
Unborn == {k \in Children : child[k] = "unborn"}
InFlight == {a \in Appliers : pc[a] # "idle"}

CallLosingItsArgument(a, cfg) ==
    /\ Cardinality(InFlight) < Cardinality(Unborn)
    /\ Goto(a, "idle", "open")
    /\ UNCHANGED <<mode, file, fields, processes, locals>>

Call(a, cfg) ==
    /\ Cardinality(InFlight) < Cardinality(Unborn)
    /\ Goto(a, "idle", "open")
    /\ arg' = [arg EXCEPT ![a] = cfg]
    /\ took' = [took EXCEPT ![a] = Nil]
    /\ mine' = [mine EXCEPT ![a] = Nil]
    /\ UNCHANGED <<mode, file, fields, processes>>

Truncate(a) ==
    /\ Goto(a, "open", "write")
    /\ file' = "empty"
    /\ UNCHANGED <<mode, fields, processes, locals>>

(* Two writers that both truncated before either wrote leave one             *)
(* configuration with, possibly, the tail of a longer one behind it.          *)
Write(a) ==
    /\ Goto(a, "write", "look")
    /\ file' \in IF file = "empty" THEN {arg[a]} ELSE {arg[a], "mixed"}
    /\ UNCHANGED <<mode, fields, processes, locals>>

WriteFails(a) ==
    /\ "write" \in Faults
    /\ \/ Goto(a, "open", "idle")
       \/ Goto(a, "write", "idle")
    /\ UNCHANGED <<mode, file, fields, processes, locals>>

Noop(a) ==
    /\ mode = "noop"
    /\ Goto(a, "look", "idle")
    /\ running' = TRUE
    /\ lastErr' = "none"
    /\ UNCHANGED <<mode, file, cmd, processes, locals>>

LookPathFails(a) ==
    /\ mode # "noop"
    /\ "lookpath" \in Faults
    /\ Goto(a, "look", "idle")
    /\ running' = FALSE
    /\ lastErr' = "notfound"
    /\ UNCHANGED <<mode, file, cmd, processes, locals>>

LookPathSkippingCheck(a) ==
    /\ mode # "noop"
    /\ Goto(a, "look", "take")
    /\ UNCHANGED <<mode, file, fields, processes, locals>>

LookPath(a) ==
    /\ mode # "noop"
    /\ Goto(a, "look", "check")
    /\ UNCHANGED <<mode, file, fields, processes, locals>>

(* `sing-box check` reads the shared file, not the caller's bytes. *)
CheckFails(a) ==
    /\ file \notin Valid
    /\ Goto(a, "check", "idle")
    /\ lastErr' = "check"
    /\ UNCHANGED <<mode, file, cmd, running, processes, locals>>

CheckPasses(a) ==
    /\ file \in Valid
    /\ Goto(a, "check", "take")
    /\ UNCHANGED <<mode, file, fields, processes, locals>>

-------------------------------------------------------------------------------
(* Stop: called by restart, and by main at shutdown. *)
Shutdown ==
    /\ Goto(Main, "idle", "take")
    /\ UNCHANGED <<mode, file, fields, processes, locals>>

AfterStop(t) == IF t = Main THEN "exited" ELSE "start"

StopTakeLeavingRunning(t) ==
    /\ Goto(t, "take", IF cmd = Nil THEN AfterStop(t) ELSE "signal")
    /\ took' = [took EXCEPT ![t] = cmd]
    /\ cmd' = Nil
    /\ UNCHANGED <<mode, file, running, lastErr, processes, arg, mine>>

StopTake(t) ==
    /\ Goto(t, "take", IF cmd = Nil THEN AfterStop(t) ELSE "signal")
    /\ took' = [took EXCEPT ![t] = cmd]
    /\ cmd' = Nil
    /\ running' = FALSE
    /\ UNCHANGED <<mode, file, lastErr, processes, arg, mine>>

StopWithoutKill(t) ==
    /\ Goto(t, "signal", AfterStop(t))
    /\ UNCHANGED <<mode, file, fields, processes, locals>>

(* cancel() and SIGTERM to the process group. *)
StopSignal(t) ==
    /\ Goto(t, "signal", "reap")
    /\ child' = [child EXCEPT ![took[t]] = IF @ = "dead" THEN @ ELSE "signalled"]
    /\ UNCHANGED <<mode, file, fields, loaded, waiter, locals>>

StopWithoutWaiting(t) ==
    /\ Goto(t, "reap", AfterStop(t))
    /\ UNCHANGED <<mode, file, fields, processes, locals>>

(* The process is gone, or three seconds have passed (then SIGKILL is sent   *)
(* and not waited for).                                                       *)
StopReap(t) ==
    /\ Goto(t, "reap", AfterStop(t))
    /\ child[took[t]] = "dead" \/ "slowdeath" \in Faults
    /\ UNCHANGED <<mode, file, fields, processes, locals>>

-------------------------------------------------------------------------------
(* The rest of restart: start the process, then publish it under mu and      *)
(* leave a goroutine waiting for it.                                          *)
StartFails(a) ==
    /\ "start" \in Faults
    /\ Goto(a, "start", "idle")
    /\ running' = FALSE
    /\ lastErr' = "start"
    /\ UNCHANGED <<mode, file, cmd, processes, locals>>

Start(a, k) ==
    /\ child[k] = "unborn"
    /\ Goto(a, "start", "set")
    /\ child' = [child EXCEPT ![k] = "starting"]
    /\ mine' = [mine EXCEPT ![a] = k]
    /\ UNCHANGED <<mode, file, fields, loaded, waiter, arg, took>>

SetCmd(a) ==
    /\ Goto(a, "set", "sleep")
    /\ cmd' = mine[a]
    /\ running' = TRUE
    /\ lastErr' = "none"
    /\ waiter' = [waiter EXCEPT ![mine[a]] = "waiting"]
    /\ UNCHANGED <<mode, file, child, loaded, locals>>

(* The sleep of 150 ms is meant to give the process time to start; without   *)
(* the fault "slowload" it is enough.                                         *)
Return(a) ==
    /\ Goto(a, "sleep", "idle")
    /\ child[mine[a]] # "starting" \/ "slowload" \in Faults
    /\ UNCHANGED <<mode, file, fields, processes, locals>>

WaiterWithoutGuard(k) ==
    /\ Up
    /\ waiter[k] = "waiting" /\ child[k] = "dead"
    /\ waiter' = [waiter EXCEPT ![k] = "done"]
    /\ running' = FALSE /\ lastErr' \in {"exit", lastErr}
    /\ UNCHANGED <<mode, file, cmd, child, loaded, pc, locals>>

(* cmd.Wait returned: only the process that is still published is reported. *)
Waiter(k) ==
    /\ Up
    /\ waiter[k] = "waiting" /\ child[k] = "dead"
    /\ waiter' = [waiter EXCEPT ![k] = "done"]
    /\ IF cmd = k
       THEN running' = FALSE /\ lastErr' \in {"exit", lastErr}
       ELSE UNCHANGED <<running, lastErr>>
    /\ UNCHANGED <<mode, file, cmd, child, loaded, pc, locals>>

-------------------------------------------------------------------------------
(* The processes.  sing-box reads the file once, when it starts; it exits if  *)
(* the file is unusable or another process still has the ports.               *)
ChildLoads(k) ==
    /\ child[k] = "starting"
    /\ IF file \in Valid /\ \A j \in Children : ~HoldsPorts(j)
       THEN /\ child' = [child EXCEPT ![k] = "serving"]
            /\ loaded' = [loaded EXCEPT ![k] = file]
       ELSE /\ child' = [child EXCEPT ![k] = "dead"]
            /\ UNCHANGED loaded
    /\ UNCHANGED <<mode, file, fields, waiter, pc, locals>>

ChildDies(k) ==
    /\ \/ child[k] = "signalled"
       \/ "crash" \in Faults /\ Alive(k)
    /\ child' = [child EXCEPT ![k] = "dead"]
    /\ UNCHANGED <<mode, file, fields, loaded, waiter, pc, locals>>

-------------------------------------------------------------------------------
ApplyStep(a) ==
    \/ Truncate(a) \/ Write(a) \/ WriteFails(a)
    \/ Noop(a) \/ LookPathFails(a) \/ LookPath(a)
    \/ CheckFails(a) \/ CheckPasses(a)
    \/ StartFails(a) \/ SetCmd(a) \/ Return(a)
    \/ \E k \in Children : Start(a, k)

StopStep(t) == StopTake(t) \/ StopSignal(t) \/ StopReap(t)

Next ==
    \/ \E a \in Appliers : ApplyStep(a) \/ \E cfg \in Configs : Call(a, cfg)
    \/ \E t \in Threads : StopStep(t)
    \/ \E k \in Children : Waiter(k) \/ ChildLoads(k) \/ ChildDies(k)
    \/ Shutdown

(* Goroutines are scheduled, a starting process gets to read its file and a   *)
(* killed process dies.  Nobody is obliged to call Apply or to shut down.      *)
Fairness ==
    /\ \A a \in Appliers : WF_vars(ApplyStep(a))
    /\ \A t \in Threads : WF_vars(StopStep(t))
    /\ \A k \in Children :
        /\ WF_vars(Waiter(k))
        /\ WF_vars(ChildLoads(k))
        /\ WF_vars(child[k] = "signalled" /\ ChildDies(k))

Spec == Init /\ [][Next]_vars
FairSpec == Spec /\ Fairness

-------------------------------------------------------------------------------
(* The panel never shows sing-box as running unless a process is published    *)
(* whose waiter is still there to take the claim back (Running, the waiter's  *)
(* guard s.cmd == cmd).                                                        *)
RunningTruthful ==
    mode = "embed" /\ running => cmd # Nil /\ waiter[cmd] = "waiting"

(* The other half: while no error is shown, a published process is reported   *)
(* as running until its own waiter has seen it die; a waiter of a replaced      *)
(* process must not clear the flag of its successor.  (A missing binary and a   *)
(* failed start clear the flag of a process that lives, and leave their error.) *)
StatusExact ==
    cmd # Nil /\ lastErr = "none" => (running <=> waiter[cmd] = "waiting")

(* No orphan: while the panel is up every live process that nobody has        *)
(* killed is known to a goroutine that will publish or kill it.  It needs     *)
(* one caller of Apply at a time, which nothing in the code enforces.         *)
Held(k) ==
    \/ cmd = k
    \/ \E t \in Threads : pc[t] = "signal" /\ took[t] = k
    \/ \E a \in Appliers : pc[a] = "set" /\ mine[a] = k
NoOrphan == Up => \A k \in Children : Alive(k) => Held(k)

(* An Apply that stops before restart (a write error, a missing binary, a     *)
(* configuration that `sing-box check` rejects) leaves the process that is    *)
(* serving alone: once published and not crashed it is there whenever no      *)
(* restart is under way.                                                       *)
Published == {k \in Children : waiter[k] # "idle"}
Restarting == \E a \in Appliers : pc[a] \in {"signal", "reap", "start", "set", "sleep"}
KeepsServing ==
    pc[Main] = "idle" /\ Published # {} /\ ~Restarting
        => cmd # Nil /\ child[cmd] = "serving"

-------------------------------------------------------------------------------
(* The contract of ProxyContract, read off the supervisor's state when one    *)
(* goroutine calls Apply: from the moment restart has taken the old process    *)
(* until the new one serves, the target is that caller's argument; otherwise   *)
(* it is what the published process has loaded, or would load.                 *)
Replacing(a) ==
    \/ pc[a] \in {"signal", "reap", "start", "set"}
    \/ pc[a] = "sleep" /\ loaded[mine[a]] = Nil
Closing == pc[Main] \in {"signal", "reap", "exited"}
Target ==
    IF Closing THEN Nil
    ELSE IF \E a \in Appliers : Replacing(a)
         THEN arg[CHOOSE a \in Appliers : Replacing(a)]
         ELSE IF cmd = Nil THEN Nil ELSE IF loaded[cmd] = Nil THEN file ELSE loaded[cmd]
Serving ==
    IF Closing \/ cmd = Nil \/ (\E a \in Appliers : Replacing(a)) THEN Nil
    ELSE IF child[cmd] = "serving" THEN loaded[cmd] ELSE Nil
Contract == INSTANCE ProxyContract WITH target <- Target, serving <- Serving, None <- Nil

(* One caller and no fault of the process: Apply implements the contract,      *)
(* including that what it accepted is eventually served.                       *)
ImplementsContract == Contract!Spec
===============================================================================
