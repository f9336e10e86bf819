---------------------------- MODULE TelegramRunner ----------------------------
(***************************************************************************)
(* The runner of mtg-multi (internal/telegram/runner.go).  It supervises   *)
(* its child as module Supervisor describes, with two differences that     *)
(* this module is about: a running mtg is asked to reload its file instead *)
(* of being replaced, and an Apply whose configuration equals the cached   *)
(* one does nothing.  As there, no lock spans an Apply: one action is one  *)
(* critical section or one system call.                                    *)
(***************************************************************************)
EXTENDS Naturals, FiniteSets

CONSTANTS
    Appliers,   \* goroutines that call Apply
    Main,       \* the main goroutine, which calls Stop at shutdown
    Configs,    \* rendered configurations
    Off,        \* the argument of an Apply while Telegram is disabled
    Children,   \* process identities, each used at most once (a bound for TLC)
    Nil,        \* "no process", "no configuration"
    Faults,     \* which faults of the environment may happen
    Modes       \* the values SOOOSKI_CORE_MODE may have

ASSUME RunnerAssumption ==
    /\ Main \notin Appliers
    /\ Off \notin Configs /\ Nil \notin Configs \cup Children \cup {Off}
    /\ "empty" \notin Configs /\ "mixed" \notin Configs
    /\ Faults \subseteq {"write", "lookpath", "reload", "start", "crash", "slowload", "slowdeath"}
    /\ Modes \subseteq {"embed", "noop"}

VARIABLES
    mode,       \* Runner.Mode
    file,       \* content of ConfigPath: a configuration, "empty" or "mixed"
    cmd,        \* Runner.cmd (cancel is set and cleared with it)
    running,    \* Runner.running
    lastCfg,    \* Runner.lastCfg
    child,      \* the processes: unborn, starting, serving, signalled, dead
    loaded,     \* the configuration a process has read last, Nil before
    waiter,     \* the goroutine of each process: idle, waiting, done
    pc,         \* where each goroutine is
    arg,        \* Apply's configuration, Off when Telegram is disabled, Nil
                \* after an Apply that answered an error
    took,       \* Stop's local cmd, per goroutine
    mine        \* restart's local cmd, per goroutine

fields == <<cmd, running, lastCfg>>
processes == <<child, loaded, waiter>>
locals == <<arg, took, mine>>
vars == <<mode, file, fields, processes, pc, locals>>

Threads == Appliers \cup {Main}
Steps == {"idle", "same", "open", "write", "look", "reload", "take", "signal", "reap",
          "start", "set", "sleep", "remember", "exited"}

TypeOK ==
    /\ mode \in {"embed", "noop"}
    /\ file \in Configs \cup {"empty", "mixed"}
    /\ cmd \in Children \cup {Nil}
    /\ running \in BOOLEAN
    /\ lastCfg \in Configs \cup {Nil}
    /\ child \in [Children -> {"unborn", "starting", "serving", "signalled", "dead"}]
    /\ loaded \in [Children -> Configs \cup {Nil}]
    /\ waiter \in [Children -> {"idle", "waiting", "done"}]
    /\ pc \in [Threads -> Steps]
    /\ arg \in [Appliers -> Configs \cup {Off, Nil}]
    /\ took \in [Threads -> Children \cup {Nil}]
    /\ mine \in [Appliers -> Children \cup {Nil}]

Init ==
    /\ mode \in Modes
    /\ file = "empty"
    /\ cmd = Nil /\ running = FALSE /\ lastCfg = Nil
    /\ child = [k \in Children |-> "unborn"]
    /\ loaded = [k \in Children |-> Nil]
    /\ waiter = [k \in Children |-> "idle"]
    /\ pc = [t \in Threads |-> "idle"]
    /\ arg = [a \in Appliers |-> Nil]
    /\ took = [t \in Threads |-> Nil]
    /\ mine = [a \in Appliers |-> Nil]

Up == pc[Main] # "exited"
Goto(t, from, to) == Up /\ pc[t] = from /\ pc' = [pc EXCEPT ![t] = to]
HoldsPorts(k) == loaded[k] # Nil /\ child[k] # "dead"
Unborn == {k \in Children : child[k] = "unborn"}
InFlight == {a \in Appliers : pc[a] # "idle"}

-------------------------------------------------------------------------------
(* Apply.  The guard on Children keeps a fresh process for every Apply. *)
CallLosingItsArgument(a, cfg) ==
    /\ Cardinality(InFlight) < Cardinality(Unborn)
    /\ Goto(a, "idle", IF cfg = Off THEN "take" ELSE "same")
    /\ UNCHANGED <<mode, file, fields, processes, locals>>

Call(a, cfg) ==
    /\ Cardinality(InFlight) < Cardinality(Unborn)
    /\ Goto(a, "idle", IF cfg = Off THEN "take" ELSE "same")
    /\ arg' = [arg EXCEPT ![a] = cfg]
    /\ took' = [took EXCEPT ![a] = Nil]
    /\ mine' = [mine EXCEPT ![a] = Nil]
    /\ UNCHANGED <<mode, file, fields, processes>>

SameWithoutComparing(a) ==
    /\ Goto(a, "same", IF running /\ lastCfg # Nil THEN "idle" ELSE "open")
    /\ UNCHANGED <<mode, file, fields, processes, locals>>

(* A process that runs with these very bytes is left alone. *)
Same(a) ==
    /\ Goto(a, "same", IF running /\ lastCfg = arg[a] THEN "idle" ELSE "open")
    /\ UNCHANGED <<mode, file, fields, processes, locals>>

Truncate(a) ==
    /\ Goto(a, "open", "write")
    /\ file' = "empty"
    /\ UNCHANGED <<mode, fields, processes, locals>>

Write(a) ==
    /\ Goto(a, "write", "look")
    /\ file' \in IF file = "empty" THEN {arg[a]} ELSE {arg[a], "mixed"}
    /\ UNCHANGED <<mode, fields, processes, locals>>

GivesUp(a) == arg' = [arg EXCEPT ![a] = Nil] /\ UNCHANGED <<took, mine>>

WriteFailsUnnoticed(a) ==
    /\ "write" \in Faults
    /\ \/ Goto(a, "open", "idle")
       \/ Goto(a, "write", "idle")
    /\ UNCHANGED <<mode, file, fields, processes, locals>>

WriteFails(a) ==
    /\ "write" \in Faults
    /\ \/ Goto(a, "open", "idle")
       \/ Goto(a, "write", "idle")
    /\ GivesUp(a)
    /\ UNCHANGED <<mode, file, fields, processes>>

Noop(a) ==
    /\ mode = "noop"
    /\ Goto(a, "look", "idle")
    /\ running' = TRUE /\ lastCfg' = arg[a]
    /\ UNCHANGED <<mode, file, cmd, processes, locals>>

LookPathFails(a) ==
    /\ mode # "noop"
    /\ "lookpath" \in Faults
    /\ Goto(a, "look", "idle")
    /\ running' = FALSE
    /\ GivesUp(a)
    /\ UNCHANGED <<mode, file, cmd, lastCfg, processes>>

LookPath(a) ==
    /\ mode # "noop"
    /\ Goto(a, "look", IF running THEN "reload" ELSE "take")
    /\ UNCHANGED <<mode, file, fields, processes, locals>>

(* POST /reload on the fixed port reaches whoever holds it. *)
Listening(k) == HoldsPorts(k) /\ child[k] = "serving"
Reload(a) ==
    /\ Goto(a, "reload", "remember")
    /\ file \in Configs
    /\ \E k \in Children :
        /\ Listening(k)
        /\ loaded' = [loaded EXCEPT ![k] = file]
    /\ UNCHANGED <<mode, file, fields, child, waiter, locals>>

ReloadIgnoringTheAnswer(a) ==
    /\ Goto(a, "reload", "remember")
    /\ UNCHANGED <<mode, file, fields, processes, locals>>

(* Nobody listens, the file is unusable, or (fault "reload") mtg refuses, or   *)
(* reloads and answers too late: then the process is replaced.                  *)
ReloadFails(a) ==
    /\ Goto(a, "reload", "take")
    /\ \/ /\ \/ ~\E k \in Children : Listening(k)
             \/ file \notin Configs
             \/ "reload" \in Faults
          /\ UNCHANGED loaded
       \/ /\ "reload" \in Faults /\ file \in Configs
          /\ \E k \in Children :
                Listening(k) /\ loaded' = [loaded EXCEPT ![k] = file]
    /\ UNCHANGED <<mode, file, fields, child, waiter, locals>>

Remember(a) ==
    /\ Goto(a, "remember", "idle")
    /\ lastCfg' = arg[a]
    /\ UNCHANGED <<mode, file, cmd, running, processes, locals>>

-------------------------------------------------------------------------------
(* Stop: for a disabled proxy, in restart, and at shutdown. *)
Shutdown ==
    /\ Goto(Main, "idle", "take")
    /\ UNCHANGED <<mode, file, fields, processes, locals>>

AfterStop(t) ==
    IF t = Main THEN "exited" ELSE IF arg[t] = Off THEN "idle" ELSE "start"

StopTake(t) ==
    /\ Goto(t, "take", IF cmd = Nil THEN AfterStop(t) ELSE "signal")
    /\ took' = [took EXCEPT ![t] = cmd]
    /\ cmd' = Nil /\ running' = FALSE /\ lastCfg' = Nil
    /\ UNCHANGED <<mode, file, processes, arg, mine>>

StopWithoutKill(t) ==
    /\ Goto(t, "signal", AfterStop(t))
    /\ UNCHANGED <<mode, file, fields, processes, locals>>

StopSignal(t) ==
    /\ Goto(t, "signal", "reap")
    /\ child' = [child EXCEPT ![took[t]] = IF @ = "dead" THEN @ ELSE "signalled"]
    /\ UNCHANGED <<mode, file, fields, loaded, waiter, locals>>

StopReap(t) ==
    /\ Goto(t, "reap", AfterStop(t))
    /\ child[took[t]] = "dead" \/ "slowdeath" \in Faults
    /\ UNCHANGED <<mode, file, fields, processes, locals>>

(* The rest of restart. *)
StartFails(a) ==
    /\ "start" \in Faults
    /\ Goto(a, "start", "idle")
    /\ running' = FALSE
    /\ GivesUp(a)
    /\ UNCHANGED <<mode, file, cmd, lastCfg, processes>>

Start(a, k) ==
    /\ child[k] = "unborn"
    /\ Goto(a, "start", "set")
    /\ child' = [child EXCEPT ![k] = "starting"]
    /\ mine' = [mine EXCEPT ![a] = k]
    /\ UNCHANGED <<mode, file, fields, loaded, waiter, arg, took>>

SetCmd(a) ==
    /\ Goto(a, "set", "sleep")
    /\ cmd' = mine[a]
    /\ running' = TRUE
    /\ waiter' = [waiter EXCEPT ![mine[a]] = "waiting"]
    /\ UNCHANGED <<mode, file, lastCfg, child, loaded, locals>>

Return(a) ==
    /\ Goto(a, "sleep", "remember")
    /\ child[mine[a]] # "starting" \/ "slowload" \in Faults
    /\ UNCHANGED <<mode, file, fields, processes, locals>>

Waiter(k) ==
    /\ Up
    /\ waiter[k] = "waiting" /\ child[k] = "dead"
    /\ waiter' = [waiter EXCEPT ![k] = "done"]
    /\ running' = (running /\ cmd # k)
    /\ UNCHANGED <<mode, file, cmd, lastCfg, child, loaded, pc, locals>>

-------------------------------------------------------------------------------
(* The processes. *)
ChildLoads(k) ==
    /\ child[k] = "starting"
    /\ IF file \in Configs /\ \A j \in Children : ~HoldsPorts(j)
       THEN /\ child' = [child EXCEPT ![k] = "serving"]
            /\ loaded' = [loaded EXCEPT ![k] = file]
       ELSE child' = [child EXCEPT ![k] = "dead"] /\ UNCHANGED loaded
    /\ UNCHANGED <<mode, file, fields, waiter, pc, locals>>

ChildDies(k) ==
    /\ \/ child[k] = "signalled"
       \/ "crash" \in Faults /\ child[k] \in {"starting", "serving"}
    /\ child' = [child EXCEPT ![k] = "dead"]
    /\ UNCHANGED <<mode, file, fields, loaded, waiter, pc, locals>>

-------------------------------------------------------------------------------
ApplyStep(a) ==
    \/ Same(a) \/ Truncate(a) \/ Write(a) \/ WriteFails(a)
    \/ Noop(a) \/ LookPathFails(a) \/ LookPath(a) \/ Reload(a) \/ ReloadFails(a)
    \/ StartFails(a) \/ (\E k \in Children : Start(a, k)) \/ SetCmd(a) \/ Return(a)
    \/ Remember(a)

StopStep(t) == StopTake(t) \/ StopSignal(t) \/ StopReap(t)

Next ==
    \/ \E a \in Appliers : ApplyStep(a) \/ \E cfg \in Configs \cup {Off} : Call(a, cfg)
    \/ \E t \in Threads : StopStep(t)
    \/ \E k \in Children : Waiter(k) \/ ChildLoads(k) \/ ChildDies(k)
    \/ Shutdown

(* As in Supervisor: goroutines run, processes load and die when killed. *)
Fairness ==
    /\ \A a \in Appliers : WF_vars(ApplyStep(a))
    /\ \A t \in Threads : WF_vars(StopStep(t))
    /\ \A k \in Children :
        /\ WF_vars(Waiter(k))
        /\ WF_vars(ChildLoads(k))
        /\ WF_vars(child[k] = "signalled" /\ ChildDies(k))

Spec == Init /\ [][Next]_vars
FairSpec == Spec /\ Fairness

-------------------------------------------------------------------------------
AtRest == \A t \in Threads : pc[t] = "idle"

(* The cache tells the truth: between two Applies, what the runner will        *)
(* compare the next configuration with is what the process it believes to run  *)
(* has loaded, or will load when it gets to read the file.                      *)
Holds(k, cfg) ==
    \/ child[k] = "serving" /\ loaded[k] = cfg
    \/ child[k] = "starting" /\ file \in {cfg, "empty"}
    \/ child[k] = "dead"
CacheTruthful ==
    mode = "embed" /\ AtRest /\ running /\ lastCfg # Nil
        => cmd # Nil /\ Holds(cmd, lastCfg)

(* Apply keeps its word: one that answered no error leaves a published process *)
(* that has this configuration, will read it, or has died since; whether it     *)
(* was reloaded, replaced, or left alone because nothing had changed.            *)
AppliedHolds ==
    \A a \in Appliers :
        mode = "embed" /\ pc[a] = "idle" /\ arg[a] \in Configs /\ pc[Main] = "idle"
            => cmd # Nil /\ Holds(cmd, arg[a])

(* An Apply that finds Telegram disabled leaves no process behind, not even   *)
(* one that a missing binary had made the runner report as stopped.            *)
OffStops ==
    \A a \in Appliers :
        pc[a] = "idle" /\ arg[a] = Off /\ pc[Main] = "idle"
            => \A k \in Children : child[k] \notin {"starting", "serving"}

(* What an Apply was given is what mtg serves in the end, whether it came by   *)
(* a reload, by a reload that was refused or answered too late, or by a new     *)
(* process; unless it answers an error, mtg dies and is reported as stopped, or *)
(* the next Apply or the panel's end comes first.                                *)
Serves(cfg) == cmd # Nil /\ child[cmd] = "serving" /\ loaded[cmd] = cfg
Installed ==
    \A a \in Appliers, cfg \in Configs :
        (mode = "embed" /\ pc[a] = "same" /\ arg[a] = cfg)
            ~> \/ Serves(cfg) \/ (pc[a] = "idle" /\ ~running)
               \/ arg[a] # cfg \/ pc[Main] # "idle"
===============================================================================
