------------------------- MODULE TelegramRunnerProofs -------------------------
(***************************************************************************)
(* Proofs about TelegramRunner, for any configurations, processes and      *)
(* faults: its types with any number of callers, and what a single caller  *)
(* of Apply may rely on between two Applies.                                *)
(***************************************************************************)
EXTENDS TelegramRunner, TLAPS

-------------------------------------------------------------------------------
(* A goroutine inside Apply has a configuration, or Off until it has stopped. *)
Armed ==
    \A a \in Appliers :
        /\ pc[a] # "idle" => arg[a] \in Configs \cup {Off}
        /\ pc[a] \notin {"idle", "take", "signal", "reap"} => arg[a] \in Configs
TypeInv == TypeOK /\ Armed

LEMMA InitTypeInv == Init => TypeInv
<1> SUFFICES ASSUME Init PROVE TypeOK /\ Armed
  BY DEF TypeInv
<1> USE RunnerAssumption DEF RunnerAssumption, Init, Threads
<1>1. pc \in [Threads -> Steps] /\ Armed
  BY DEF Steps, Armed
<1> QED BY <1>1 DEF TypeOK

LEMMA StepTypeInv == TypeInv /\ [Next]_vars => TypeInv'
<1> SUFFICES ASSUME TypeInv, [Next]_vars PROVE TypeInv'
  OBVIOUS
<1> USE RunnerAssumption
    DEF RunnerAssumption, TypeInv, Armed, TypeOK, Steps, Threads, Goto, GivesUp, fields, processes, locals
<1>1. ASSUME NEW a \in Appliers, NEW cfg \in Configs \cup {Off}, Call(a, cfg)
      PROVE TypeInv'
  BY <1>1 DEF Call
<1>2. ASSUME NEW a \in Appliers, ApplyStep(a) PROVE TypeInv'
  <2>1. CASE Same(a) BY <2>1 DEF Same
  <2>2. CASE Truncate(a) BY <2>2 DEF Truncate
  <2>3. CASE Write(a) BY <2>3 DEF Write
  <2>4. CASE WriteFails(a) BY <2>4 DEF WriteFails
  <2>5. CASE Noop(a) BY <2>5 DEF Noop
  <2>6. CASE LookPathFails(a) BY <2>6 DEF LookPathFails
  <2>7. CASE LookPath(a) BY <2>7 DEF LookPath
  <2>8. CASE Reload(a) BY <2>8 DEF Reload
  <2>9. CASE ReloadFails(a) BY <2>9 DEF ReloadFails
  <2>10. CASE StartFails(a) BY <2>10 DEF StartFails
  <2>11. ASSUME NEW k \in Children, Start(a, k) PROVE TypeInv'
    BY <2>11 DEF Start
  <2>12. CASE SetCmd(a) BY <2>12 DEF SetCmd
  <2>13. CASE Return(a) BY <2>13 DEF Return
  <2>14. CASE Remember(a) BY <2>14 DEF Remember
  <2> QED
    BY <1>2, <2>1, <2>2, <2>3, <2>4, <2>5, <2>6, <2>7, <2>8, <2>9, <2>10, <2>11,
       <2>12, <2>13, <2>14 DEF ApplyStep
<1>3. ASSUME NEW t \in Threads, StopStep(t) PROVE TypeInv'
  <2>1. CASE StopTake(t)
    <3>1. CASE t = Main BY <2>1, <3>1 DEF StopTake, AfterStop
    <3>2. CASE t \in Appliers BY <2>1, <3>2 DEF StopTake, AfterStop
    <3> QED BY <3>1, <3>2
  <2>2. CASE StopSignal(t) BY <2>2 DEF StopSignal
  <2>3. CASE StopReap(t) BY <2>3 DEF StopReap, AfterStop
  <2> QED BY <1>3, <2>1, <2>2, <2>3 DEF StopStep
<1>4. ASSUME NEW k \in Children, Waiter(k) \/ ChildLoads(k) \/ ChildDies(k)
      PROVE TypeInv'
  <2>1. CASE Waiter(k) BY <2>1 DEF Waiter
  <2>2. CASE ChildLoads(k) BY <2>2 DEF ChildLoads
  <2>3. CASE ChildDies(k) BY <2>3 DEF ChildDies
  <2> QED BY <1>4, <2>1, <2>2, <2>3
<1>5. CASE Shutdown BY <1>5 DEF Shutdown
<1>6. CASE UNCHANGED vars BY <1>6 DEF vars
<1> QED BY <1>1, <1>2, <1>3, <1>4, <1>5, <1>6 DEF Next

(* Every variable keeps its type (the fields and locals of runner.go),        *)
(* however many goroutines are inside Apply.                                   *)
THEOREM RunnerTypes == Spec => []TypeOK
<1>1. TypeInv => TypeOK BY DEF TypeInv
<1> QED BY <1>1, InitTypeInv, StepTypeInv, PTL DEF Spec

-------------------------------------------------------------------------------
(* However many goroutines are inside Apply, what is shown as running was         *)
(* published by one of them and is watched: the flag, cmd and the waiter change   *)
(* in one critical section, and only the waiter of what is published clears it.   *)
Watched == mode = "embed" /\ running => cmd # Nil /\ waiter[cmd] = "waiting"
Started == \A a \in Appliers : pc[a] = "set" => mine[a] \in Children
WatchInv == TypeInv /\ Started /\ Watched

LEMMA StepWatch == WatchInv /\ [Next]_vars => WatchInv'
<1> SUFFICES ASSUME WatchInv, [Next]_vars PROVE Started' /\ Watched'
  BY StepTypeInv DEF WatchInv
<1> USE RunnerAssumption
    DEF RunnerAssumption, WatchInv, TypeInv, TypeOK, Started, Watched, Threads, Goto,
        GivesUp, fields, processes, locals
<1>1. ASSUME NEW a \in Appliers, NEW cfg \in Configs \cup {Off}, Call(a, cfg)
      PROVE  Started' /\ Watched'
  BY <1>1 DEF Call
<1>2. ASSUME NEW a \in Appliers, ApplyStep(a) PROVE Started' /\ Watched'
  <2>1. CASE Same(a) \/ Truncate(a) \/ Write(a) \/ WriteFails(a) \/ Noop(a)
    BY <2>1 DEF Same, Truncate, Write, WriteFails, Noop
  <2>2. CASE LookPathFails(a) \/ LookPath(a) \/ Reload(a) \/ ReloadFails(a)
    BY <2>2 DEF LookPathFails, LookPath, Reload, ReloadFails
  <2>3. ASSUME NEW k \in Children, Start(a, k) PROVE Started' /\ Watched'
    BY <2>3 DEF Start
  <2>4. CASE StartFails(a) \/ Return(a) \/ Remember(a)
    BY <2>4 DEF StartFails, Return, Remember
  <2>5. CASE SetCmd(a)
    BY <2>5 DEF SetCmd
  <2> QED BY <1>2, <2>1, <2>2, <2>3, <2>4, <2>5 DEF ApplyStep
<1>3. ASSUME NEW t \in Threads, StopStep(t) PROVE Started' /\ Watched'
  BY <1>3 DEF StopStep, StopTake, StopSignal, StopReap, AfterStop
<1>4. ASSUME NEW k \in Children, Waiter(k) \/ ChildLoads(k) \/ ChildDies(k)
      PROVE  Started' /\ Watched'
  <2>1. CASE Waiter(k) BY <2>1 DEF Waiter
  <2>2. CASE ChildLoads(k) \/ ChildDies(k) BY <2>2 DEF ChildLoads, ChildDies
  <2> QED BY <1>4, <2>1, <2>2
<1>5. CASE Shutdown \/ UNCHANGED vars
  BY <1>5 DEF Shutdown, vars
<1> QED BY <1>1, <1>2, <1>3, <1>4, <1>5 DEF Next

(* Any number of callers, every fault: the panel shows mtg as running only        *)
(* while a process is published whose end its waiter has not yet reported.        *)
THEOREM RunnerIsTruthful == Spec => []Watched
<1>1. Init => WatchInv
  BY InitTypeInv DEF Init, WatchInv, Started, Watched, Threads
<1>2. WatchInv => Watched
  BY DEF WatchInv
<1> QED BY <1>1, <1>2, StepWatch, PTL DEF Spec

-------------------------------------------------------------------------------
(* With one caller, and until main shuts the panel down: a process that is    *)
(* starting or serving is published, or the caller has it in a local.          *)
OneApplier == \A a, b \in Appliers : a = b
Held(k) ==
    \E a \in Appliers :
        \/ pc[a] = "signal" /\ took[a] = k
        \/ pc[a] = "set" /\ mine[a] = k
NotLost == \A k \in Children : child[k] \in {"starting", "serving"} => cmd = k \/ Held(k)

(* Nothing is published from restart's Stop to its own SetCmd, nor after an   *)
(* Apply that found Telegram disabled.                                         *)
Cleared ==
    \A a \in Appliers :
        /\ pc[a] \in {"signal", "reap", "start", "set"} => cmd = Nil
        /\ pc[a] = "idle" /\ arg[a] = Off => cmd = Nil

(* Nobody has killed the process that is published, or about to be.           *)
Fresh ==
    /\ cmd # Nil => child[cmd] \in {"starting", "serving", "dead"}
    /\ \A a \in Appliers : pc[a] = "set" =>
        mine[a] \in Children /\ child[mine[a]] \in {"starting", "serving", "dead"}

(* The file is the caller's from its write to the end of its Apply.           *)
Written ==
    \A a \in Appliers :
        /\ pc[a] = "write" => file = "empty"
        /\ pc[a] \notin {"idle", "same", "open", "write"} /\ arg[a] # Off
             => file = arg[a]

(* What mtg has, or will read, is lastCfg until the file is overwritten, and   *)
(* the caller's configuration from the reload or the new process on, until the  *)
(* next call; between the two it need not be either, but then the runner       *)
(* forgets or stops.                                                           *)
Unwritten == \A a \in Appliers : pc[a] \in {"idle", "same", "open", "write"}
Cached ==
    mode = "embed" =>
        /\ running => cmd # Nil
        /\ Unwritten /\ running /\ lastCfg # Nil => Holds(cmd, lastCfg)
        /\ \A a \in Appliers :
            /\ pc[a] = "set" => Holds(mine[a], arg[a])
            /\ pc[a] \in {"sleep", "remember"} => cmd # Nil /\ Holds(cmd, arg[a])
            /\ pc[a] = "idle" /\ arg[a] \in Configs => cmd # Nil /\ Holds(cmd, arg[a])

CacheParts == NotLost /\ Cleared /\ Fresh /\ Written /\ Cached
CacheInv == TypeInv /\ (pc[Main] = "idle" => CacheParts)

LEMMA InitCache == Init => CacheInv
<1> SUFFICES ASSUME Init PROVE CacheParts
  BY InitTypeInv DEF CacheInv
<1> USE RunnerAssumption DEF RunnerAssumption, Init, Threads
<1> QED BY DEF CacheParts, NotLost, Cleared, Fresh, Written, Cached

LEMMA StepCache == OneApplier /\ CacheInv /\ [Next]_vars => CacheInv'
<1> SUFFICES ASSUME OneApplier, CacheInv, [Next]_vars, pc'[Main] = "idle"
             PROVE  CacheParts'
  BY StepTypeInv DEF CacheInv
<1> USE RunnerAssumption
    DEF RunnerAssumption, OneApplier, CacheInv, TypeInv, Armed, TypeOK, Steps, Threads,
        CacheParts, NotLost, Held, Cleared, Fresh, Written, Unwritten, Cached, Holds,
        Goto, GivesUp, fields, processes, locals
<1>1. ASSUME NEW a \in Appliers, NEW cfg \in Configs \cup {Off}, Call(a, cfg)
      PROVE CacheParts'
  BY <1>1 DEF Call
<1>2. ASSUME NEW a \in Appliers, ApplyStep(a) PROVE CacheParts'
  <2>1. CASE Same(a) BY <2>1 DEF Same
  <2>2. CASE Truncate(a) BY <2>2 DEF Truncate
  <2>3. CASE Write(a) BY <2>3 DEF Write
  <2>4. CASE WriteFails(a) BY <2>4 DEF WriteFails
  <2>5. CASE Noop(a) BY <2>5 DEF Noop
  <2>6. CASE LookPathFails(a) BY <2>6 DEF LookPathFails
  <2>7. CASE LookPath(a) BY <2>7 DEF LookPath
  <2>8. CASE Reload(a) BY <2>8 DEF Reload, Listening
  <2>9. CASE ReloadFails(a) BY <2>9 DEF ReloadFails, Listening
  <2>10. CASE StartFails(a) BY <2>10 DEF StartFails
  <2>11. ASSUME NEW k \in Children, Start(a, k) PROVE CacheParts'
    BY <2>11 DEF Start
  <2>12. CASE SetCmd(a) BY <2>12 DEF SetCmd
  <2>13. CASE Return(a) BY <2>13 DEF Return
  <2>14. CASE Remember(a) BY <2>14 DEF Remember
  <2> QED
    BY <1>2, <2>1, <2>2, <2>3, <2>4, <2>5, <2>6, <2>7, <2>8, <2>9, <2>10, <2>11,
       <2>12, <2>13, <2>14 DEF ApplyStep
<1>3. ASSUME NEW t \in Threads, StopStep(t) PROVE CacheParts'
  <2>1. CASE StopTake(t) BY <2>1 DEF StopTake, AfterStop
  <2>2. CASE StopSignal(t) BY <2>2 DEF StopSignal
  <2>3. CASE StopReap(t) BY <2>3 DEF StopReap, AfterStop
  <2> QED BY <1>3, <2>1, <2>2, <2>3 DEF StopStep
<1>4. ASSUME NEW k \in Children, Waiter(k) \/ ChildLoads(k) \/ ChildDies(k)
      PROVE CacheParts'
  <2>1. CASE Waiter(k) BY <2>1 DEF Waiter
  <2>2. CASE ChildLoads(k)
    <3>1. /\ child[k] = "starting"
          /\ UNCHANGED <<mode, file, cmd, running, lastCfg, waiter, pc, arg, took, mine>>
      BY <2>2 DEF ChildLoads
    <3>2. CASE child' = [child EXCEPT ![k] = "dead"]
      BY <2>2, <3>1, <3>2 DEF ChildLoads
    <3>3. CASE /\ file \in Configs
               /\ child' = [child EXCEPT ![k] = "serving"]
               /\ loaded' = [loaded EXCEPT ![k] = file]
      <4>1. (NotLost /\ Cleared /\ Fresh /\ Written)'
        BY <3>1, <3>3
      <4>2. Cached'
        BY <3>1, <3>3
      <4> QED BY <4>1, <4>2
    <3> QED BY <2>2, <3>2, <3>3 DEF ChildLoads
  <2>3. CASE ChildDies(k) BY <2>3 DEF ChildDies
  <2> QED BY <1>4, <2>1, <2>2, <2>3
<1>5. CASE Shutdown BY <1>5 DEF Shutdown
<1>6. CASE UNCHANGED vars BY <1>6 DEF vars
<1> QED BY <1>1, <1>2, <1>3, <1>4, <1>5, <1>6 DEF Next

(* One caller at a time: whatever fails, what the runner will compare the next *)
(* configuration with is what mtg has or will read, so skipping an equal one   *)
(* is right.                                                                    *)
THEOREM CacheIsTruthful == ASSUME OneApplier PROVE Spec => []CacheTruthful
<1>1. CacheInv => CacheTruthful
  BY RunnerAssumption
     DEF RunnerAssumption, CacheInv, CacheParts, Cached, Unwritten, CacheTruthful, AtRest, Threads
<1>2. CacheInv /\ [Next]_vars => CacheInv' BY StepCache, OneApplier
<1> QED BY <1>1, <1>2, InitCache, PTL DEF Spec

(* One caller at a time, under every fault: an Apply that answers no error      *)
(* leaves its configuration with a published process, unless that has died.     *)
THEOREM AppliedAlwaysHolds == ASSUME OneApplier PROVE Spec => []AppliedHolds
<1>1. CacheInv => AppliedHolds
  BY DEF CacheInv, CacheParts, Cached, AppliedHolds
<1>2. CacheInv /\ [Next]_vars => CacheInv' BY StepCache, OneApplier
<1> QED BY <1>1, <1>2, InitCache, PTL DEF Spec

(* One caller at a time, under every fault: while the panel is up, no live      *)
(* process of mtg is out of the runner's sight.                                 *)
THEOREM NoProcessIsLost ==
    ASSUME OneApplier PROVE Spec => [](pc[Main] = "idle" => NotLost)
<1>1. CacheInv => (pc[Main] = "idle" => NotLost)
  BY DEF CacheInv, CacheParts
<1>2. CacheInv /\ [Next]_vars => CacheInv' BY StepCache, OneApplier
<1> QED BY <1>1, <1>2, InitCache, PTL DEF Spec

(* One caller at a time: an Apply that finds Telegram disabled leaves no       *)
(* process behind, whatever failed before it.                                   *)
THEOREM DisablingStops == ASSUME OneApplier PROVE Spec => []OffStops
<1>1. ASSUME OneApplier, CacheInv PROVE OffStops
  <2> SUFFICES ASSUME NEW a \in Appliers, pc[a] = "idle", arg[a] = Off, pc[Main] = "idle",
                      NEW k \in Children, child[k] \in {"starting", "serving"}
               PROVE  FALSE
    BY DEF OffStops
  <2>1. cmd = Nil /\ cmd # k
    BY <1>1, RunnerAssumption DEF RunnerAssumption, CacheInv, CacheParts, Cleared
  <2>2. Held(k)
    BY <1>1, <2>1 DEF CacheInv, CacheParts, NotLost
  <2> QED BY <1>1, <2>2 DEF OneApplier, Held
<1>2. CacheInv /\ [Next]_vars => CacheInv' BY StepCache, OneApplier
<1>3. CacheInv => OffStops BY <1>1, OneApplier
<1> QED BY <1>2, <1>3, InitCache, PTL DEF Spec

-------------------------------------------------------------------------------
(* The contract of module ProxyContract.  From the moment Apply has found the    *)
(* binary and turns to the running mtg, until that has reloaded or a new one     *)
(* has loaded, the target is the caller's argument and nothing is promised to    *)
(* be served; otherwise both are what the published process has loaded.          *)
Closing == pc[Main] \in {"signal", "reap", "exited"}
Replacing(a) ==
    /\ arg[a] \in Configs
    /\ \/ pc[a] \in {"reload", "take", "signal", "reap", "start", "set"}
       \/ pc[a] = "sleep" /\ loaded[mine[a]] = Nil
Target ==
    IF Closing THEN Nil
    ELSE IF \E a \in Appliers : Replacing(a)
         THEN arg[CHOOSE a \in Appliers : Replacing(a)]
         ELSE IF cmd = Nil THEN Nil ELSE loaded[cmd]
Serving ==
    IF Closing \/ cmd = Nil \/ (\E a \in Appliers : Replacing(a)) THEN Nil
    ELSE IF child[cmd] = "serving" THEN loaded[cmd] ELSE Nil
Contract == INSTANCE ProxyContract WITH target <- Target, serving <- Serving, None <- Nil

(* With one caller, and processes that live until they are killed and die then,   *)
(* a new mtg finds the ports free and the caller's file: whoever is not           *)
(* published or under way is unborn or dead.                                      *)
Idle(k) == child[k] \in {"unborn", "dead"}
OthersGone(j) == \A k \in Children : k # j => Idle(k)
Restarting == \E a \in Appliers : pc[a] \in {"signal", "reap", "start", "set", "sleep"}
Settled ==
    ~Restarting =>
        \/ cmd = Nil /\ \A k \in Children : Idle(k)
        \/ cmd \in Children /\ child[cmd] = "serving" /\ OthersGone(cmd)
Handover ==
    \A a \in Appliers :
        /\ pc[a] \in {"signal", "reap", "start", "set"} => cmd = Nil
        /\ pc[a] = "signal" =>
             took[a] \in Children /\ child[took[a]] = "serving" /\ OthersGone(took[a])
        /\ pc[a] = "reap" =>
             took[a] \in Children /\ child[took[a]] \in {"signalled", "dead"} /\ OthersGone(took[a])
        /\ pc[a] = "start" => \A k \in Children : Idle(k)
        /\ pc[a] \in {"set", "sleep"} =>
             /\ mine[a] \in Children /\ child[mine[a]] \in {"starting", "serving"}
             /\ OthersGone(mine[a])
             /\ loaded[mine[a]] \in {Nil, arg[a]}
        /\ pc[a] = "sleep" => cmd = mine[a]
        /\ pc[a] = "reload" => cmd # Nil
Loads ==
    \A k \in Children :
        /\ child[k] \in {"unborn", "starting"} => loaded[k] = Nil
        /\ child[k] = "serving" => loaded[k] # Nil
RunningHasProcess == mode = "embed" /\ running => cmd # Nil
ServeInv ==
    /\ TypeInv
    /\ Loads
    /\ ~Closing => Settled /\ Written /\ Handover /\ RunningHasProcess

LEMMA InitServe == Init => ServeInv
<1> SUFFICES ASSUME Init PROVE Loads /\ Settled /\ Written /\ Handover /\ RunningHasProcess
  BY InitTypeInv DEF ServeInv
<1> QED
  BY DEF Init, Loads, Settled, Written, Handover, RunningHasProcess, Idle, Threads

LEMMA StepServe ==
    ASSUME OneApplier, Faults \subseteq {"write", "lookpath", "reload", "start"}
    PROVE  ServeInv /\ [Next]_vars => ServeInv'
<1> DEFINE Goal == Loads /\ (~Closing => Settled /\ Written /\ Handover /\ RunningHasProcess)
<1> SUFFICES ASSUME ServeInv, [Next]_vars PROVE Goal'
  BY StepTypeInv DEF ServeInv
<1> USE RunnerAssumption
    DEF RunnerAssumption, OneApplier, ServeInv, TypeInv, Armed, TypeOK, Steps, Loads, Settled,
        Written, Handover, RunningHasProcess, Closing, Restarting, Idle, OthersGone,
        HoldsPorts, Up, Threads, Goto, GivesUp, fields, processes, locals
<1>1. ASSUME NEW a \in Appliers, NEW cfg \in Configs \cup {Off}, Call(a, cfg) PROVE Goal'
  BY <1>1 DEF Call
<1>2. ASSUME NEW a \in Appliers, ApplyStep(a) PROVE Goal'
  <2>1. CASE Same(a) BY <2>1 DEF Same
  <2>2. CASE Truncate(a) BY <2>2 DEF Truncate
  <2>3. CASE Write(a) BY <2>3 DEF Write
  <2>4. CASE WriteFails(a) BY <2>4 DEF WriteFails
  <2>5. CASE Noop(a) BY <2>5 DEF Noop
  <2>6. CASE LookPathFails(a) BY <2>6 DEF LookPathFails
  <2>7. CASE LookPath(a) BY <2>7 DEF LookPath
  <2>8. CASE Reload(a) BY <2>8 DEF Reload, Listening
  <2>9. CASE ReloadFails(a) BY <2>9 DEF ReloadFails, Listening
  <2>10. CASE StartFails(a) BY <2>10 DEF StartFails
  <2>11. ASSUME NEW k \in Children, Start(a, k) PROVE Goal'
    BY <2>11 DEF Start
  <2>12. CASE SetCmd(a) BY <2>12 DEF SetCmd
  <2>13. CASE Return(a) BY <2>13 DEF Return
  <2>14. CASE Remember(a) BY <2>14 DEF Remember
  <2> QED
    BY <1>2, <2>1, <2>2, <2>3, <2>4, <2>5, <2>6, <2>7, <2>8, <2>9, <2>10, <2>11,
       <2>12, <2>13, <2>14 DEF ApplyStep
<1>3. ASSUME NEW t \in Threads, StopStep(t) PROVE Goal'
  <2>1. CASE StopTake(t) BY <2>1 DEF StopTake, AfterStop
  <2>2. CASE StopSignal(t) BY <2>2 DEF StopSignal
  <2>3. CASE StopReap(t) BY <2>3 DEF StopReap, AfterStop
  <2> QED BY <1>3, <2>1, <2>2, <2>3 DEF StopStep
<1>4. ASSUME NEW k \in Children, Waiter(k) \/ ChildLoads(k) \/ ChildDies(k)
      PROVE Goal'
  <2>1. CASE Waiter(k) BY <2>1 DEF Waiter
  <2>2. CASE ChildLoads(k) BY <2>2 DEF ChildLoads
  <2>3. CASE ChildDies(k) BY <2>3 DEF ChildDies
  <2> QED BY <1>4, <2>1, <2>2, <2>3
<1>5. CASE Shutdown BY <1>5 DEF Shutdown
<1>6. CASE UNCHANGED vars BY <1>6 DEF vars
<1> QED BY <1>1, <1>2, <1>3, <1>4, <1>5, <1>6 DEF Next

(* The mapping, spelled out: CHOOSE finds the only caller, and what is published *)
(* while nobody replaces it serves what it has loaded.                           *)
View ==
    IF Closing THEN Target = Nil /\ Serving = Nil
    ELSE /\ \A a \in Appliers : Replacing(a) => Target = arg[a] /\ Serving = Nil
         /\ ~(\E a \in Appliers : Replacing(a)) =>
              /\ cmd = Nil => Target = Nil /\ Serving = Nil
              /\ cmd # Nil => Target = loaded[cmd] /\ Serving = loaded[cmd]

LEMMA ViewHolds == OneApplier /\ ServeInv => View
<1> SUFFICES ASSUME OneApplier, ServeInv PROVE View
  OBVIOUS
<1>1. CASE Closing
  BY <1>1 DEF View, Target, Serving
<1>2. CASE ~Closing /\ \E a \in Appliers : Replacing(a)
  <2>1. PICK a \in Appliers : Replacing(a)
    BY <1>2
  <2>2. (CHOOSE b \in Appliers : Replacing(b)) = a /\ \A b \in Appliers : b = a
    BY <2>1 DEF OneApplier
  <2> QED BY <1>2, <2>1, <2>2 DEF View, Target, Serving
<1>3. CASE ~Closing /\ ~\E a \in Appliers : Replacing(a)
  <2>1. cmd # Nil => child[cmd] = "serving" /\ loaded[cmd] # Nil
    <3>1. CASE \E a \in Appliers : pc[a] = "sleep"
      BY <1>3, <3>1 DEF ServeInv, TypeInv, Armed, Handover, Loads, Replacing
    <3>2. CASE ~\E a \in Appliers : pc[a] = "sleep"
      BY <1>3, <3>2 DEF ServeInv, Settled, Handover, Loads, Restarting
    <3> QED BY <3>1, <3>2
  <2> QED BY <1>3, <2>1 DEF View, Target, Serving
<1> QED BY <1>1, <1>2, <1>3

(* Finding the binary is the contract's Replace; a reload that mtg confirms, the  *)
(* load of a published process or the publication of a loaded one is its Serve;   *)
(* a disabling StopTake, main's, and a start that fails are its Close; all else   *)
(* stutters.                                                                      *)
LEMMA StepContract ==
    ASSUME OneApplier, Faults \subseteq {"write", "lookpath", "reload", "start"},
           ServeInv, ServeInv', View, View', [Next]_vars
    PROVE  [Contract!Next]_(Contract!vars)
<1> DEFINE Stutters == Target' = Target /\ Serving' = Serving
           Replaces == \E cfg \in Configs : Target' = cfg /\ Serving' = Nil
           Loaded == Target # Nil /\ Serving = Nil /\ Serving' = Target /\ Target' = Target
           Closes == Target' = Nil /\ Serving' = Nil
<1> SUFFICES Stutters \/ Replaces \/ Loaded \/ Closes
  BY DEF Contract!Next, Contract!vars, Contract!Replace, Contract!Serve, Contract!Close
<1> HIDE DEF Stutters, Replaces, Loaded, Closes
<1>a. ASSUME ~Closing, ~Closing', UNCHANGED <<cmd, loaded, arg>>,
             \A a \in Appliers : Replacing(a)' <=> Replacing(a)
      PROVE  Stutters
  BY <1>a DEF View, Stutters
<1>b. ASSUME Closing' PROVE Closes
  BY <1>b DEF View, Closes
<1> USE RunnerAssumption
    DEF RunnerAssumption, OneApplier, ServeInv, TypeInv, Armed, TypeOK, Threads, Goto,
        fields, processes, locals
<1>1. ASSUME NEW a \in Appliers, NEW cfg \in Configs \cup {Off}, Call(a, cfg), ~Closing
      PROVE  Stutters
  <2>1. /\ pc[a] = "idle" /\ pc'[a] \in {"same", "take"} /\ pc'[Main] = pc[Main]
        /\ pc'[a] = "take" => arg'[a] = Off
        /\ UNCHANGED <<cmd, loaded>>
    BY <1>1 DEF Call
  <2>2. ~Replacing(a) /\ ~Replacing(a)'
    BY <2>1 DEF Replacing
  <2> QED BY <1>1, <2>1, <2>2 DEF View, Stutters, Closing
<1>2. ASSUME NEW a \in Appliers, ApplyStep(a), ~Closing
      PROVE  Stutters \/ Replaces \/ Loaded \/ Closes
  <2>0. pc'[Main] = pc[Main] /\ ~Closing'
    BY <1>2 DEF ApplyStep, Same, Truncate, Write, WriteFails, Noop, LookPathFails, LookPath,
       Reload, ReloadFails, StartFails, Start, SetCmd, Return, Remember, Closing
  <2>1. CASE \/ Same(a) \/ Truncate(a) \/ Write(a) \/ WriteFails(a) \/ Noop(a)
             \/ LookPathFails(a) \/ Remember(a)
    <3>1. /\ UNCHANGED <<cmd, loaded>>
          /\ ~Replacing(a) /\ ~Replacing(a)'
      BY <2>1 DEF Replacing, Same, Truncate, Write, WriteFails, Noop, LookPathFails, Remember
    <3> QED BY <1>2, <2>0, <3>1 DEF View, Stutters
  <2>2. CASE LookPath(a)
    <3>1. arg'[a] = arg[a] /\ arg[a] \in Configs /\ Replacing(a)'
      BY <2>2 DEF LookPath, Replacing
    <3> QED BY <2>0, <3>1 DEF View, Replaces
  <2>3. CASE Reload(a)
    <3>1. /\ pc[a] = "reload" /\ pc'[a] = "remember" /\ arg[a] \in Configs
          /\ UNCHANGED <<cmd, arg, mine, file>> /\ cmd # Nil
      BY <1>2, <2>3 DEF Reload, Handover
    <3>2. PICK k \in Children : child[k] = "serving" /\ loaded' = [loaded EXCEPT ![k] = file]
      BY <2>3 DEF Reload, Listening
    <3>3. k = cmd /\ file = arg[a]
      BY <1>2, <3>1, <3>2 DEF Settled, Restarting, OthersGone, Idle, Written
    <3>4. Replacing(a) /\ ~Replacing(a)' /\ loaded'[cmd] = arg[a]
      BY <3>1, <3>2, <3>3 DEF Replacing
    <3> QED BY <1>2, <2>0, <3>1, <3>4 DEF View, Loaded
  <2>4. CASE ReloadFails(a)
    <3>1. UNCHANGED <<cmd, arg>> /\ Replacing(a) /\ Replacing(a)'
      BY <2>4 DEF ReloadFails, Replacing
    <3> QED BY <1>2, <2>0, <3>1 DEF View, Stutters
  <2>5. CASE StartFails(a)
    <3>1. cmd' = Nil /\ ~Replacing(a)'
      BY <1>2, <2>5 DEF StartFails, Replacing, Handover
    <3> QED BY <2>0, <3>1 DEF View, Closes
  <2>6. ASSUME NEW k \in Children, Start(a, k) PROVE Stutters
    <3>1. UNCHANGED <<cmd, loaded, arg>> /\ Replacing(a) /\ Replacing(a)'
      BY <2>6 DEF Start, Replacing
    <3> QED BY <1>2, <2>0, <3>1, <1>a
  <2>7. CASE SetCmd(a)
    <3>1. /\ pc[a] = "set" /\ pc'[a] = "sleep" /\ mine[a] \in Children
          /\ cmd' = mine[a] /\ UNCHANGED <<loaded, arg, mine>>
          /\ loaded[mine[a]] \in {Nil, arg[a]} /\ arg[a] \in Configs
      BY <1>2, <2>7 DEF SetCmd, Handover
    <3>2. Replacing(a) /\ Target = arg[a] /\ Serving = Nil
      BY <1>2, <3>1 DEF View, Replacing
    <3>3. CASE loaded[mine[a]] = Nil
      <4>1. Replacing(a)'
        BY <3>1, <3>3 DEF Replacing
      <4> QED BY <2>0, <3>1, <3>2, <4>1 DEF View, Stutters
    <3>4. CASE loaded[mine[a]] = arg[a]
      <4>1. ~Replacing(a)'
        BY <3>1, <3>4 DEF Replacing
      <4> QED BY <2>0, <3>1, <3>2, <3>4, <4>1 DEF View, Loaded
    <3> QED BY <3>1, <3>3, <3>4
  <2>8. CASE Return(a)
    <3>1. /\ pc[a] = "sleep" /\ pc'[a] = "remember" /\ UNCHANGED <<cmd, loaded, arg>>
          /\ child[mine[a]] # "starting"
      BY <2>8 DEF Return
    <3>2. loaded[mine[a]] # Nil
      BY <1>2, <3>1 DEF Handover, Loads
    <3>3. ~Replacing(a) /\ ~Replacing(a)'
      BY <3>1, <3>2 DEF Replacing
    <3> QED BY <1>2, <2>0, <3>1, <3>3, <1>a
  <2> QED BY <1>2, <2>1, <2>2, <2>3, <2>4, <2>5, <2>6, <2>7, <2>8 DEF ApplyStep
<1>3. ASSUME NEW t \in Threads, StopStep(t), ~Closing PROVE Stutters \/ Closes
  <2>1. CASE t = Main
    <3>1. Closing'
      BY <1>3, <2>1 DEF StopStep, StopTake, StopSignal, StopReap, AfterStop, Closing
    <3> QED BY <3>1, <1>b
  <2>2. CASE t \in Appliers /\ arg[t] \in Configs
    <3>1. arg' = arg /\ ~Closing' /\ Replacing(t) /\ Replacing(t)'
      BY <1>3, <2>2
         DEF StopStep, StopTake, StopSignal, StopReap, AfterStop, Closing, Replacing
    <3> QED BY <1>3, <2>2, <3>1 DEF View, Stutters
  <2>3. CASE t \in Appliers /\ arg[t] = Off
    <3>1. arg' = arg /\ ~Closing' /\ cmd' = Nil /\ ~Replacing(t)'
      BY <1>3, <2>3
         DEF StopStep, StopTake, StopSignal, StopReap, Closing, Replacing, Handover
    <3> QED BY <2>3, <3>1 DEF View, Closes
  <2>4. t \in Appliers => arg[t] \in Configs \cup {Off}
    BY <1>3 DEF StopStep, StopTake, StopSignal, StopReap
  <2> QED BY <2>1, <2>2, <2>3, <2>4
<1>4. ASSUME NEW k \in Children, Waiter(k) \/ ChildDies(k), ~Closing PROVE Stutters
  <2>1. UNCHANGED <<cmd, loaded, arg, pc, mine>>
    BY <1>4 DEF Waiter, ChildDies
  <2>2. ~Closing' /\ \A a \in Appliers : Replacing(a)' <=> Replacing(a)
    BY <1>4, <2>1 DEF Closing, Replacing
  <2> QED BY <1>4, <2>1, <2>2, <1>a
<1>5. ASSUME NEW k \in Children, ChildLoads(k), ~Closing PROVE Stutters \/ Loaded
  <2>1. child[k] = "starting" /\ UNCHANGED <<cmd, arg, pc, mine, file>> /\ ~Closing'
    BY <1>5 DEF ChildLoads, Closing
  <2>2. PICK a \in Appliers : pc[a] \in {"set", "sleep"} /\ mine[a] = k
    <3>1. \E a \in Appliers : pc[a] \in {"signal", "reap", "start", "set", "sleep"}
      BY <1>5, <2>1 DEF Settled, Restarting, OthersGone, Idle
    <3> QED BY <1>5, <2>1, <3>1 DEF Handover, OthersGone, Idle
  <2>3. loaded[k] = Nil /\ loaded'[k] \in {Nil, arg[a]} /\ arg[a] \in Configs
    BY <1>5, <2>1, <2>2 DEF Loads, Handover
  <2>4. Replacing(a) /\ Target = arg[a] /\ Serving = Nil
    BY <1>5, <2>2, <2>3 DEF View, Replacing
  <2>5. CASE Replacing(a)'
    BY <2>1, <2>4, <2>5 DEF View, Stutters
  <2>6. CASE ~Replacing(a)'
    <3>1. pc[a] = "sleep" /\ cmd = k /\ loaded'[k] = arg[a]
      BY <1>5, <2>1, <2>2, <2>3, <2>6 DEF Replacing, Handover
    <3> QED BY <2>1, <2>3, <2>4, <2>6, <3>1 DEF View, Loaded
  <2> QED BY <2>5, <2>6
<1>6. CASE (Shutdown \/ UNCHANGED vars) /\ ~Closing
  <2>1. UNCHANGED <<cmd, loaded, arg, mine>> /\ \A a \in Appliers : pc'[a] = pc[a]
    BY <1>6 DEF Shutdown, vars
  <2>2. ~Closing' /\ \A a \in Appliers : Replacing(a)' <=> Replacing(a)
    BY <1>6, <2>1 DEF Shutdown, vars, Closing, Replacing
  <2> QED BY <1>6, <2>1, <2>2, <1>a
<1>7. CASE Closing
  <2>1. Closing'
    <3>1. ASSUME NEW t \in Threads, StopStep(t) PROVE Closing'
      BY <1>7, <3>1 DEF StopStep, StopTake, StopSignal, StopReap, AfterStop, Closing
    <3>2. ASSUME NEW a \in Appliers, ApplyStep(a) PROVE Closing'
      BY <1>7, <3>2
         DEF ApplyStep, Same, Truncate, Write, WriteFails, Noop, LookPathFails, LookPath,
             Reload, ReloadFails, StartFails, Start, SetCmd, Return, Remember, Closing
    <3>3. ASSUME NEW a \in Appliers, NEW cfg \in Configs \cup {Off}, Call(a, cfg)
          PROVE  Closing'
      BY <1>7, <3>3 DEF Call, Closing
    <3>4. ASSUME NEW k \in Children, Waiter(k) \/ ChildLoads(k) \/ ChildDies(k)
          PROVE  Closing'
      BY <1>7, <3>4 DEF Waiter, ChildLoads, ChildDies, Closing
    <3>5. CASE Shutdown \/ UNCHANGED vars
      BY <1>7, <3>5 DEF Shutdown, vars, Closing
    <3> QED BY <3>1, <3>2, <3>3, <3>4, <3>5 DEF Next
  <2> QED BY <2>1, <1>b
<1> QED
  BY <1>1, <1>2, <1>3, <1>4, <1>5, <1>6, <1>7 DEF Next

(* One caller at a time, and an mtg that lives once it was started, though it may *)
(* refuse a reload or answer it too late: Apply and Stop do to mtg what           *)
(* ProxyContract allows, and a disabling Apply, or a failing start, closes it.    *)
THEOREM RunnerImplementsContract ==
    ASSUME OneApplier, Faults \subseteq {"write", "lookpath", "reload", "start"}
    PROVE  Spec => Contract!Init /\ [][Contract!Next]_(Contract!vars)
<1>1. ServeInv => View
  BY ViewHolds, OneApplier
<1>2. Init => Contract!Init
  <2>1. Init => cmd = Nil /\ ~Closing /\ ~\E a \in Appliers : Replacing(a)
    BY RunnerAssumption DEF RunnerAssumption, Init, Threads, Closing, Replacing
  <2> QED BY <1>1, <2>1, InitServe DEF View, Contract!Init
<1>3. ServeInv /\ [Next]_vars => ServeInv'
  BY StepServe, OneApplier, Faults \subseteq {"write", "lookpath", "reload", "start"}
<1>4. ServeInv /\ ServeInv' /\ View /\ View' /\ [Next]_vars => [Contract!Next]_(Contract!vars)
  BY StepContract, OneApplier, Faults \subseteq {"write", "lookpath", "reload", "start"}
<1> QED BY <1>1, <1>2, <1>3, <1>4, InitServe, PTL DEF Spec
===============================================================================
