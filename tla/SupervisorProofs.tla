--------------------------- MODULE SupervisorProofs ---------------------------
(***************************************************************************)
(* Proofs about Supervisor, for any set of goroutines, configurations,     *)
(* processes and faults.                                                   *)
(***************************************************************************)
EXTENDS Supervisor, TLAPS

-------------------------------------------------------------------------------
(* Every variable keeps its type (the fields and locals of supervisor.go). *)
Armed == \A a \in Appliers : pc[a] # "idle" => arg[a] \in Configs
TypeInv == TypeOK /\ Armed

LEMMA InitTypeInv == Init => TypeInv
<1> SUFFICES ASSUME Init PROVE TypeOK /\ Armed
  BY DEF TypeInv
<1> USE SupervisorAssumption DEF SupervisorAssumption, Init, Threads
<1>1. mode \in {"embed", "noop"} /\ file \in FileContents /\ lastErr \in Causes
  BY DEF FileContents, Causes
<1>2. pc \in [Threads -> Steps] /\ Armed
  BY DEF Steps, Armed
<1> QED BY <1>1, <1>2 DEF TypeOK

LEMMA StepTypeInv == TypeInv /\ [Next]_vars => TypeInv'
<1> SUFFICES ASSUME TypeInv, [Next]_vars PROVE TypeInv'
  OBVIOUS
<1> USE SupervisorAssumption
    DEF SupervisorAssumption, TypeInv, Armed, TypeOK, FileContents, Causes, Steps, Threads, Goto, fields, processes, locals
<1>1. ASSUME NEW a \in Appliers, NEW cfg \in Configs, Call(a, cfg) PROVE TypeInv'
  BY <1>1 DEF Call
<1>2. ASSUME NEW a \in Appliers, ApplyStep(a) PROVE TypeInv'
  <2>1. CASE Truncate(a) BY <2>1 DEF Truncate
  <2>2. CASE Write(a) BY <2>2 DEF Write
  <2>3. CASE WriteFails(a) BY <2>3 DEF WriteFails
  <2>4. CASE Noop(a) BY <2>4 DEF Noop
  <2>5. CASE LookPathFails(a) BY <2>5 DEF LookPathFails
  <2>6. CASE LookPath(a) BY <2>6 DEF LookPath
  <2>7. CASE CheckFails(a) BY <2>7 DEF CheckFails
  <2>8. CASE CheckPasses(a) BY <2>8 DEF CheckPasses
  <2>9. CASE StartFails(a) BY <2>9 DEF StartFails
  <2>10. CASE SetCmd(a) BY <2>10 DEF SetCmd
  <2>11. CASE Return(a) BY <2>11 DEF Return
  <2>12. ASSUME NEW k \in Children, Start(a, k) PROVE TypeInv'
    BY <2>12 DEF Start
  <2> QED
    BY <1>2, <2>1, <2>2, <2>3, <2>4, <2>5, <2>6, <2>7, <2>8, <2>9, <2>10, <2>11,
       <2>12 DEF ApplyStep
<1>3. ASSUME NEW t \in Threads, StopStep(t) PROVE TypeInv'
  <2>1. CASE StopTake(t) BY <2>1 DEF StopTake, AfterStop
  <2>2. CASE StopSignal(t) BY <2>2 DEF StopSignal
  <2>3. CASE StopReap(t) BY <2>3 DEF StopReap, AfterStop
  <2> QED BY <1>3, <2>1, <2>2, <2>3 DEF StopStep
<1>4. ASSUME NEW k \in Children, Waiter(k) \/ ChildLoads(k) \/ ChildDies(k)
      PROVE TypeInv'
  <2>1. CASE Waiter(k) BY <2>1 DEF Waiter
  <2>2. CASE ChildLoads(k) BY <2>2 DEF ChildLoads
  <2>3. CASE ChildDies(k) BY <2>3 DEF ChildDies
  <2> QED BY <1>4, <2>1, <2>2, <2>3
<1>5. CASE Shutdown BY <1>5 DEF Shutdown
<1>6. CASE UNCHANGED vars BY <1>6 DEF vars
<1> QED BY <1>1, <1>2, <1>3, <1>4, <1>5, <1>6 DEF Next

THEOREM TypeCorrect == Spec => []TypeOK
<1>1. TypeInv => TypeOK BY DEF TypeInv
<1> QED BY <1>1, InitTypeInv, StepTypeInv, PTL DEF Spec

-------------------------------------------------------------------------------
(* The published process has a waiter; restart knows the process it publishes. *)
Started == \A a \in Appliers : pc[a] = "set" => mine[a] \in Children
TruthInv == TypeInv /\ Started /\ RunningTruthful

LEMMA InitTruth == Init => TruthInv
BY InitTypeInv DEF TypeInv, Init, TruthInv, Started, RunningTruthful, Threads

LEMMA StepTruth == TruthInv /\ [Next]_vars => TruthInv'
<1> SUFFICES ASSUME TruthInv, [Next]_vars PROVE Started' /\ RunningTruthful'
  BY StepTypeInv DEF TruthInv
<1> USE SupervisorAssumption
    DEF SupervisorAssumption, TruthInv, TypeInv, TypeOK, Started, RunningTruthful, Threads, Goto, fields, processes, locals
<1>1. ASSUME NEW a \in Appliers, NEW cfg \in Configs, Call(a, cfg)
      PROVE Started' /\ RunningTruthful'
  BY <1>1 DEF Call
<1>2. ASSUME NEW a \in Appliers, ApplyStep(a) PROVE Started' /\ RunningTruthful'
  <2>1. CASE Truncate(a) BY <2>1 DEF Truncate
  <2>2. CASE Write(a) BY <2>2 DEF Write
  <2>3. CASE WriteFails(a) BY <2>3 DEF WriteFails
  <2>4. CASE Noop(a) BY <2>4 DEF Noop
  <2>5. CASE LookPathFails(a) BY <2>5 DEF LookPathFails
  <2>6. CASE LookPath(a) BY <2>6 DEF LookPath
  <2>7. CASE CheckFails(a) BY <2>7 DEF CheckFails
  <2>8. CASE CheckPasses(a) BY <2>8 DEF CheckPasses
  <2>9. CASE StartFails(a) BY <2>9 DEF StartFails
  <2>10. CASE SetCmd(a) BY <2>10 DEF SetCmd
  <2>11. CASE Return(a) BY <2>11 DEF Return
  <2>12. ASSUME NEW k \in Children, Start(a, k) PROVE Started' /\ RunningTruthful'
    BY <2>12 DEF Start
  <2> QED
    BY <1>2, <2>1, <2>2, <2>3, <2>4, <2>5, <2>6, <2>7, <2>8, <2>9, <2>10, <2>11,
       <2>12 DEF ApplyStep
<1>3. ASSUME NEW t \in Threads, StopStep(t) PROVE Started' /\ RunningTruthful'
  <2>1. CASE StopTake(t) BY <2>1 DEF StopTake, AfterStop
  <2>2. CASE StopSignal(t) BY <2>2 DEF StopSignal
  <2>3. CASE StopReap(t) BY <2>3 DEF StopReap, AfterStop
  <2> QED BY <1>3, <2>1, <2>2, <2>3 DEF StopStep
<1>4. ASSUME NEW k \in Children, Waiter(k) \/ ChildLoads(k) \/ ChildDies(k)
      PROVE Started' /\ RunningTruthful'
  <2>1. CASE Waiter(k) BY <2>1 DEF Waiter
  <2>2. CASE ChildLoads(k) BY <2>2 DEF ChildLoads
  <2>3. CASE ChildDies(k) BY <2>3 DEF ChildDies
  <2> QED BY <1>4, <2>1, <2>2, <2>3
<1>5. CASE Shutdown BY <1>5 DEF Shutdown
<1>6. CASE UNCHANGED vars BY <1>6 DEF vars
<1> QED BY <1>1, <1>2, <1>3, <1>4, <1>5, <1>6 DEF Next

(* However many goroutines are inside Apply, and whatever fails, the panel     *)
(* shows sing-box as running only while a published process has its waiter.    *)
THEOREM RunningIsTruthful == Spec => []RunningTruthful
<1>1. TruthInv => RunningTruthful BY DEF TruthInv
<1> QED BY <1>1, InitTruth, StepTruth, PTL DEF Spec

-------------------------------------------------------------------------------
(* Where no process is ever started, none is published.                        *)
NothingStarted ==
    mode = "noop" => cmd = Nil /\ \A a \in Appliers : pc[a] \in {"idle", "open", "write", "look"}
StatusInv == TypeInv /\ Started /\ NothingStarted /\ StatusExact

LEMMA InitStatus == Init => StatusInv
BY InitTypeInv
   DEF TypeInv, Init, StatusInv, Started, NothingStarted, StatusExact, Threads

LEMMA StepStatus == StatusInv /\ [Next]_vars => StatusInv'
<1> DEFINE Goal == Started /\ NothingStarted /\ StatusExact
<1> SUFFICES ASSUME StatusInv, [Next]_vars PROVE Goal'
  BY StepTypeInv DEF StatusInv
<1> USE SupervisorAssumption
    DEF SupervisorAssumption, StatusInv, TypeInv, TypeOK, Started, NothingStarted,
        StatusExact, Threads, Goto, fields, processes, locals
<1>1. ASSUME NEW a \in Appliers, NEW cfg \in Configs, Call(a, cfg) PROVE Goal'
  BY <1>1 DEF Call
<1>2. ASSUME NEW a \in Appliers, ApplyStep(a) PROVE Goal'
  <2>1. CASE Truncate(a) BY <2>1 DEF Truncate
  <2>2. CASE Write(a) BY <2>2 DEF Write
  <2>3. CASE WriteFails(a) BY <2>3 DEF WriteFails
  <2>4. CASE Noop(a) BY <2>4 DEF Noop
  <2>5. CASE LookPathFails(a) BY <2>5 DEF LookPathFails
  <2>6. CASE LookPath(a) BY <2>6 DEF LookPath
  <2>7. CASE CheckFails(a) BY <2>7 DEF CheckFails
  <2>8. CASE CheckPasses(a) BY <2>8 DEF CheckPasses
  <2>9. CASE StartFails(a) BY <2>9 DEF StartFails
  <2>10. CASE SetCmd(a) BY <2>10 DEF SetCmd
  <2>11. CASE Return(a) BY <2>11 DEF Return
  <2>12. ASSUME NEW k \in Children, Start(a, k) PROVE Goal'
    BY <2>12 DEF Start
  <2> QED
    BY <1>2, <2>1, <2>2, <2>3, <2>4, <2>5, <2>6, <2>7, <2>8, <2>9, <2>10, <2>11,
       <2>12 DEF ApplyStep
<1>3. ASSUME NEW t \in Threads, StopStep(t) PROVE Goal'
  <2>1. CASE StopTake(t) BY <2>1 DEF StopTake, AfterStop
  <2>2. CASE StopSignal(t) BY <2>2 DEF StopSignal
  <2>3. CASE StopReap(t) BY <2>3 DEF StopReap, AfterStop
  <2> QED BY <1>3, <2>1, <2>2, <2>3 DEF StopStep
<1>4. ASSUME NEW k \in Children, Waiter(k) \/ ChildLoads(k) \/ ChildDies(k)
      PROVE Goal'
  <2>1. CASE Waiter(k) BY <2>1 DEF Waiter
  <2>2. CASE ChildLoads(k) BY <2>2 DEF ChildLoads
  <2>3. CASE ChildDies(k) BY <2>3 DEF ChildDies
  <2> QED BY <1>4, <2>1, <2>2, <2>3
<1>5. CASE Shutdown BY <1>5 DEF Shutdown
<1>6. CASE UNCHANGED vars BY <1>6 DEF vars
<1> QED BY <1>1, <1>2, <1>3, <1>4, <1>5, <1>6 DEF Next

(* However many goroutines are inside Apply, while no error is shown a        *)
(* published process counts as running exactly until its waiter saw it die.    *)
THEOREM StatusIsExact == Spec => []StatusExact
<1>1. StatusInv => StatusExact BY DEF StatusInv
<1> QED BY <1>1, InitStatus, StepStatus, PTL DEF Spec

-------------------------------------------------------------------------------
(* With one caller of Apply nobody publishes a process between restart's Stop  *)
(* and its own SetCmd, so SetCmd never overwrites a live process.               *)
OneApplier == \A a, b \in Appliers : a = b
Cleared == \A a \in Appliers : pc[a] \in {"signal", "reap", "start", "set"} => cmd = Nil
OrphanInv == TypeInv /\ Started /\ Cleared /\ NoOrphan

LEMMA InitOrphan == Init => OrphanInv
BY InitTypeInv DEF TypeInv, Init, OrphanInv, Started, Cleared, NoOrphan, Alive, Threads

LEMMA StepOrphan == OneApplier /\ OrphanInv /\ [Next]_vars => OrphanInv'
<1> DEFINE Goal == Started /\ Cleared /\ NoOrphan
<1> SUFFICES ASSUME OneApplier, OrphanInv, [Next]_vars PROVE Goal'
  BY StepTypeInv DEF OrphanInv
<1> USE SupervisorAssumption
    DEF SupervisorAssumption, OneApplier, OrphanInv, TypeInv, TypeOK, Started, Cleared, NoOrphan, Held, Alive, Up,
        Threads, Goto, fields, processes, locals
<1>1. ASSUME NEW a \in Appliers, NEW cfg \in Configs, Call(a, cfg) PROVE Goal'
  BY <1>1 DEF Call
<1>2. ASSUME NEW a \in Appliers, ApplyStep(a) PROVE Goal'
  <2>1. CASE Truncate(a) BY <2>1 DEF Truncate
  <2>2. CASE Write(a) BY <2>2 DEF Write
  <2>3. CASE WriteFails(a) BY <2>3 DEF WriteFails
  <2>4. CASE Noop(a) BY <2>4 DEF Noop
  <2>5. CASE LookPathFails(a) BY <2>5 DEF LookPathFails
  <2>6. CASE LookPath(a) BY <2>6 DEF LookPath
  <2>7. CASE CheckFails(a) BY <2>7 DEF CheckFails
  <2>8. CASE CheckPasses(a) BY <2>8 DEF CheckPasses
  <2>9. CASE StartFails(a) BY <2>9 DEF StartFails
  <2>10. CASE SetCmd(a) BY <2>10 DEF SetCmd
  <2>11. CASE Return(a) BY <2>11 DEF Return
  <2>12. ASSUME NEW k \in Children, Start(a, k) PROVE Goal'
    BY <2>12 DEF Start
  <2> QED
    BY <1>2, <2>1, <2>2, <2>3, <2>4, <2>5, <2>6, <2>7, <2>8, <2>9, <2>10, <2>11,
       <2>12 DEF ApplyStep
<1>3. ASSUME NEW t \in Threads, StopStep(t) PROVE Goal'
  <2>1. CASE StopTake(t) BY <2>1 DEF StopTake, AfterStop
  <2>2. CASE StopSignal(t) BY <2>2 DEF StopSignal
  <2>3. CASE StopReap(t) BY <2>3 DEF StopReap, AfterStop
  <2> QED BY <1>3, <2>1, <2>2, <2>3 DEF StopStep
<1>4. ASSUME NEW k \in Children, Waiter(k) \/ ChildLoads(k) \/ ChildDies(k)
      PROVE Goal'
  <2>1. CASE Waiter(k) BY <2>1 DEF Waiter
  <2>2. CASE ChildLoads(k) BY <2>2 DEF ChildLoads
  <2>3. CASE ChildDies(k) BY <2>3 DEF ChildDies
  <2> QED BY <1>4, <2>1, <2>2, <2>3
<1>5. CASE Shutdown BY <1>5 DEF Shutdown
<1>6. CASE UNCHANGED vars BY <1>6 DEF vars
<1> QED BY <1>1, <1>2, <1>3, <1>4, <1>5, <1>6 DEF Next

(* One caller of Apply at a time, with main's shutdown at any moment and any   *)
(* faults: no live process is lost while the panel is up.                       *)
THEOREM SerialNoOrphan == ASSUME OneApplier PROVE Spec => []NoOrphan
<1>1. OrphanInv => NoOrphan BY DEF OrphanInv
<1>2. OrphanInv /\ [Next]_vars => OrphanInv' BY StepOrphan, OneApplier
<1> QED BY <1>1, <1>2, InitOrphan, PTL DEF Spec

-------------------------------------------------------------------------------
(* With one caller and until main stops sing-box, a new process finds the      *)
(* ports free and the caller's file, checked: whoever is not published or      *)
(* under way is unborn or dead.                                                 *)
Idle(k) == child[k] \in {"unborn", "dead"}
OthersGone(j) == \A k \in Children : k # j => Idle(k)
Settled ==
    ~Restarting =>
        \/ cmd = Nil /\ Published = {} /\ \A k \in Children : Idle(k)
        \/ cmd \in Children /\ child[cmd] = "serving" /\ OthersGone(cmd)
Written ==
    \A a \in Appliers :
        /\ pc[a] = "write" => file = "empty"
        /\ pc[a] \notin {"idle", "open", "write"} => file = arg[a]
        /\ pc[a] \in {"take", "signal", "reap", "start", "set", "sleep"} => file \in Valid
Handover ==
    \A a \in Appliers :
        /\ pc[a] \in {"signal", "reap", "start", "set"} => cmd = Nil
        /\ pc[a] = "signal" =>
             took[a] \in Children /\ child[took[a]] = "serving" /\ OthersGone(took[a])
        /\ pc[a] = "reap" =>
             took[a] \in Children /\ child[took[a]] \in {"signalled", "dead"} /\ OthersGone(took[a])
        /\ pc[a] = "start" => \A k \in Children : Idle(k)
        /\ pc[a] \in {"set", "sleep"} =>
             /\ mine[a] \in Children /\ child[mine[a]] \in {"starting", "serving"}
             /\ OthersGone(mine[a])
             /\ loaded[mine[a]] \in {Nil, arg[a]}
        /\ pc[a] = "sleep" => cmd = mine[a]
Loads ==
    \A k \in Children :
        /\ child[k] \in {"unborn", "starting"} => loaded[k] = Nil
        /\ child[k] = "serving" => loaded[k] # Nil
ServeInv ==
    /\ TypeInv
    /\ Loads
    /\ ~Closing => Settled /\ Written /\ Handover

LEMMA InitServe == Init => ServeInv
<1> SUFFICES ASSUME Init PROVE Loads /\ Settled /\ Written /\ Handover
  BY InitTypeInv DEF ServeInv
<1> QED
  BY DEF Init, Loads, Settled, Written, Handover, Idle, Published, Threads

LEMMA StepServe ==
    ASSUME OneApplier, Faults \subseteq {"write", "lookpath"}
    PROVE  ServeInv /\ [Next]_vars => ServeInv'
<1> DEFINE Goal == Loads /\ (~Closing => Settled /\ Written /\ Handover)
<1> SUFFICES ASSUME ServeInv, [Next]_vars PROVE Goal'
  BY StepTypeInv DEF ServeInv
<1> USE SupervisorAssumption
    DEF SupervisorAssumption, OneApplier, ServeInv, TypeInv, Armed, TypeOK, Loads, Settled,
        Written, Handover, Closing, Restarting, Published, Idle, OthersGone, Alive, HoldsPorts, Up, Threads,
        Goto, fields, processes, locals
<1>1. ASSUME NEW a \in Appliers, NEW cfg \in Configs, Call(a, cfg) PROVE Goal'
  BY <1>1 DEF Call
<1>2. ASSUME NEW a \in Appliers, ApplyStep(a) PROVE Goal'
  <2>1. CASE Truncate(a) BY <2>1 DEF Truncate
  <2>2. CASE Write(a) BY <2>2 DEF Write
  <2>3. CASE WriteFails(a) BY <2>3 DEF WriteFails
  <2>4. CASE Noop(a) BY <2>4 DEF Noop
  <2>5. CASE LookPathFails(a) BY <2>5 DEF LookPathFails
  <2>6. CASE LookPath(a) BY <2>6 DEF LookPath
  <2>7. CASE CheckFails(a) BY <2>7 DEF CheckFails
  <2>8. CASE CheckPasses(a) BY <2>8 DEF CheckPasses
  <2>9. CASE StartFails(a) BY <2>9 DEF StartFails
  <2>10. CASE SetCmd(a) BY <2>10 DEF SetCmd
  <2>11. CASE Return(a) BY <2>11 DEF Return
  <2>12. ASSUME NEW k \in Children, Start(a, k) PROVE Goal'
    BY <2>12 DEF Start
  <2> QED
    BY <1>2, <2>1, <2>2, <2>3, <2>4, <2>5, <2>6, <2>7, <2>8, <2>9, <2>10, <2>11,
       <2>12 DEF ApplyStep
<1>3. ASSUME NEW t \in Threads, StopStep(t) PROVE Goal'
  <2>1. CASE StopTake(t) BY <2>1 DEF StopTake, AfterStop
  <2>2. CASE StopSignal(t) BY <2>2 DEF StopSignal
  <2>3. CASE StopReap(t) BY <2>3 DEF StopReap, AfterStop
  <2> QED BY <1>3, <2>1, <2>2, <2>3 DEF StopStep
<1>4. ASSUME NEW k \in Children, Waiter(k) \/ ChildLoads(k) \/ ChildDies(k)
      PROVE Goal'
  <2>1. CASE Waiter(k) BY <2>1 DEF Waiter
  <2>2. CASE ChildLoads(k) BY <2>2 DEF ChildLoads
  <2>3. CASE ChildDies(k) BY <2>3 DEF ChildDies
  <2> QED BY <1>4, <2>1, <2>2, <2>3
<1>5. CASE Shutdown BY <1>5 DEF Shutdown
<1>6. CASE UNCHANGED vars BY <1>6 DEF vars
<1> QED BY <1>1, <1>2, <1>3, <1>4, <1>5, <1>6 DEF Next

(* One caller at a time, in an environment where writes fail, the binary may   *)
(* vanish and configurations may be rejected, but processes that pass the check *)
(* start and live: an Apply that stops early leaves sing-box serving.           *)
THEOREM EarlyStopKeepsServing ==
    ASSUME OneApplier, Faults \subseteq {"write", "lookpath"}
    PROVE  Spec => []KeepsServing
<1>1. ServeInv => KeepsServing
  BY SupervisorAssumption
     DEF SupervisorAssumption, ServeInv, Settled, KeepsServing, Closing, TypeInv, TypeOK
<1>2. ServeInv /\ [Next]_vars => ServeInv'
  BY StepServe, OneApplier, Faults \subseteq {"write", "lookpath"}
<1> QED BY <1>1, <1>2, InitServe, PTL DEF Spec

-------------------------------------------------------------------------------
(* The mapping of Contract, spelled out: CHOOSE finds the only caller, and     *)
(* what is published while nobody replaces it serves what it has loaded.       *)
View ==
    IF Closing THEN Target = Nil /\ Serving = Nil
    ELSE /\ \A a \in Appliers : Replacing(a) => Target = arg[a] /\ Serving = Nil
         /\ ~(\E a \in Appliers : Replacing(a)) =>
              /\ cmd = Nil => Target = Nil /\ Serving = Nil
              /\ cmd # Nil => Target = loaded[cmd] /\ Serving = loaded[cmd]

LEMMA ViewHolds == OneApplier /\ ServeInv => View
<1> SUFFICES ASSUME OneApplier, ServeInv PROVE View
  OBVIOUS
<1>1. CASE Closing
  BY <1>1 DEF View, Target, Serving
<1>2. CASE ~Closing /\ \E a \in Appliers : Replacing(a)
  <2>1. PICK a \in Appliers : Replacing(a)
    BY <1>2
  <2>2. (CHOOSE b \in Appliers : Replacing(b)) = a /\ \A b \in Appliers : b = a
    BY <2>1 DEF OneApplier
  <2> QED BY <1>2, <2>1, <2>2 DEF View, Target, Serving
<1>3. CASE ~Closing /\ ~\E a \in Appliers : Replacing(a)
  <2>1. cmd # Nil => child[cmd] = "serving" /\ loaded[cmd] # Nil
    <3>1. CASE \E a \in Appliers : pc[a] = "sleep"
      BY <1>3, <3>1 DEF ServeInv, Handover, Loads, Replacing
    <3>2. CASE ~\E a \in Appliers : pc[a] = "sleep"
      BY <1>3, <3>2 DEF ServeInv, Settled, Loads, Replacing, Restarting
    <3> QED BY <3>1, <3>2
  <2> QED BY <1>3, <2>1 DEF View, Target, Serving
<1> QED BY <1>1, <1>2, <1>3

(* StopTake is the contract's Replace, or Close for main; the load of a        *)
(* published process, or the publication of a loaded one, is its Serve; all     *)
(* else stutters.                                                                *)
LEMMA StepContract ==
    ASSUME OneApplier, Faults \subseteq {"write", "lookpath"},
           ServeInv, ServeInv', View, View', [Next]_vars
    PROVE  [Contract!Next]_(Contract!vars)
<1> DEFINE Stutters == Target' = Target /\ Serving' = Serving
           Replaces == \E cfg \in Configs : Target' = cfg /\ Serving' = Nil
           Serves == Target # Nil /\ Serving = Nil /\ Serving' = Target /\ Target' = Target
           Closes == Target' = Nil /\ Serving' = Nil
<1> SUFFICES Stutters \/ Replaces \/ Serves \/ Closes
  BY DEF Contract!Next, Contract!vars, Contract!Replace, Contract!Serve, Contract!Close
<1> HIDE DEF Stutters, Replaces, Serves, Closes
<1>a. ASSUME ~Closing, ~Closing', UNCHANGED <<cmd, loaded, arg>>,
             \A a \in Appliers : Replacing(a)' <=> Replacing(a)
      PROVE  Stutters
  BY <1>a DEF View, Stutters
<1>b. ASSUME Closing' PROVE Closes
  BY <1>b DEF View, Closes
<1> USE SupervisorAssumption
    DEF SupervisorAssumption, OneApplier, ServeInv, TypeInv, Armed, TypeOK, Threads, Goto,
        fields, processes, locals
<1>1. ASSUME NEW a \in Appliers, NEW cfg \in Configs, Call(a, cfg) PROVE Stutters
  <2>1. /\ pc[a] = "idle" /\ pc'[a] = "open" /\ pc'[Main] = pc[Main]
        /\ UNCHANGED <<cmd, loaded>>
    BY <1>1 DEF Call
  <2>2. ~Replacing(a) /\ ~Replacing(a)'
    BY <2>1 DEF Replacing
  <2> QED BY <2>1, <2>2 DEF View, Stutters, Closing
<1>2. ASSUME NEW a \in Appliers, ApplyStep(a), ~Closing PROVE Stutters \/ Serves
  <2>0. pc'[Main] = pc[Main] /\ ~Closing'
    BY <1>2 DEF ApplyStep, Truncate, Write, WriteFails, Noop, LookPathFails, LookPath,
       CheckFails, CheckPasses, StartFails, SetCmd, Return, Start, Closing
  <2>1. CASE \/ Truncate(a) \/ Write(a) \/ WriteFails(a) \/ Noop(a) \/ LookPathFails(a)
             \/ LookPath(a) \/ CheckFails(a) \/ CheckPasses(a)
    <3>1. /\ UNCHANGED <<cmd, loaded, arg>>
          /\ ~Replacing(a) /\ ~Replacing(a)'
      BY <2>1 DEF Replacing, Truncate, Write, WriteFails, Noop, LookPathFails, LookPath,
                  CheckFails, CheckPasses
    <3> QED BY <1>2, <2>0, <3>1, <1>a
  <2>2. CASE StartFails(a)
    BY <2>2 DEF StartFails
  <2>3. ASSUME NEW k \in Children, Start(a, k) PROVE Stutters
    <3>1. UNCHANGED <<cmd, loaded, arg>> /\ Replacing(a) /\ Replacing(a)'
      BY <2>3 DEF Start, Replacing
    <3> QED BY <1>2, <2>0, <3>1, <1>a
  <2>4. CASE SetCmd(a)
    <3>1. /\ pc[a] = "set" /\ pc'[a] = "sleep" /\ mine[a] \in Children
          /\ cmd' = mine[a] /\ UNCHANGED <<loaded, arg, mine>>
          /\ loaded[mine[a]] \in {Nil, arg[a]} /\ arg[a] \in Configs
      BY <1>2, <2>4 DEF SetCmd, Handover
    <3>2. Replacing(a) /\ Target = arg[a] /\ Serving = Nil
      BY <1>2, <3>1 DEF View, Replacing
    <3>3. CASE loaded[mine[a]] = Nil
      <4>1. Replacing(a)'
        BY <3>1, <3>3 DEF Replacing
      <4> QED BY <2>0, <3>1, <3>2, <4>1 DEF View, Stutters
    <3>4. CASE loaded[mine[a]] = arg[a]
      <4>1. ~Replacing(a)'
        BY <3>1, <3>4 DEF Replacing
      <4> QED BY <2>0, <3>1, <3>2, <3>4, <4>1 DEF View, Serves
    <3> QED BY <3>1, <3>3, <3>4
  <2>5. CASE Return(a)
    <3>1. /\ pc[a] = "sleep" /\ pc'[a] = "idle" /\ UNCHANGED <<cmd, loaded, arg>>
          /\ child[mine[a]] # "starting"
      BY <2>5 DEF Return
    <3>2. loaded[mine[a]] # Nil
      BY <1>2, <3>1 DEF Handover, Loads
    <3>3. ~Replacing(a) /\ ~Replacing(a)'
      BY <3>1, <3>2 DEF Replacing
    <3> QED BY <1>2, <2>0, <3>1, <3>3, <1>a
  <2> QED BY <1>2, <2>1, <2>2, <2>3, <2>4, <2>5 DEF ApplyStep
<1>3. ASSUME NEW t \in Threads, StopStep(t), ~Closing PROVE Stutters \/ Replaces \/ Closes
  <2>1. CASE t = Main
    <3>1. Closing'
      BY <1>3, <2>1 DEF StopStep, StopTake, StopSignal, StopReap, AfterStop, Closing
    <3> QED BY <3>1, <1>b
  <2>2. CASE t \in Appliers /\ StopTake(t)
    <3>1. /\ arg'[t] \in Configs /\ ~Closing'
          /\ Replacing(t)'
      BY <1>3, <2>2 DEF StopTake, AfterStop, Closing, Replacing
    <3> QED BY <2>2, <3>1 DEF View, Replaces
  <2>3. CASE t \in Appliers /\ (StopSignal(t) \/ StopReap(t))
    <3>1. /\ UNCHANGED <<cmd, loaded, arg>> /\ ~Closing'
          /\ Replacing(t) /\ Replacing(t)'
      BY <1>3, <2>3 DEF StopSignal, StopReap, AfterStop, Closing, Replacing
    <3> QED BY <1>3, <2>3, <3>1, <1>a
  <2> QED BY <1>3, <2>1, <2>2, <2>3 DEF StopStep
<1>4. ASSUME NEW k \in Children, Waiter(k) \/ ChildDies(k), ~Closing PROVE Stutters
  <2>1. UNCHANGED <<cmd, loaded, arg, pc, mine>>
    BY <1>4 DEF Waiter, ChildDies
  <2>2. ~Closing' /\ \A a \in Appliers : Replacing(a)' <=> Replacing(a)
    BY <1>4, <2>1 DEF Closing, Replacing
  <2> QED BY <1>4, <2>1, <2>2, <1>a
<1>5. ASSUME NEW k \in Children, ChildLoads(k), ~Closing PROVE Stutters \/ Serves
  <2>1. child[k] = "starting" /\ UNCHANGED <<cmd, arg, pc, mine, file>> /\ ~Closing'
    BY <1>5 DEF ChildLoads, Closing
  <2>2. PICK a \in Appliers : pc[a] \in {"set", "sleep"} /\ mine[a] = k
    <3>1. \E a \in Appliers : pc[a] \in {"signal", "reap", "start", "set", "sleep"}
      BY <1>5, <2>1 DEF Settled, Restarting, OthersGone, Idle
    <3> QED BY <1>5, <2>1, <3>1 DEF Handover, OthersGone, Idle
  <2>3. loaded[k] = Nil /\ loaded'[k] \in {Nil, arg[a]} /\ arg[a] \in Configs
    BY <1>5, <2>1, <2>2 DEF Loads, Handover
  <2>4. Replacing(a) /\ Target = arg[a] /\ Serving = Nil
    BY <1>5, <2>2, <2>3 DEF View, Replacing
  <2>5. CASE Replacing(a)'
    BY <2>1, <2>4, <2>5 DEF View, Stutters
  <2>6. CASE ~Replacing(a)'
    <3>1. pc[a] = "sleep" /\ cmd = k /\ loaded'[k] = arg[a]
      BY <1>5, <2>1, <2>2, <2>3, <2>6 DEF Replacing, Handover
    <3> QED BY <2>1, <2>3, <2>4, <2>6, <3>1 DEF View, Serves
  <2> QED BY <2>5, <2>6
<1>6. CASE (Shutdown \/ UNCHANGED vars) /\ ~Closing
  <2>1. UNCHANGED <<cmd, loaded, arg, mine>> /\ \A a \in Appliers : pc'[a] = pc[a]
    BY <1>6 DEF Shutdown, vars
  <2>2. ~Closing' /\ \A a \in Appliers : Replacing(a)' <=> Replacing(a)
    BY <1>6, <2>1 DEF Shutdown, vars, Closing, Replacing
  <2> QED BY <1>6, <2>1, <2>2, <1>a
<1>7. CASE Closing
  <2>1. Closing'
    <3>1. ASSUME NEW t \in Threads, StopStep(t) PROVE Closing'
      BY <1>7, <3>1 DEF StopStep, StopTake, StopSignal, StopReap, AfterStop, Closing
    <3>2. ASSUME NEW a \in Appliers, ApplyStep(a) PROVE Closing'
      BY <1>7, <3>2 DEF ApplyStep, Truncate, Write, WriteFails, Noop, LookPathFails, LookPath,
         CheckFails, CheckPasses, StartFails, SetCmd, Return, Start, Closing
    <3>3. ASSUME NEW a \in Appliers, NEW cfg \in Configs, Call(a, cfg) PROVE Closing'
      BY <1>7, <3>3 DEF Call, Closing
    <3>4. ASSUME NEW k \in Children, Waiter(k) \/ ChildLoads(k) \/ ChildDies(k)
          PROVE  Closing'
      BY <1>7, <3>4 DEF Waiter, ChildLoads, ChildDies, Closing
    <3>5. CASE Shutdown \/ UNCHANGED vars
      BY <1>7, <3>5 DEF Shutdown, vars, Closing
    <3> QED BY <3>1, <3>2, <3>3, <3>4, <3>5 DEF Next
  <2> QED BY <2>1, <1>b
<1> QED
  BY <1>1, <1>2, <1>3, <1>4, <1>5, <1>6, <1>7 DEF Next

(* One caller at a time, and processes that start when their configuration was *)
(* accepted: Apply and Stop do to the proxy what ProxyContract allows, one      *)
(* configuration after another and never one that was not accepted.             *)
THEOREM ImplementsContractSafely ==
    ASSUME OneApplier, Faults \subseteq {"write", "lookpath"}
    PROVE  Spec => Contract!Init /\ [][Contract!Next]_(Contract!vars)
<1>1. ServeInv => View
  BY ViewHolds, OneApplier
<1>2. Init => Contract!Init
  <2>1. Init => cmd = Nil /\ ~Closing /\ ~\E a \in Appliers : Replacing(a)
    BY SupervisorAssumption DEF SupervisorAssumption, Init, Threads, Closing, Replacing
  <2> QED BY <1>1, <2>1, InitServe DEF View, Contract!Init
<1>3. ServeInv /\ [Next]_vars => ServeInv'
  BY StepServe, OneApplier, Faults \subseteq {"write", "lookpath"}
<1>4. ServeInv /\ ServeInv' /\ View /\ View' /\ [Next]_vars => [Contract!Next]_(Contract!vars)
  BY StepContract, OneApplier, Faults \subseteq {"write", "lookpath"}
<1> QED BY <1>1, <1>2, <1>3, <1>4, InitServe, PTL DEF Spec
===============================================================================
