---------------------------- MODULE ProxyContract ----------------------------
(***************************************************************************)
(* What the panel expects of Supervisor.Apply (cmd/soooski/main.go applies *)
(* a configuration and then counts on it): the proxy serves one            *)
(* configuration at a time, an accepted Apply replaces it and the new one  *)
(* is then served, and nothing else disturbs it until the panel stops.     *)
(***************************************************************************)
CONSTANTS Configs, None

VARIABLES
    target,     \* the configuration last accepted, None before
    serving     \* the configuration being served, None while there is none

vars == <<target, serving>>

TypeOK == target \in Configs \cup {None} /\ serving \in Configs \cup {None}

Init == target = None /\ serving = None

Replace(cfg) == target' = cfg /\ serving' = None

Serve == target # None /\ serving = None /\ serving' = target /\ UNCHANGED target

Close == target' = None /\ serving' = None

Next == Serve \/ Close \/ \E cfg \in Configs : Replace(cfg)

Spec == Init /\ [][Next]_vars /\ WF_vars(Serve)
===============================================================================
