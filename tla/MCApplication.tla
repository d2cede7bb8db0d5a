--------------------------- MODULE MCApplication ---------------------------
(* What the two programs keep, in memory and in the database, for TLC: the   *)
(* machines of the modules below on small instances.  They share no          *)
(* variable: part is the one that runs, the others rest in an initial state. *)
EXTENDS Broker, Library, PathIndex, PortProcesses, Subscriptions, QuickSearch,
        RunMonitor, Attention, Transfer, RunLogs, Environment

\* A checkout with a manifest below it, in it a module with a task, and a
\* directory of its own elsewhere.
MCOuter == <<"a">>
MCInner == <<"a", "b">>
MCModule == <<"a", "b", "m">>
MCElsewhere == <<"v">>
MCPaths == {MCOuter, MCInner, MCModule, MCElsewhere}
MCCheckouts == {MCOuter}
MCManifests == {MCInner, MCModule}
MCDetected == [p \in MCPaths |-> IF p = MCModule THEN {"dev"} ELSE {}]
MCRootPaths == {MCOuter, MCInner, MCElsewhere}
MCVolatile == {MCInner}
MCTaskNames == [i \in 1..6 |-> {i}]
MCTaskDirs == {NoPath, MCModule}

MCPortSets == {{}, {80}}

MCCandidates == <<"python", "python3">>
MCInstallable == {<<1, 2, 3>>, <<0, 3, 0>>}
MCPart(op, parts) == [op |-> op, parts |-> parts]
MCBounds == {<<0, 0, 2>>, <<0, 2, 9>>, <<0, 3, 0>>, <<1, 1, 9>>, <<1, 2, 3>>, <<1, 2, 4>>}
MCRanges ==
    {<<MCPart(op, b)>> : op \in Operators, b \in MCBounds}
      \cup {<<MCPart(op, b)>> : op \in {"", ">=", "<"}, b \in {<<1>>, <<1, 2>>, <<0, 3>>}}
      \cup {<<>>, <<MCPart(">=", <<0, 3>>), MCPart("<", <<2>>)>>,
            <<MCPart("^", <<1, 2, 0>>), MCPart("", <<>>)>>}

VARIABLE part

applicationVars ==
    <<part, brokerVars, libraryVars, indexVars, portVars, usageVars, quickVars,
      monitorVars, attentionVars, transferVars, logVars, environmentVars>>

Parts == {"broker", "library", "index", "ports", "usage", "quick search",
          "monitor", "attention", "transfer", "logs", "environment"}

ApplicationInit ==
    /\ part \in Parts
    /\ BrokerInit /\ LibraryInit /\ IndexInit /\ PortInit /\ UsageInit /\ QuickInit
    /\ MonitorInit /\ AttentionInit /\ TransferInit /\ LogsInit
    /\ EnvironmentInit
    /\ part # "usage" => signedIn = {}
    /\ part # "monitor" => taken = {}
    /\ part # "environment" => \A k \in DOMAIN Candidates : installed[k] = Absent

Rest(name, vs) == part # name => UNCHANGED vs

ApplicationNext ==
    /\ \/ part = "broker" /\ BrokerNext
       \/ part = "library" /\ LibraryNext
       \/ part = "index" /\ IndexNext
       \/ part = "ports" /\ PortNext
       \/ part = "usage" /\ UsageNext
       \/ part = "quick search" /\ QuickNext
       \/ part = "monitor" /\ MonitorNext
       \/ part = "attention" /\ AttentionNext
       \/ part = "transfer" /\ TransferNext
       \/ part = "logs" /\ LogsNext
       \/ part = "environment" /\ EnvironmentNext
    /\ UNCHANGED part
    /\ Rest("broker", brokerVars) /\ Rest("library", libraryVars)
    /\ Rest("index", indexVars) /\ Rest("ports", portVars)
    /\ Rest("usage", usageVars) /\ Rest("quick search", quickVars)
    /\ Rest("monitor", monitorVars) /\ Rest("attention", attentionVars)
    /\ Rest("transfer", transferVars) /\ Rest("logs", logVars)
    /\ Rest("environment", environmentVars)

ApplicationSpec == ApplicationInit /\ [][ApplicationNext]_applicationVars
=============================================================================
