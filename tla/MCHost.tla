------------------------------- MODULE MCHost -------------------------------
\* What runs around a deploy on a host and towards it, each part in behaviours
\* of its own: a call of a plugin (PluginCall), installed bundles (PluginFiles),
\* addon instances (Addons), the supervisor's endpoint (ControlPlane), an agent's
\* requests (Agent), the remote dashboard (RemoteSession), "riku init" (HostSetup)
\* and the choice of a command's host (RemoteTarget).  "focus" says which; the
\* others stay as they were at the start.
EXTENDS PluginCall, PluginFiles, Addons, ControlPlane, Agent, RemoteSession, HostSetup,
        RemoteTarget

VARIABLE focus

MCLimit == [readonly |-> 2, production |-> 1]
\* Two names for one machine, and another machine.
MCAddressOf == [x |-> "m", y |-> "m", z |-> "n"]

Init ==
    /\ focus \in {"call", "bundles", "addons", "plane", "agent", "session", "setup", "target"}
    /\ CallInit
    /\ focus # "call" => seam = "event"
    /\ PluginInit /\ AddonInit
    /\ PlaneInit
    /\ focus # "plane" => busy = {}
    /\ AgentInit
    /\ focus # "agent" => scope = "readonly"
    /\ SessionInit
    /\ SetupInit
    /\ focus # "setup" => stale = {} /\ systemd /\ tmpfiles /\ confd
    /\ TargetInit
    /\ focus # "target" => remotes = {} /\ theirs = Empty

Next ==
    /\ UNCHANGED focus
    /\ \/ /\ focus = "call" /\ CallNext
          /\ UNCHANGED <<pluginState, addonState, planeState, agentState, sessionState, setupState, targetState>>
       \/ /\ focus = "bundles" /\ PluginNext
          /\ UNCHANGED <<callState, addonState, planeState, agentState, sessionState, setupState, targetState>>
       \/ /\ focus = "addons" /\ AddonNext
          /\ UNCHANGED <<callState, pluginState, planeState, agentState, sessionState, setupState, targetState>>
       \/ /\ focus = "plane" /\ PlaneNext
          /\ UNCHANGED <<callState, pluginState, addonState, agentState, sessionState, setupState, targetState>>
       \/ /\ focus = "agent" /\ AgentNext
          /\ UNCHANGED <<callState, pluginState, addonState, planeState, sessionState, setupState, targetState>>
       \/ /\ focus = "session" /\ SessionNext
          /\ UNCHANGED <<callState, pluginState, addonState, planeState, agentState, setupState, targetState>>
       \/ /\ focus = "setup" /\ SetupNext
          /\ UNCHANGED <<callState, pluginState, addonState, planeState, agentState, sessionState, targetState>>
       \/ /\ focus = "target" /\ TargetNext
          /\ UNCHANGED <<callState, pluginState, addonState, planeState, agentState, sessionState, setupState>>

vars == <<focus, callVars, pluginVars, addonVars, planeVars, agentVars,
          sessionVars, setupVars, targetVars>>

Spec == Init /\ [][Next]_vars
=============================================================================
