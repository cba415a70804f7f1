--------------------------- MODULE PluginManagerProps ---------------------------
(***************************************************************************)
(* What the plugin manager must not get wrong.                             *)
(***************************************************************************)
EXTENDS PluginManager

\* Between requests the ToolRegistry holds the providers of the loaded plugins
\* and no others, and every loaded tool plugin has its module (manager.py:533
\* publishes, :254 withdraws, a refused contribution takes the others back).
PublishedIsLoaded ==
  lock = Free =>
    /\ tools = UNION {Providers(n, loaded[n].version) : n \in {m \in Names : loaded[m] # NotLoaded}}
    /\ \A n \in Names : (modules[Module[n]] = n) <=> (loaded[n] # NotLoaded /\ loaded[n].version.kind = "tool")

\* A plugin runs only with permissions the user has confirmed, also when its
\* package is replaced, its record rebound, or the host restarted
\* (manager.py:238 asks, models.py:139 keeps what was granted).
OnlyConfirmedRuns ==
  \A n \in Names : loaded[n] # NotLoaded => loaded[n].version.permissions \subseteq confirmed[n]

\* What runs and what is published are the plugins that were loaded as confirmed.
OnlyConfirmedArePublished == OnlyConfirmedRuns /\ PublishedIsLoaded

\* An Agent that is kept has the tools of the registry: the revision in its
\* fingerprint "cannot leave a future run with stale tools"
\* (tool_registry.py:141, session_service.py:255).
KeptAgentIsCurrent == agent.revision = revision => agent.tools = tools

\* The same of the context plugins contribute, which no revision counts.
KeptAgentHasContext ==
  lock = Free /\ agent.revision = revision =>
    agent.context = {n \in Names : loaded[n] # NotLoaded /\ loaded[n].version.context}

\* Settings that were saved stay until others are saved; api/plugins.py:134
\* says of an unload that it retains them.
SettingsStay ==
  [][\A n \in Names :
       registry[n] # NoRecord /\ registry'[n] # NoRecord /\ registry'[n].settings # registry[n].settings
         => \E t \in Threads : job[t].op = "settings" /\ job[t].name = n /\ job'[t] = Idle]_vars

\* A plugin whose unload returned is not loaded again until it is asked for.
UnloadStays ==
  [][\A n \in Names :
       registry[n] # NoRecord /\ ~registry[n].enabled /\ registry'[n].enabled
         => \E t \in Workers : job[t].pc = "check" /\ job[t].op \in {"load", "confirm"} /\ job[t].name = n]_vars
=================================================================================
