------------------------------- MODULE HostSettings -------------------------------
(***************************************************************************)
(* The connectors of the host, their keys in files of their own, and the   *)
(* default connector of each Session, over the Sessions of SessionCatalog. *)
(* A run that is admitted looks up its connector, key and endpoint one     *)
(* after the other.                                                        *)
(*                                                                         *)
(* The endpoint and the key of a connector carry the number of the edit    *)
(* that gave them.  Ids of connectors are never used again.                *)
(***************************************************************************)
EXTENDS SessionCatalog

CONSTANTS
  Connectors,  \* ids of connectors
  Clerks,      \* threads that edit connectors and preferences
  Runners,     \* runs that are admitted
  MaxEdits     \* bound: edits of connectors and preferences

VARIABLES
  meta,    \* connectors.json: the edit that gave each endpoint, 0 if unknown
  secret,  \* the edit that gave each key, 0 if there is no file
  ever,    \* ids that were handed out
  prefs,   \* session-preferences.json
  clerk,   \* the edit each clerk is at
  run,     \* what each admitted run has read
  edits

settings == <<meta, secret, ever, prefs, clerk, run, edits>>
vars == <<sessions, settings>>

NoConnector == "none"
Done == [pc |-> "idle", c |-> NoConnector, id |-> NoId, n |-> 0]
NoRun == [pc |-> "idle", id |-> NoId, c |-> NoConnector, key |-> 0, endpoint |-> 0]
Holding == {"secret", "unlink"}

SettingsTypeOK ==
  /\ TypeOK /\ edits \in 0..MaxEdits
  /\ meta \in [Connectors -> 0..MaxEdits] /\ secret \in [Connectors -> 0..MaxEdits]
  /\ ever \subseteq Connectors /\ prefs \in [Ids -> Connectors \cup {NoConnector}]
  /\ \A k \in Clerks : clerk[k].pc \in {"idle", "secret", "unlink", "clear", "prefer"}
  /\ \A r \in Runners : run[r].pc \in {"idle", "select", "key", "endpoint", "ready"}

SettingsInit ==
  /\ Init /\ edits = 0 /\ ever = {}
  /\ meta = [c \in Connectors |-> 0] /\ secret = [c \in Connectors |-> 0]
  /\ prefs = [id \in Ids |-> NoConnector]
  /\ clerk = [k \in Clerks |-> Done] /\ run = [r \in Runners |-> NoRun]

\* The lock of the store is held from the metadata to the key.
Unlocked == up = "serving" /\ \A k \in Clerks : clerk[k].pc \notin Holding
Edit == Count /\ edits < MaxEdits /\ edits' = edits + 1

-----------------------------------------------------------------------------
\* Edits of connectors.

\* create and replace store the metadata first.
Begin(k, c) ==
  /\ meta' = [meta EXCEPT ![c] = edits'] /\ UNCHANGED secret
  /\ clerk' = [clerk EXCEPT ![k] = [Done EXCEPT !.pc = "secret", !.c = c, !.n = edits']]

CreateConnector(k, c) ==
  /\ Unlocked /\ clerk[k] = Done /\ c \notin ever /\ Edit
  /\ Begin(k, c) /\ ever' = ever \cup {c} /\ UNCHANGED <<catalogued, prefs, run>>

ReplaceConnector(k, c) ==
  /\ Unlocked /\ clerk[k] = Done /\ meta[c] # 0 /\ Edit
  /\ Begin(k, c) /\ UNCHANGED <<catalogued, ever, prefs, run>>

\* A blank key keeps the old one; a write that fails leaves the new endpoint
\* with the old key.
KeepSecret(k) ==
  /\ up = "serving" /\ clerk[k].pc = "secret" /\ clerk' = [clerk EXCEPT ![k] = Done]
  /\ UNCHANGED <<sessions, meta, secret, ever, prefs, run, edits>>

WriteSecret(k) ==
  /\ up = "serving" /\ clerk[k].pc = "secret" /\ clerk' = [clerk EXCEPT ![k] = Done]
  /\ secret' = [secret EXCEPT ![clerk[k].c] = clerk[k].n]
  /\ UNCHANGED <<sessions, meta, ever, prefs, run, edits>>

RemoveConnector(k, c) ==
  /\ Unlocked /\ clerk[k] = Done /\ meta[c] # 0 /\ Edit
  /\ meta' = [meta EXCEPT ![c] = 0]
  /\ clerk' = [clerk EXCEPT ![k] = [Done EXCEPT !.pc = "unlink", !.c = c]]
  /\ UNCHANGED <<catalogued, secret, ever, prefs, run>>

Unlink(k) ==
  /\ up = "serving" /\ clerk[k].pc = "unlink" /\ clerk' = [clerk EXCEPT ![k].pc = "clear"]
  /\ secret' = [secret EXCEPT ![clerk[k].c] = 0]
  /\ UNCHANGED <<sessions, meta, ever, prefs, run, edits>>

\* clear_connector, under the lock of the other store.
ClearDefaults(k) ==
  /\ up = "serving" /\ clerk[k].pc = "clear" /\ clerk' = [clerk EXCEPT ![k] = Done]
  /\ prefs' = [id \in Ids |-> IF prefs[id] = clerk[k].c THEN NoConnector ELSE prefs[id]]
  /\ UNCHANGED <<sessions, meta, secret, ever, run, edits>>

-----------------------------------------------------------------------------
\* The default connector of a Session: both exist, then it is stored.

Prefer(k, id, c) ==
  /\ Unlocked /\ clerk[k] = Done /\ Edit /\ registry[id] # 0
  /\ c # NoConnector => meta[c] # 0
  /\ clerk' = [clerk EXCEPT ![k] = [Done EXCEPT !.pc = "prefer", !.c = c, !.id = id]]
  /\ UNCHANGED <<catalogued, meta, secret, ever, prefs, run>>

StorePreference(k) ==
  /\ up = "serving" /\ clerk[k].pc = "prefer" /\ clerk' = [clerk EXCEPT ![k] = Done]
  /\ prefs' = [prefs EXCEPT ![clerk[k].id] = clerk[k].c]
  /\ UNCHANGED <<sessions, meta, secret, ever, run, edits>>

-----------------------------------------------------------------------------
\* ensure_coordinator of an admitted run.

Admit(r, id) ==
  /\ Count /\ run[r] = NoRun /\ registry[id] # 0
  /\ run' = [run EXCEPT ![r] = [NoRun EXCEPT !.pc = "select", !.id = id]]
  /\ UNCHANGED <<catalogued, meta, secret, ever, prefs, clerk, edits>>

Gets(r, record) == run' = [run EXCEPT ![r] = record] /\ UNCHANGED <<sessions, meta, secret, ever, prefs, clerk, edits>>

\* Mutant: the endpoint is read before the key.
FollowingEndpointFirst(point) ==
  CASE point = "select" -> "endpoint" [] point = "endpoint" -> "key" [] point = "key" -> "ready"

Following(point) ==
  CASE point = "select" -> "key" [] point = "key" -> "endpoint" [] point = "endpoint" -> "ready"

\* The connector of the request, or the default of the Session.
Select(r) ==
  /\ Unlocked /\ run[r].pc = "select"
  /\ \E c \in Connectors \cup {prefs[run[r].id]} :
       Gets(r, IF c # NoConnector /\ meta[c] # 0 THEN [run[r] EXCEPT !.pc = Following("select"), !.c = c] ELSE NoRun)

ReadKey(r) ==
  LET c == run[r].c IN
  /\ Unlocked /\ run[r].pc = "key"
  /\ Gets(r, IF meta[c] # 0 /\ secret[c] # 0 THEN [run[r] EXCEPT !.pc = Following("key"), !.key = secret[c]] ELSE NoRun)

ReadEndpoint(r) ==
  LET c == run[r].c IN
  /\ Unlocked /\ run[r].pc = "endpoint"
  /\ Gets(r, IF meta[c] # 0 THEN [run[r] EXCEPT !.pc = Following("endpoint"), !.endpoint = meta[c]] ELSE NoRun)

-----------------------------------------------------------------------------
\* Threads of the settings die with the process.
SettingsCrash ==
  /\ Crash /\ clerk' = [k \in Clerks |-> Done] /\ run' = [r \in Runners |-> NoRun]
  /\ UNCHANGED <<meta, secret, ever, prefs, edits>>

Clerk(k) == KeepSecret(k) \/ WriteSecret(k) \/ Unlink(k) \/ ClearDefaults(k) \/ StorePreference(k)

Host == Import \/ Rehydrate \/ Restart

Next ==
  \/ SettingsCrash
  \/ Host /\ UNCHANGED settings
  \/ \E j \in Jobs : /\ \/ \E op \in Ops, id \in Ids : Ask(j, op, id)
                        \/ Create(j) \/ Delete(j) \/ Rename(j) \/ TouchRead(j) \/ TouchReplace(j)
                        \/ ProfileCheck(j) \/ ProfileWrite(j)
                     /\ UNCHANGED settings
  \/ \E k \in Clerks : \/ Clerk(k)
                       \/ \E c \in Connectors : CreateConnector(k, c) \/ ReplaceConnector(k, c) \/ RemoveConnector(k, c)
                       \/ \E id \in Ids, c \in Connectors \cup {NoConnector} : Prefer(k, id, c)
  \/ \E r \in Runners : \/ \E id \in Ids : Admit(r, id)
                        \/ Select(r) \/ ReadKey(r) \/ ReadEndpoint(r)

Spec == SettingsInit /\ [][Next]_vars
=====================================================================================
