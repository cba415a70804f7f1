---------------------------- MODULE HostSettingsProps ----------------------------
(* What the catalog of Sessions and the settings of the host promise.      *)
EXTENDS HostSettings, TLC

SettingsSymmetry == Permutations(Ids \ Odd) \cup Permutations(Jobs)

\* A Session the browser lists can be opened at once, and when no request is in
\* flight memory and disk know the same Sessions: creations that fail, two
\* deletions at once, deaths and restarts leave no half of one behind
\* (create, delete, AngelusCore.__init__).
RegistryFollowsCatalog ==
  up = "serving" =>
    /\ \A id \in Listed : registry[id] # 0
    /\ (\A j \in Jobs : job[j] = Idle) => \A id \in Ids : registry[id] # 0 => id \in Listed

\* "This migration runs once.  Thereafter this catalog is the only authority, so
\* a deleted Session cannot be resurrected by the old index on a later
\* application startup", although the entry of a deleted Session can survive in
\* the index when two deletions write it (import_legacy_sessions,
\* remove_legacy_session).
DeletedStaysDeleted == gone \cap Listed = {}

\* The catalog on disk is the only authority on which Sessions exist.
CatalogIsAuthority == RegistryFollowsCatalog /\ DeletedStaysDeleted

\* A Session never finds the files of an earlier one of its
\* id, unless a request wrote into the directory while a Session was being made
\* or deleted (delete removes the tree before it frees the id).
FilesBelongToSession ==
  \A id \in Listed \ stray : \A g \in files[id] : g >= registry[id]

\* No run sends a key to an endpoint older than the one it was entered with,
\* whatever edits, failed writes and deaths fall between its reads: the endpoint
\* is stored before the key and read behind it (replace, ensure_coordinator).
NewKeyNeverGoesToOldEndpoint ==
  \A r \in Runners : run[r].pc = "ready" => run[r].key <= run[r].endpoint

-----------------------------------------------------------------------------
\* The inductive invariant behind it.

\* The tree of the Session has gone and its id has not been freed.
Going(id) ==
  \E j \in Jobs : /\ job[j].op = "delete" /\ job[j].id = id
                  /\ job[j].pc \in {"archive", "index", "reindex", "unlist", "forget"}

\* The catalog can hold the record of an earlier Session, never of a later one.
GenerationInv ==
  /\ \A id \in Ids : registry[id] <= clock /\ catalog[id].gen <= clock
  /\ up = "serving" => \A id \in Listed : catalog[id].gen <= registry[id]
  /\ \A j \in Jobs :
       /\ job[j].pc = "add" => job[j].gen = registry[job[j].id]
       /\ job[j].pc = "replace" =>
            job[j].seen.gen <= clock /\ (registry[job[j].id] # 0 => job[j].seen.gen <= registry[job[j].id])

\* Outside the ids that were written to at the wrong time a directory is empty
\* unless its Session is listed and stays, and no file is older than a record of
\* it, in memory, on disk or in the hands of a request.
FilesInv ==
  /\ \A id \in Ids \ stray :
       /\ id \notin Listed \/ Going(id) => files[id] = {}
       /\ \A g \in files[id] : /\ g >= registry[id] /\ g >= catalog[id].gen
                               /\ \A j \in Jobs : job[j].pc = "replace" /\ job[j].id = id => g >= job[j].seen.gen
  /\ \A j \in Jobs :
       job[j].pc = "write" /\ ~job[j].late =>
         job[j].id \in Listed /\ ~Going(job[j].id) /\ job[j].gen = registry[job[j].id]

-----------------------------------------------------------------------------
\* What does not hold.

\* An edit between the two reads gives a run the old key with the new endpoint.
KeyAndEndpointAgree ==
  \A r \in Runners : run[r].pc = "ready" => run[r].endpoint = run[r].key \/ run[r].key = secret[run[r].c]

\* touch_activity writes back the record it read: a rename, or a Session that
\* was deleted and made again in between, is undone.
RenameStays ==
  [][\A id \in Ids : catalog[id] # Unlisted /\ catalog'[id] # Unlisted => catalog'[id].name >= catalog[id].name]_catalog

\* "Remove every Session default that references a deleted connector": a default
\* that was checked before is stored behind the removal.
DefaultsExist ==
  \A id \in Ids : prefs[id] # NoConnector => meta[prefs[id]] # 0 \/ \E k \in Clerks : clerk[k].c = prefs[id]

\* The default of a deleted Session is the default of the next of its id.
DefaultsAreOwned == \A id \in gone : prefs[id] = NoConnector

\* A deletion removes the Session it was confirmed for: the slower of two can
\* remove the next Session of the id.
DeletionIsOfItsSession ==
  [][\A id \in Ids : catalog[id] # Unlisted /\ catalog'[id] = Unlisted =>
       \E j \in Jobs : job[j].op = "delete" /\ job[j].id = id /\ job[j].gen >= catalog[id].gen]_catalog

\* A new Session has its workspace directory: it is made before the id is taken
\* and can go with the tree of the old one.
WorkspaceExists == Listed \subseteq home

\* A host starts with whatever the old backend left: an id that import accepts
\* and create refuses ends every later start.
HostComesUp == up = "rehydrate" => Listed \cap Odd = {}
====================================================================================
