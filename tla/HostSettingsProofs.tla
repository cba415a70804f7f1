--------------------------- MODULE HostSettingsProofs ---------------------------
(* Theorems about the catalog of Sessions and the settings, for any number *)
(* of threads, Sessions, connectors, requests, edits, faults and crashes.  *)
EXTENDS HostSettingsProps, TLAPS

-----------------------------------------------------------------------------
\* A run that has its endpoint has a key that is no newer.

Numbers ==
  /\ edits \in Nat /\ ever \subseteq Connectors
  /\ meta \in [Connectors -> Nat] /\ secret \in [Connectors -> Nat]
  /\ \A c \in Connectors : meta[c] <= edits /\ secret[c] <= edits

\* The key of a connector that can be used is never newer than its endpoint,
\* and a connector that is gone stays so.
StoreInv ==
  \A c \in Connectors :
    /\ meta[c] # 0 => c \in ever /\ secret[c] <= meta[c]
    /\ c \notin ever => secret[c] = 0

\* The lock keeps the endpoint while the key is on its way.
ClerkInv ==
  \A k \in Clerks :
    clerk[k].pc = "secret" => clerk[k].c \in Connectors /\ clerk[k].n \in Nat /\ meta[clerk[k].c] = clerk[k].n

Defaults == Connectors \cup {NoConnector}

PrefsInv ==
  /\ DOMAIN clerk = Clerks
  /\ prefs \in [Ids -> Defaults]
  /\ \A k \in Clerks : clerk[k].pc = "prefer" => clerk[k].id \in Ids /\ clerk[k].c \in Defaults

RunOK(x) ==
  /\ x.pc # "idle" => x.id \in Ids
  /\ x.pc = "key" => x.c \in Connectors
  /\ x.pc = "endpoint" => /\ x.c \in ever /\ x.key \in Nat /\ x.key <= edits
                          /\ meta[x.c] # 0 => x.key <= meta[x.c]
  /\ x.pc = "ready" => x.key <= x.endpoint

KeyInv ==
  /\ Numbers /\ StoreInv
  /\ DOMAIN clerk = Clerks /\ ClerkInv
  /\ DOMAIN run = Runners /\ \A r \in Runners : RunOK(run[r])

LEMMA KeyStart == SettingsInit => KeyInv
<1> SUFFICES ASSUME SettingsInit PROVE KeyInv
  OBVIOUS
<1> USE DEF SettingsInit
<1>1. Numbers /\ StoreInv
  BY DEF Numbers, StoreInv
<1>2. DOMAIN clerk = Clerks /\ ClerkInv
  BY DEF ClerkInv, Done
<1>3. DOMAIN run = Runners /\ \A r \in Runners : RunOK(run[r])
  BY DEF RunOK, NoRun
<1> QED BY <1>1, <1>2, <1>3 DEF KeyInv

\* What leaves the connectors, their numbers, the clerks and the runs alone.
LEMMA KeyQuiet ==
  ASSUME KeyInv, UNCHANGED <<meta, secret, ever>>, edits' = edits \/ edits' = edits + 1,
         DOMAIN clerk' = Clerks,
         \A k \in Clerks : clerk'[k].pc = "secret" => clerk'[k] = clerk[k],
         run' = run
  PROVE  KeyInv'
<1>1. edits \in Nat /\ edits' \in Nat /\ edits <= edits'
  BY DEF KeyInv, Numbers
<1>2. Numbers' /\ StoreInv'
  BY <1>1 DEF KeyInv, Numbers, StoreInv
<1>3. ClerkInv'
  BY DEF KeyInv, ClerkInv
<1>4. \A r \in Runners : RunOK(run[r])'
  BY <1>1 DEF KeyInv, RunOK
<1> QED BY <1>2, <1>3, <1>4 DEF KeyInv

\* The first half of an edit: a number above all others.
LEMMA KeyBegin ==
  ASSUME KeyInv, NEW k \in Clerks, NEW c \in Connectors,
         Unlocked, Edit, Begin(k, c), UNCHANGED run, ever' = ever \cup {c},
         c \notin ever => meta[c] = 0
  PROVE  KeyInv'
<1> USE DEF KeyInv
<1>1. /\ edits \in Nat /\ edits' = edits + 1 /\ meta' = [meta EXCEPT ![c] = edits'] /\ secret' = secret
      /\ clerk' = [clerk EXCEPT ![k] = [Done EXCEPT !.pc = "secret", !.c = c, !.n = edits']]
  BY DEF Begin, Edit, Numbers
<1>2. Numbers'
  BY <1>1 DEF Numbers
<1>3. StoreInv'
  BY <1>1 DEF StoreInv, Numbers
<1>4. \A l \in Clerks : clerk[l].pc # "secret"
  BY DEF Unlocked, Holding
<1>5. ClerkInv' /\ DOMAIN clerk' = Clerks
  <2>1. ASSUME NEW l \in Clerks, clerk'[l].pc = "secret"
        PROVE  clerk'[l].c \in Connectors /\ clerk'[l].n \in Nat /\ meta'[clerk'[l].c] = clerk'[l].n
    <3>1. l = k
      BY <1>1, <1>4, <2>1
    <3>2. clerk'[k].c = c /\ clerk'[k].n = edits'
      BY <1>1 DEF Done
    <3> QED BY <1>1, <3>1, <3>2 DEF Numbers
  <2> QED BY <1>1, <2>1 DEF ClerkInv
<1>6. ASSUME NEW r \in Runners
      PROVE  RunOK(run[r])'
  <2>1. RunOK(run[r])
    OBVIOUS
  <2>2. CASE run[r].pc = "endpoint"
    BY <1>1, <2>1, <2>2 DEF RunOK, Numbers
  <2>3. CASE run[r].pc # "endpoint"
    BY <2>1, <2>3 DEF RunOK
  <2> QED BY <2>2, <2>3
<1> QED BY <1>2, <1>3, <1>5, <1>6

LEMMA ClerkStep ==
  ASSUME KeyInv, NEW k \in Clerks, Clerk(k)
  PROVE  KeyInv'
<1>1. CASE KeepSecret(k)
  BY <1>1, KeyQuiet DEF KeepSecret, KeyInv, Done
<1>2. CASE WriteSecret(k)
  <2>1. /\ clerk[k].pc = "secret" /\ clerk' = [clerk EXCEPT ![k] = Done]
        /\ secret' = [secret EXCEPT ![clerk[k].c] = clerk[k].n]
        /\ UNCHANGED <<meta, ever, edits, run>>
    BY <1>2 DEF WriteSecret
  <2>2. clerk[k].c \in Connectors /\ clerk[k].n \in Nat /\ meta[clerk[k].c] = clerk[k].n
    BY <2>1 DEF KeyInv, ClerkInv
  <2>3. Numbers'
    BY <2>1, <2>2 DEF KeyInv, Numbers
  <2>4. ASSUME NEW c \in Connectors
        PROVE  /\ meta'[c] # 0 => c \in ever' /\ secret'[c] <= meta'[c]
               /\ c \notin ever' => secret'[c] = 0
    <3>1. CASE c = clerk[k].c
      <4>1. meta[c] = 0 => clerk[k].n = 0
        BY <2>2, <3>1
      <4> QED BY <2>1, <2>2, <3>1, <4>1 DEF KeyInv, Numbers, StoreInv
    <3>2. CASE c # clerk[k].c
      BY <2>1, <3>2 DEF KeyInv, Numbers, StoreInv
    <3> QED BY <3>1, <3>2
  <2>5. DOMAIN clerk' = Clerks /\ ClerkInv'
    BY <2>1 DEF KeyInv, ClerkInv, Done
  <2>6. \A r \in Runners : RunOK(run[r])'
    BY <2>1 DEF KeyInv, RunOK
  <2>7. DOMAIN run' = Runners
    BY <2>1 DEF KeyInv
  <2> QED BY <2>3, <2>4, <2>5, <2>6, <2>7 DEF KeyInv, StoreInv
<1>3. CASE Unlink(k)
  <2>1. /\ secret' = [secret EXCEPT ![clerk[k].c] = 0] /\ clerk' = [clerk EXCEPT ![k].pc = "clear"]
        /\ UNCHANGED <<meta, ever, edits, run>>
    BY <1>3 DEF Unlink
  <2>2. /\ secret' \in [Connectors -> Nat]
        /\ \A c \in Connectors : secret'[c] = 0 \/ secret'[c] = secret[c]
    <3>1. secret \in [Connectors -> Nat] /\ 0 \in Nat
      BY DEF KeyInv, Numbers
    <3>2. \A c \in Connectors : secret'[c] = IF c = clerk[k].c THEN 0 ELSE secret[c]
      BY <2>1, <3>1
    <3> QED BY <2>1, <3>1, <3>2
  <2>6. Numbers' /\ StoreInv'
    BY <2>1, <2>2 DEF KeyInv, Numbers, StoreInv
  <2>3. DOMAIN clerk' = Clerks /\ ClerkInv'
    BY <2>1 DEF KeyInv, ClerkInv
  <2>4. \A r \in Runners : RunOK(run[r])'
    BY <2>1 DEF KeyInv, RunOK
  <2>5. DOMAIN run' = Runners
    BY <2>1 DEF KeyInv
  <2> QED BY <2>3, <2>4, <2>5, <2>6 DEF KeyInv
<1>4. CASE ClearDefaults(k)
  BY <1>4, KeyQuiet DEF ClearDefaults, KeyInv, Done
<1>5. CASE StorePreference(k)
  BY <1>5, KeyQuiet DEF StorePreference, KeyInv, Done
<1> QED BY <1>1, <1>2, <1>3, <1>4, <1>5 DEF Clerk

LEMMA EditStep ==
  ASSUME KeyInv, NEW k \in Clerks, NEW c \in Connectors,
         CreateConnector(k, c) \/ ReplaceConnector(k, c) \/ RemoveConnector(k, c)
  PROVE  KeyInv'
<1>1. CASE CreateConnector(k, c)
  <2>1. meta[c] = 0
    BY <1>1 DEF CreateConnector, KeyInv, StoreInv
  <2> QED BY <1>1, <2>1, KeyBegin DEF CreateConnector
<1>2. CASE ReplaceConnector(k, c)
  <2>1. c \in ever
    BY <1>2 DEF ReplaceConnector, KeyInv, StoreInv
  <2>2. ever' = ever \cup {c}
    BY <1>2, <2>1 DEF ReplaceConnector
  <2> QED BY <1>2, <2>1, <2>2, KeyBegin DEF ReplaceConnector
<1>3. CASE RemoveConnector(k, c)
  <2>1. /\ edits \in Nat /\ edits' = edits + 1 /\ meta' = [meta EXCEPT ![c] = 0]
        /\ clerk' = [clerk EXCEPT ![k] = [Done EXCEPT !.pc = "unlink", !.c = c]]
        /\ UNCHANGED <<secret, ever, run>>
    BY <1>3 DEF RemoveConnector, Edit, KeyInv, Numbers
  <2>2. \A l \in Clerks : clerk[l].pc # "secret"
    BY <1>3 DEF RemoveConnector, Unlocked, Holding
  <2>3. Numbers' /\ StoreInv'
    BY <2>1 DEF KeyInv, Numbers, StoreInv
  <2>4. DOMAIN clerk' = Clerks /\ \A l \in Clerks : clerk'[l].pc # "secret"
    BY <2>1, <2>2 DEF KeyInv, Done
  <2>5. ASSUME NEW r \in Runners
        PROVE  RunOK(run[r])'
    <3>1. RunOK(run[r])
      BY DEF KeyInv
    <3>2. CASE run[r].pc = "endpoint"
      BY <2>1, <3>1, <3>2 DEF RunOK, KeyInv, Numbers
    <3>3. CASE run[r].pc # "endpoint"
      BY <2>1, <3>1, <3>3 DEF RunOK
    <3> QED BY <3>2, <3>3
  <2>6. DOMAIN run' = Runners
    BY <2>1 DEF KeyInv
  <2> QED BY <2>3, <2>4, <2>5, <2>6 DEF KeyInv, ClerkInv
<1> QED BY <1>1, <1>2, <1>3

\* A run takes one step and the others keep what they have read.
LEMMA RunStep ==
  ASSUME KeyInv, NEW r \in Runners, NEW x, RunOK(x),
         run' = [run EXCEPT ![r] = x], UNCHANGED <<meta, secret, ever, edits, clerk>>
  PROVE  KeyInv'
<1>1. \A q \in Runners : RunOK(run'[q])
  BY DEF KeyInv
<1>2. DOMAIN run' = Runners
  BY DEF KeyInv
<1>3. \A q \in Runners : RunOK(run[q])'
  BY <1>1 DEF RunOK
<1> QED BY <1>2, <1>3 DEF KeyInv, Numbers, StoreInv, ClerkInv

LEMMA NoRunOK == RunOK(NoRun)
BY DEF RunOK, NoRun

LEMMA RunnerStep ==
  ASSUME KeyInv, PrefsInv, NEW r \in Runners,
         (\E id \in Ids : Admit(r, id)) \/ Select(r) \/ ReadKey(r) \/ ReadEndpoint(r)
  PROVE  KeyInv'
<1>1. ASSUME NEW id \in Ids, Admit(r, id)
      PROVE  KeyInv'
  <2>1. RunOK([NoRun EXCEPT !.pc = "select", !.id = id])
    BY DEF RunOK, NoRun
  <2> QED BY <1>1, <2>1, RunStep DEF Admit
<1>2. CASE Select(r)
  <2>1. run[r].pc = "select" /\ run[r].id \in Ids
    BY <1>2 DEF Select, KeyInv, RunOK
  <2>2. Connectors \cup {prefs[run[r].id]} \subseteq Defaults
    BY <2>1 DEF PrefsInv, Defaults
  <2>3. PICK c \in Defaults :
          Gets(r, IF c # NoConnector /\ meta[c] # 0 THEN [run[r] EXCEPT !.pc = Following("select"), !.c = c] ELSE NoRun)
    BY <1>2, <2>2 DEF Select
  <2>4. ASSUME c # NoConnector
        PROVE  RunOK([run[r] EXCEPT !.pc = Following("select"), !.c = c])
    BY <2>1, <2>4 DEF RunOK, Following, Defaults
  <2> QED BY <2>3, <2>4, NoRunOK, RunStep DEF Gets
<1>3. CASE ReadKey(r)
  <2> DEFINE c == run[r].c
             x == [run[r] EXCEPT !.pc = Following("key"), !.key = secret[c]]
  <2>1. run[r].pc = "key" /\ run[r].id \in Ids /\ c \in Connectors
    BY <1>3 DEF ReadKey, KeyInv, RunOK
  <2>2. ASSUME meta[c] # 0
        PROVE  RunOK(x)
    <3>1. c \in ever /\ secret[c] \in Nat /\ secret[c] <= edits /\ secret[c] <= meta[c]
      BY <2>1, <2>2 DEF KeyInv, StoreInv, Numbers
    <3>2. x.pc = "endpoint" /\ x.c = c /\ x.key = secret[c] /\ x.id = run[r].id
      BY DEF Following
    <3> QED BY <2>1, <3>1, <3>2 DEF RunOK
  <2>3. Gets(r, IF meta[c] # 0 /\ secret[c] # 0 THEN x ELSE NoRun)
    BY <1>3 DEF ReadKey
  <2> QED BY <2>2, <2>3, NoRunOK, RunStep DEF Gets
<1>4. CASE ReadEndpoint(r)
  <2> DEFINE c == run[r].c
             x == [run[r] EXCEPT !.pc = Following("endpoint"), !.endpoint = meta[c]]
  <2>1. run[r].pc = "endpoint" /\ run[r].id \in Ids /\ (meta[c] # 0 => run[r].key <= meta[c])
    BY <1>4 DEF ReadEndpoint, KeyInv, RunOK
  <2>2. ASSUME meta[c] # 0
        PROVE  RunOK(x)
    <3>1. x.pc = "ready" /\ x.endpoint = meta[c] /\ x.key = run[r].key /\ x.id = run[r].id
      BY DEF Following
    <3> QED BY <2>1, <2>2, <3>1 DEF RunOK
  <2>3. Gets(r, IF meta[c] # 0 THEN x ELSE NoRun)
    BY <1>4 DEF ReadEndpoint
  <2> QED BY <2>2, <2>3, NoRunOK, RunStep DEF Gets
<1> QED BY <1>1, <1>2, <1>3, <1>4

LEMMA PrefsStart == SettingsInit => PrefsInv
BY DEF SettingsInit, PrefsInv, Defaults, Done

\* A clerk takes one step and no preference is stored.
LEMMA PrefsQuiet ==
  ASSUME PrefsInv, prefs' = prefs, DOMAIN clerk' = Clerks,
         \A k \in Clerks : clerk'[k].pc = "prefer" => clerk'[k] = clerk[k]
  PROVE  PrefsInv'
BY DEF PrefsInv

LEMMA PrefsStep ==
  ASSUME PrefsInv, [Next]_vars
  PROVE  PrefsInv'
<1>1. CASE UNCHANGED vars
  BY <1>1 DEF vars, settings, PrefsInv
<1>2. CASE UNCHANGED settings
  BY <1>2 DEF settings, PrefsInv
<1>3. CASE SettingsCrash
  BY <1>3, PrefsQuiet DEF SettingsCrash, Done, PrefsInv
<1>4. ASSUME NEW k \in Clerks, Clerk(k)
      PROVE  PrefsInv'
  <2>1. CASE KeepSecret(k) \/ WriteSecret(k) \/ Unlink(k)
    <3>1. prefs' = prefs /\ (clerk' = [clerk EXCEPT ![k] = Done] \/ clerk' = [clerk EXCEPT ![k].pc = "clear"])
      BY <2>1 DEF KeepSecret, WriteSecret, Unlink
    <3>2. DOMAIN clerk' = Clerks
      BY <3>1 DEF PrefsInv
    <3>3. \A l \in Clerks : clerk'[l].pc = "prefer" => clerk'[l] = clerk[l]
      <4>1. CASE clerk' = [clerk EXCEPT ![k] = Done]
        BY <4>1 DEF PrefsInv, Done
      <4>2. CASE clerk' = [clerk EXCEPT ![k].pc = "clear"]
        BY <4>2 DEF PrefsInv
      <4> QED BY <3>1, <4>1, <4>2
    <3> QED BY <3>1, <3>2, <3>3, PrefsQuiet
  <2>2. CASE ClearDefaults(k)
    <3>1. /\ clerk' = [clerk EXCEPT ![k] = Done]
          /\ prefs' = [id \in Ids |-> IF prefs[id] = clerk[k].c THEN NoConnector ELSE prefs[id]]
      BY <2>2 DEF ClearDefaults
    <3>5. prefs \in [Ids -> Defaults] /\ NoConnector \in Defaults
      BY DEF PrefsInv, Defaults
    <3>2. prefs' \in [Ids -> Defaults]
      BY <3>1, <3>5
    <3>3. DOMAIN clerk' = Clerks
      BY <3>1 DEF PrefsInv
    <3>4. \A l \in Clerks : clerk'[l].pc = "prefer" => clerk'[l] = clerk[l]
      BY <3>1 DEF PrefsInv, Done
    <3> QED BY <3>2, <3>3, <3>4 DEF PrefsInv
  <2>3. CASE StorePreference(k)
    <3>1. clerk' = [clerk EXCEPT ![k] = Done] /\ prefs' = [prefs EXCEPT ![clerk[k].id] = clerk[k].c]
      BY <2>3 DEF StorePreference
    <3>2. clerk[k].id \in Ids /\ clerk[k].c \in Defaults
      BY <2>3 DEF StorePreference, PrefsInv
    <3>3. prefs' \in [Ids -> Defaults]
      BY <3>1, <3>2 DEF PrefsInv
    <3>4. DOMAIN clerk' = Clerks
      BY <3>1 DEF PrefsInv
    <3>5. \A l \in Clerks : clerk'[l].pc = "prefer" => clerk'[l] = clerk[l]
      BY <3>1 DEF PrefsInv, Done
    <3> QED BY <3>3, <3>4, <3>5 DEF PrefsInv
  <2> QED BY <1>4, <2>1, <2>2, <2>3 DEF Clerk
<1>5. ASSUME NEW k \in Clerks, NEW c \in Connectors,
             CreateConnector(k, c) \/ ReplaceConnector(k, c) \/ RemoveConnector(k, c)
      PROVE  PrefsInv'
  BY <1>5, PrefsQuiet DEF CreateConnector, ReplaceConnector, RemoveConnector, Begin, Done, PrefsInv
<1>6. ASSUME NEW k \in Clerks, NEW id \in Ids, NEW c \in Defaults, Prefer(k, id, c)
      PROVE  PrefsInv'
  <2>1. /\ clerk' = [clerk EXCEPT ![k] = [Done EXCEPT !.pc = "prefer", !.c = c, !.id = id]]
        /\ prefs' = prefs
    BY <1>6 DEF Prefer
  <2>2. ASSUME NEW l \in Clerks, clerk'[l].pc = "prefer"
        PROVE  clerk'[l].id \in Ids /\ clerk'[l].c \in Defaults
    <3>1. CASE l = k
      BY <2>1, <3>1 DEF PrefsInv, Done
    <3>2. CASE l # k
      BY <2>1, <2>2, <3>2 DEF PrefsInv
    <3> QED BY <3>1, <3>2
  <2> QED BY <2>1, <2>2 DEF PrefsInv
<1>7. ASSUME NEW r \in Runners, (\E id \in Ids : Admit(r, id)) \/ Select(r) \/ ReadKey(r) \/ ReadEndpoint(r)
      PROVE  PrefsInv'
  <2>1. prefs' = prefs /\ clerk' = clerk
    BY <1>7 DEF Admit, Select, ReadKey, ReadEndpoint, Gets
  <2> QED BY <2>1 DEF PrefsInv
<1> QED BY <1>1, <1>2, <1>3, <1>4, <1>5, <1>6, <1>7 DEF Next, Defaults

LEMMA KeyStep ==
  ASSUME KeyInv, PrefsInv, [Next]_vars
  PROVE  KeyInv'
<1>1. CASE UNCHANGED settings
  BY <1>1, KeyQuiet DEF settings, KeyInv
<1>2. CASE SettingsCrash
  <2>1. /\ clerk' = [k \in Clerks |-> Done] /\ run' = [r \in Runners |-> NoRun]
        /\ UNCHANGED <<meta, secret, ever, edits>>
    BY <1>2 DEF SettingsCrash
  <2>2. ClerkInv' /\ DOMAIN clerk' = Clerks
    BY <2>1 DEF ClerkInv, Done
  <2>3. DOMAIN run' = Runners /\ \A r \in Runners : RunOK(run[r])'
    BY <2>1 DEF RunOK, NoRun
  <2> QED BY <2>1, <2>2, <2>3 DEF KeyInv, Numbers, StoreInv
<1>3. ASSUME NEW k \in Clerks, NEW id \in Ids, NEW c \in Connectors \cup {NoConnector}, Prefer(k, id, c)
      PROVE  KeyInv'
  BY <1>3, KeyQuiet DEF Prefer, KeyInv, Done, Edit
<1>4. CASE UNCHANGED vars
  BY <1>1, <1>4 DEF vars
<1> QED BY <1>1, <1>2, <1>3, <1>4, ClerkStep, EditStep, RunnerStep DEF Next

\* No run sends a key to an endpoint older than the one it was entered with
\* (ConnectorService.replace, ensure_coordinator).
THEOREM KeysFollowEndpoints == Spec => []NewKeyNeverGoesToOldEndpoint
<1>1. KeyInv => NewKeyNeverGoesToOldEndpoint
  BY DEF KeyInv, RunOK, NewKeyNeverGoesToOldEndpoint
<1>2. KeyInv /\ PrefsInv /\ [Next]_vars => (KeyInv /\ PrefsInv)'
  BY KeyStep, PrefsStep
<1> QED BY KeyStart, PrefsStart, <1>1, <1>2, PTL DEF Spec

-----------------------------------------------------------------------------
\* The catalog is the authority on which Sessions exist.

Record == [gen : Nat, name : Nat]
Points == {"idle", "mkdir", "register", "add", "check", "tree", "archive", "index", "reindex", "unlist", "forget",
           "rename", "touch", "replace", "exists", "write"}
JobType == [pc : Points, op : Ops \cup {"none"}, id : Ids \cup {NoId}, gen : Nat, seen : Record,
            rest : SUBSET Ids, late : BOOLEAN]

CatalogTypes ==
  /\ catalog \in [Ids -> Record] /\ registry \in [Ids -> Nat] /\ job \in [Jobs -> JobType]
  /\ clock \in Nat /\ index \subseteq Ids

\* The points at which a Session is registered and not listed.
Halfway == {"add", "forget"}

JobOK(x) ==
  /\ x.pc # "idle" => x.id \in Ids
  /\ x.pc = "add" => x.gen # 0
  /\ x.pc = "replace" => x.seen.gen # 0

Given == \A id \in Listed : catalog[id].gen # 0

\* A Session that is registered and not listed is one request's, and only its.
Agree ==
  /\ \A id \in Listed : registry[id] # 0
  /\ \A j \in Jobs : job[j].pc \in Halfway => job[j].id \notin Listed /\ registry[job[j].id] # 0
  /\ \A i, j \in Jobs : job[i].pc \in Halfway /\ job[j].pc \in Halfway /\ job[i].id = job[j].id => i = j
  /\ \A id \in Ids : registry[id] # 0 /\ id \notin Listed =>
       \E j \in Jobs : job[j].pc \in Halfway /\ job[j].id = id

CatalogInv ==
  /\ CatalogTypes /\ Given
  /\ \A j \in Jobs : JobOK(job[j])
  /\ up # "serving" => \A j \in Jobs : job[j].pc = "idle"
  /\ up = "serving" => Agree

LEMMA RecordFacts == Unlisted \in Record /\ Idle \in JobType /\ Idle.pc = "idle" /\ JobOK(Idle)
<1>1. Unlisted \in Record
  BY DEF Unlisted, Record
<1>2. Idle \in JobType /\ Idle.pc = "idle"
  BY <1>1 DEF Idle, JobType, Points
<1> QED BY <1>1, <1>2 DEF JobOK

LEMMA CatalogStart == SettingsInit => CatalogInv
<1> SUFFICES ASSUME SettingsInit PROVE CatalogInv
  OBVIOUS
<1> USE DEF SettingsInit, Init
<1>1. CatalogTypes
  BY RecordFacts DEF CatalogTypes
<1>2. Listed = {}
  BY DEF Listed
<1>3. \A j \in Jobs : JobOK(job[j]) /\ job[j].pc = "idle"
  BY RecordFacts
<1> QED BY <1>1, <1>2, <1>3 DEF CatalogInv, Given

\* The thread j comes to x; of the others only "late" can change.
Moves(j, x) ==
  /\ job' \in [Jobs -> JobType] /\ job'[j] = x
  /\ \A i \in Jobs \ {j} : /\ job'[i].pc = job[i].pc /\ job'[i].id = job[i].id
                           /\ job'[i].gen = job[i].gen /\ job'[i].seen = job[i].seen

LEMMA MovesAlone ==
  ASSUME CatalogTypes, NEW j \in Jobs, NEW x \in JobType, job' = [job EXCEPT ![j] = x]
  PROVE  Moves(j, x)
BY DEF CatalogTypes, Moves

LEMMA MovesTo ==
  ASSUME CatalogTypes, NEW j \in Jobs, NEW p \in Points, To(j, p)
  PROVE  LET x == [job[j] EXCEPT !.pc = p]
         IN  /\ Moves(j, x) /\ x \in JobType /\ x.pc = p
             /\ x.id = job[j].id /\ x.gen = job[j].gen /\ x.seen = job[j].seen
<1> DEFINE x == [job[j] EXCEPT !.pc = p]
<1>1. job[j] \in JobType
  BY DEF CatalogTypes
<1>2. /\ x \in JobType /\ x.pc = p
      /\ x.id = job[j].id /\ x.gen = job[j].gen /\ x.seen = job[j].seen
  BY <1>1 DEF JobType
<1>3. job' = [job EXCEPT ![j] = x]
  BY DEF To
<1> HIDE DEF x
<1>4. Moves(j, x)
  BY <1>2, <1>3, MovesAlone
<1> QED BY <1>2, <1>4 DEF x

LEMMA MovesEnd ==
  ASSUME CatalogTypes, NEW j \in Jobs, End(j)
  PROVE  Moves(j, Idle)
BY RecordFacts, MovesAlone DEF End

LEMMA MovesLate ==
  ASSUME CatalogTypes, NEW j \in Jobs, NEW id, NEW x \in JobType, Late(j, id, x)
  PROVE  Moves(j, x)
<1> DEFINE others(i) == [job[i] EXCEPT !.late = @ \/ (job[i].id = id /\ job[i].pc = "write")]
<1>1. ASSUME NEW i \in Jobs
      PROVE  /\ others(i) \in JobType /\ others(i).pc = job[i].pc /\ others(i).id = job[i].id
             /\ others(i).gen = job[i].gen /\ others(i).seen = job[i].seen
  <2>1. job[i] \in JobType
    BY DEF CatalogTypes
  <2>2. (job[i].late \/ (job[i].id = id /\ job[i].pc = "write")) \in BOOLEAN
    OBVIOUS
  <2> QED BY <2>1, <2>2 DEF JobType
<1>2. job' = [i \in Jobs |-> IF i = j THEN x ELSE others(i)]
  BY DEF Late
<1> HIDE DEF others
<1> QED BY <1>1, <1>2 DEF Moves

-----------------------------------------------------------------------------
\* A request moves between points at which memory and disk agree about its id.
LEMMA CatalogQuiet ==
  ASSUME CatalogInv, up = "serving", up' = up, NEW j \in Jobs, NEW x, Moves(j, x), JobOK(x),
         job[j].pc \notin Halfway, x.pc \notin Halfway, registry' = registry,
         catalog' \in [Ids -> Record], Listed' = Listed, Given', clock' \in Nat, index' \subseteq Ids
  PROVE  CatalogInv'
<1>1. CatalogTypes'
  BY DEF CatalogInv, CatalogTypes, Moves
<1>2. \A i \in Jobs : JobOK(job'[i])
  BY DEF CatalogInv, Moves, JobOK
<1>3. \A i \in Jobs : JobOK(job[i])'
  BY <1>2 DEF JobOK
<1>4. \A i \in Jobs : job'[i].pc \in Halfway => i # j /\ job[i].pc \in Halfway /\ job'[i].id = job[i].id
  BY DEF Moves
<1>5. \A i \in Jobs : job[i].pc \in Halfway => job'[i].pc \in Halfway /\ job'[i].id = job[i].id
  BY DEF Moves
<1>6. Agree
  BY DEF CatalogInv
<1>7. Agree'
  BY <1>4, <1>5, <1>6 DEF Agree
<1> QED BY <1>1, <1>3, <1>7 DEF CatalogInv

\* A request registers its new Session, or finds the id taken.
LEMMA RegisterStep ==
  ASSUME CatalogInv, NEW j \in Jobs, Register(j)
  PROVE  CatalogInv'
<1> DEFINE id == job[j].id
<1> DEFINE x == [job[j] EXCEPT !.pc = "add", !.gen = clock + 1]
<1>1. /\ up = "serving" /\ job[j].pc = "register" /\ UNCHANGED <<up, catalog, index>>
      /\ IF registry[id] # 0 THEN End(j) /\ UNCHANGED <<registry, clock>>
         ELSE /\ clock' = clock + 1 /\ job' = [job EXCEPT ![j] = x]
              /\ registry' = [registry EXCEPT ![id] = clock + 1]
  BY DEF Register, At
<1>2. CatalogTypes /\ Agree /\ Given /\ JobOK(job[j]) /\ job[j] \in JobType
  BY <1>1 DEF CatalogInv, CatalogTypes
<1>3. id \in Ids /\ clock + 1 \in Nat \ {0}
  BY <1>1, <1>2 DEF JobOK, CatalogTypes
<1>4. Listed' = Listed /\ Given' /\ catalog' \in [Ids -> Record] /\ clock' \in Nat /\ index' \subseteq Ids
  BY <1>1, <1>2 DEF Listed, Given, CatalogTypes
<1>5. CASE registry[id] # 0
  <2>1. Moves(j, Idle)
    BY <1>1, <1>2, <1>5, MovesEnd
  <2> QED BY <1>1, <1>4, <1>5, <2>1, RecordFacts, CatalogQuiet DEF Halfway
<1>6. CASE registry[id] = 0
  <2>0. x \in JobType /\ x.pc = "add" /\ x.id = id /\ x.gen = clock + 1 /\ x.seen = job[j].seen
    BY <1>2, <1>3 DEF JobType, Points
  <2>1. Moves(j, x) /\ x \in JobType /\ x.pc = "add" /\ x.id = id /\ x.gen = clock + 1 /\ x.seen = job[j].seen
    <3> HIDE DEF x
    <3> QED BY <1>1, <1>2, <1>6, <2>0, MovesAlone
  <2> HIDE DEF x
  <2>2. registry' \in [Ids -> Nat] /\ registry'[id] # 0 /\ \A i \in Ids \ {id} : registry'[i] = registry[i]
    BY <1>1, <1>2, <1>3, <1>6 DEF CatalogTypes
  <2>3. id \notin Listed /\ \A i \in Jobs : job[i].pc \in Halfway => job[i].id # id
    BY <1>2, <1>6 DEF Agree
  <2>4. \A i \in Jobs : job'[i].pc \in Halfway => i = j \/ (job[i].pc \in Halfway /\ job'[i].id = job[i].id)
    BY <2>1 DEF Moves
  <2>5. \A i \in Jobs : job[i].pc \in Halfway => job'[i].pc \in Halfway /\ job'[i].id = job[i].id
    BY <1>1, <2>1 DEF Moves, Halfway
  <2>6. job'[j].pc \in Halfway /\ job'[j].id = id
    BY <2>1 DEF Moves, Halfway
  <2>7. /\ \A i \in Listed' : registry'[i] # 0
        /\ \A i \in Jobs : job'[i].pc \in Halfway => job'[i].id \notin Listed' /\ registry'[job'[i].id] # 0
    <3>1. \A i \in Listed : i \in Ids
      BY DEF Listed
    <3>2. \A i \in Jobs : job[i].pc \in Halfway => job[i].id \in Ids
      BY DEF CatalogInv, JobOK, Halfway
    <3> QED BY <1>2, <1>4, <2>2, <2>3, <2>4, <2>6, <3>1, <3>2 DEF Agree
  <2>8. \A i, k \in Jobs : job'[i].pc \in Halfway /\ job'[k].pc \in Halfway /\ job'[i].id = job'[k].id => i = k
    BY <1>2, <2>3, <2>4, <2>6 DEF Agree
  <2>9. \A i \in Ids : registry'[i] # 0 /\ i \notin Listed' => \E k \in Jobs : job'[k].pc \in Halfway /\ job'[k].id = i
    <3> SUFFICES ASSUME NEW i \in Ids, registry'[i] # 0, i \notin Listed'
                 PROVE  \E k \in Jobs : job'[k].pc \in Halfway /\ job'[k].id = i
      OBVIOUS
    <3>1. CASE i = id
      BY <2>6, <3>1
    <3>2. CASE i # id
      BY <1>2, <1>4, <2>2, <2>5, <3>2 DEF Agree
    <3> QED BY <3>1, <3>2
  <2>10. Agree'
    BY <2>7, <2>8, <2>9 DEF Agree
  <2>11. \A i \in Jobs : JobOK(job'[i])
    BY <1>3, <2>1 DEF CatalogInv, Moves, JobOK
  <2>12. \A i \in Jobs : JobOK(job[i])'
    BY <2>11 DEF JobOK
  <2>13. CatalogTypes'
    BY <1>4, <2>1, <2>2 DEF CatalogTypes, Moves
  <2> QED BY <1>1, <1>4, <2>10, <2>12, <2>13 DEF CatalogInv
<1> QED BY <1>5, <1>6

\* A request takes its Session from halfway to listed in both or in none.
LEMMA Settles ==
  ASSUME CatalogInv, up = "serving", up' = up, NEW j \in Jobs, job[j].pc \in Halfway,
         NEW x, Moves(j, x), JobOK(x), x.pc \notin Halfway,
         CatalogTypes', Given', NEW id, id = job[j].id,
         \A i \in Ids \ {id} : registry'[i] = registry[i] /\ (i \in Listed' <=> i \in Listed),
         registry'[id] # 0 <=> id \in Listed'
  PROVE  CatalogInv'
<1>1. Agree
  BY DEF CatalogInv
<1>2. \A i \in Jobs : JobOK(job'[i])
  BY DEF CatalogInv, Moves, JobOK
<1>3. \A i \in Jobs : JobOK(job[i])'
  BY <1>2 DEF JobOK
<1>4. \A i \in Jobs : job[i].pc \in Halfway => job[i].id \in Ids
  BY DEF CatalogInv, JobOK, Halfway
<1>5. \A i \in Jobs : job'[i].pc \in Halfway => i # j /\ job[i].pc \in Halfway /\ job'[i].id = job[i].id
  BY DEF Moves
<1>6. \A i \in Jobs : job'[i].pc \in Halfway => job'[i].id \in Ids \ {id}
  BY <1>1, <1>4, <1>5 DEF Agree
<1>7. /\ \A i \in Listed' : registry'[i] # 0
      /\ \A i \in Jobs : job'[i].pc \in Halfway => job'[i].id \notin Listed' /\ registry'[job'[i].id] # 0
  <2>1. \A i \in Listed' : i \in Ids
    BY DEF Listed
  <2> QED BY <1>1, <1>5, <1>6, <2>1 DEF Agree
<1>8. \A i, k \in Jobs : job'[i].pc \in Halfway /\ job'[k].pc \in Halfway /\ job'[i].id = job'[k].id => i = k
  BY <1>1, <1>5 DEF Agree
<1>9. \A i \in Ids : registry'[i] # 0 /\ i \notin Listed' => \E k \in Jobs : job'[k].pc \in Halfway /\ job'[k].id = i
  <2> SUFFICES ASSUME NEW i \in Ids, registry'[i] # 0, i \notin Listed'
               PROVE  \E k \in Jobs : job'[k].pc \in Halfway /\ job'[k].id = i
    OBVIOUS
  <2>1. i # id
    OBVIOUS
  <2>2. PICK k \in Jobs : job[k].pc \in Halfway /\ job[k].id = i
    BY <1>1, <2>1 DEF Agree
  <2>3. job'[k].pc \in Halfway /\ job'[k].id = i
    BY <2>1, <2>2 DEF Moves
  <2> QED BY <2>3
<1>10. Agree'
  BY <1>7, <1>8, <1>9 DEF Agree
<1> QED BY <1>3, <1>10 DEF CatalogInv

LEMMA SettleStep ==
  ASSUME CatalogInv, NEW j \in Jobs, Add(j) \/ AddFails(j) \/ Forget(j)
  PROVE  CatalogInv'
<1> DEFINE id == job[j].id
<1>1. up = "serving" /\ job[j].pc \in Halfway /\ UNCHANGED <<up, clock, index>>
  BY DEF Add, AddFails, Forget, At, Halfway
<1>2. CatalogTypes /\ Agree /\ Given /\ JobOK(job[j]) /\ job[j] \in JobType
  BY <1>1 DEF CatalogInv, CatalogTypes
<1>3. id \in Ids /\ id \notin Listed /\ registry[id] # 0
  BY <1>1, <1>2 DEF JobOK, Agree, Halfway
<1>4. ASSUME Moves(j, Idle), registry' \in [Ids -> Nat], catalog' \in [Ids -> Record], Given',
             \A i \in Ids \ {id} : registry'[i] = registry[i] /\ (i \in Listed' <=> i \in Listed),
             registry'[id] # 0 <=> id \in Listed'
      PROVE  CatalogInv'
  <2>1. CatalogTypes'
    BY <1>1, <1>2, <1>4 DEF CatalogTypes, Moves
  <2>2. Idle.pc \notin Halfway
    BY RecordFacts DEF Halfway
  <2> QED BY <1>1, <1>4, <2>1, <2>2, RecordFacts, Settles
<1>5. CASE Add(j)
  <2> DEFINE r == [gen |-> job[j].gen, name |-> job[j].gen]
  <2>1. job[j].gen \in Nat \ {0}
    BY <1>2, <1>5 DEF Add, At, JobOK, JobType
  <2>2. r \in Record /\ r # Unlisted /\ r.gen # 0
    BY <2>1 DEF Record, Unlisted
  <2>3. catalog' = [catalog EXCEPT ![id] = r] /\ registry' = registry /\ End(j)
    BY <1>5 DEF Add, Save
  <2> HIDE DEF r
  <2>4. catalog' \in [Ids -> Record] /\ catalog'[id] = r /\ \A i \in Ids \ {id} : catalog'[i] = catalog[i]
    BY <1>2, <1>3, <2>2, <2>3 DEF CatalogTypes
  <2>5. Given'
    BY <1>2, <2>2, <2>4 DEF Given, Listed
  <2>6. id \in Listed' /\ \A i \in Ids \ {id} : i \in Listed' <=> i \in Listed
    BY <1>3, <2>2, <2>4 DEF Listed, Unlisted
  <2>7. registry' \in [Ids -> Nat]
    BY <1>2, <2>3 DEF CatalogTypes
  <2> QED BY <1>2, <1>3, <1>4, <2>3, <2>4, <2>5, <2>6, <2>7, MovesEnd
<1>6. CASE AddFails(j) \/ Forget(j)
  <2>1. registry' = [registry EXCEPT ![id] = 0] /\ catalog' = catalog
    BY <1>6 DEF AddFails, Forget
  <2>2. Moves(j, Idle)
    <3>1. CASE AddFails(j)
      BY <1>2, <3>1, RecordFacts, MovesLate DEF AddFails
    <3>2. CASE Forget(j)
      <4>1. job[j].pc = "forget"
        BY <3>2 DEF Forget, At
      <4>2. After("forget") = "idle"
        BY DEF After
      <4>3. End(j)
        BY <3>2, <4>1, <4>2 DEF Forget, Goes
      <4> QED BY <1>2, <4>3, MovesEnd
    <3> QED BY <1>6, <3>1, <3>2
  <2>3. 0 \in Nat /\ registry \in [Ids -> Nat]
    BY <1>2 DEF CatalogTypes
  <2>4. registry' \in [Ids -> Nat] /\ registry'[id] = 0 /\ \A i \in Ids \ {id} : registry'[i] = registry[i]
    BY <1>3, <2>1, <2>3
  <2>5. Listed' = Listed /\ Given' /\ catalog' \in [Ids -> Record]
    BY <1>2, <2>1 DEF Listed, Given, CatalogTypes
  <2> QED BY <1>3, <1>4, <2>2, <2>4, <2>5
<1> QED BY <1>5, <1>6

\* A deletion takes its Session from the catalog.
LEMMA UnlistStep ==
  ASSUME CatalogInv, NEW j \in Jobs, Unlist(j)
  PROVE  CatalogInv'
<1> DEFINE id == job[j].id
           x == [job[j] EXCEPT !.pc = "forget"]
<1>1. /\ up = "serving" /\ job[j].pc = "unlist" /\ UNCHANGED <<up, registry, clock, index>>
      /\ IF id \notin Listed THEN End(j) /\ UNCHANGED catalog
         ELSE To(j, "forget") /\ catalog' = [catalog EXCEPT ![id] = Unlisted]
  BY DEF Unlist, At, Goes, After, Save
<1>2. CatalogTypes /\ Agree /\ Given /\ JobOK(job[j])
  BY <1>1 DEF CatalogInv
<1>3. registry' \in [Ids -> Nat] /\ clock' \in Nat /\ index' \subseteq Ids
  BY <1>1, <1>2 DEF CatalogTypes
<1>4. CASE id \notin Listed
  <2>1. Moves(j, Idle)
    BY <1>1, <1>2, <1>4, MovesEnd
  <2>2. catalog' \in [Ids -> Record] /\ Listed' = Listed /\ Given'
    BY <1>1, <1>2, <1>4 DEF CatalogTypes, Listed, Given
  <2> QED BY <1>1, <1>3, <2>1, <2>2, RecordFacts, CatalogQuiet DEF Halfway
<1>5. CASE id \in Listed
  <2>1. /\ Moves(j, x) /\ x \in JobType /\ x.pc = "forget" /\ x.id = id
        /\ x.gen = job[j].gen /\ x.seen = job[j].seen
    BY <1>1, <1>2, <1>5, MovesTo DEF Points
  <2> HIDE DEF x
  <2>2. id \in Ids /\ registry[id] # 0 /\ \A i \in Jobs : job[i].pc \in Halfway => job[i].id # id
    BY <1>2, <1>5 DEF Agree, Listed
  <2>3. /\ catalog' \in [Ids -> Record] /\ catalog'[id] = Unlisted
        /\ \A i \in Ids \ {id} : catalog'[i] = catalog[i]
    BY <1>1, <1>2, <1>5, <2>2, RecordFacts DEF CatalogTypes
  <2>4. Listed' = Listed \ {id}
    BY <2>3 DEF Listed
  <2>5. Given'
    BY <1>2, <2>3, <2>4 DEF Given, Listed
  <2>6. \A i \in Jobs : job'[i].pc \in Halfway => i = j \/ (job[i].pc \in Halfway /\ job'[i].id = job[i].id)
    BY <2>1 DEF Moves
  <2>7. \A i \in Jobs : job[i].pc \in Halfway => job'[i].pc \in Halfway /\ job'[i].id = job[i].id
    BY <1>1, <2>1 DEF Moves, Halfway
  <2>8. job'[j].pc \in Halfway /\ job'[j].id = id
    BY <2>1 DEF Moves, Halfway
  <2>9. /\ \A i \in Listed' : registry'[i] # 0
        /\ \A i \in Jobs : job'[i].pc \in Halfway => job'[i].id \notin Listed' /\ registry'[job'[i].id] # 0
    BY <1>1, <1>2, <2>2, <2>4, <2>6, <2>8 DEF Agree
  <2>10. \A i, k \in Jobs : job'[i].pc \in Halfway /\ job'[k].pc \in Halfway /\ job'[i].id = job'[k].id => i = k
    BY <1>2, <2>2, <2>6, <2>8 DEF Agree
  <2>11. \A i \in Ids : registry'[i] # 0 /\ i \notin Listed' => \E k \in Jobs : job'[k].pc \in Halfway /\ job'[k].id = i
    <3> SUFFICES ASSUME NEW i \in Ids, registry'[i] # 0, i \notin Listed'
                 PROVE  \E k \in Jobs : job'[k].pc \in Halfway /\ job'[k].id = i
      OBVIOUS
    <3>1. CASE i = id
      BY <2>8, <3>1
    <3>2. CASE i # id
      BY <1>1, <1>2, <2>4, <2>7, <3>2 DEF Agree
    <3> QED BY <3>1, <3>2
  <2>12. Agree'
    BY <2>9, <2>10, <2>11 DEF Agree
  <2>13. \A i \in Jobs : JobOK(job'[i])
    BY <2>1, <2>2 DEF CatalogInv, Moves, JobOK
  <2>14. \A i \in Jobs : JobOK(job[i])'
    BY <2>13 DEF JobOK
  <2>15. CatalogTypes'
    BY <1>3, <2>1, <2>3 DEF CatalogTypes, Moves
  <2> QED BY <1>1, <2>5, <2>12, <2>14, <2>15 DEF CatalogInv
<1> QED BY <1>4, <1>5

\* A request at any other point leaves the two as they are.
LEMMA SameCatalog ==
  ASSUME CatalogInv, up = "serving", NEW j \in Jobs, NEW x, Moves(j, x), JobOK(x),
         job[j].pc \notin Halfway, x.pc \notin Halfway,
         UNCHANGED <<up, registry, catalog>>, clock' \in Nat, index' \subseteq Ids
  PROVE  CatalogInv'
<1>1. catalog' \in [Ids -> Record] /\ Listed' = Listed /\ Given'
  BY DEF CatalogInv, CatalogTypes, Listed, Given
<1> QED BY <1>1, CatalogQuiet

LEMMA EndStep ==
  ASSUME CatalogInv, NEW j \in Jobs, End(j), job[j].pc \notin Halfway, up = "serving",
         UNCHANGED <<up, registry, catalog, clock, index>>
  PROVE  CatalogInv'
<1>1. Moves(j, Idle) /\ clock' \in Nat /\ index' \subseteq Ids
  BY MovesEnd DEF CatalogInv, CatalogTypes
<1>2. Idle.pc \notin Halfway
  BY RecordFacts DEF Halfway
<1> QED BY <1>1, <1>2, RecordFacts, SameCatalog

LEMMA GoesOn ==
  ASSUME CatalogInv, NEW j \in Jobs, NEW p \in Points, To(j, p), p \notin Halfway,
         job[j].pc \notin Halfway, job[j].pc # "idle", p # "replace",
         up = "serving", UNCHANGED <<up, registry, catalog, clock, index>>
  PROVE  CatalogInv'
<1>1. CatalogTypes /\ JobOK(job[j]) /\ clock' \in Nat /\ index' \subseteq Ids
  BY DEF CatalogInv, CatalogTypes
<1> DEFINE x == [job[j] EXCEPT !.pc = p]
<1>2. /\ Moves(j, x) /\ x \in JobType /\ x.pc = p /\ x.id = job[j].id
      /\ x.gen = job[j].gen /\ x.seen = job[j].seen
  BY <1>1, MovesTo
<1> HIDE DEF x
<1>3. JobOK(x)
  BY <1>1, <1>2 DEF JobOK, Halfway
<1> QED BY <1>1, <1>2, <1>3, SameCatalog

LEMMA CreateStep ==
  ASSUME CatalogInv, NEW j \in Jobs, Create(j)
  PROVE  CatalogInv'
<1>1. CASE CreateDir(j)
  <2>1. /\ up = "serving" /\ job[j].pc = "mkdir" /\ To(j, "register")
        /\ UNCHANGED <<up, registry, catalog, clock, index>>
    BY <1>1 DEF CreateDir, At
  <2>2. "register" \in Points
    BY DEF Points
  <2> QED BY <2>1, <2>2, GoesOn DEF Halfway
<1> QED BY <1>1, RegisterStep, SettleStep DEF Create

LEMMA DeleteStep ==
  ASSUME CatalogInv, NEW j \in Jobs, Delete(j)
  PROVE  CatalogInv'
<1>1. CatalogTypes /\ JobOK(job[j]) /\ job[j] \in JobType
  BY DEF CatalogInv, CatalogTypes
<1>2. /\ After("check") = "tree" /\ After("tree") = "archive" /\ After("archive") = "index"
      /\ After("index") = "unlist"
  BY DEF After
<1>3. "tree" \in Points /\ "index" \in Points /\ "unlist" \in Points
  BY DEF Points
<1>4. CASE DeleteCheck(j)
  <2>1. /\ up = "serving" /\ job[j].pc = "check" /\ UNCHANGED <<up, registry, catalog, clock, index>>
        /\ To(j, "tree") \/ End(j)
    BY <1>2, <1>4 DEF DeleteCheck, At, Goes, To
  <2>2. CASE To(j, "tree")
    BY <1>3, <2>1, <2>2, GoesOn DEF Halfway
  <2>3. CASE End(j)
    BY <2>1, <2>3, EndStep DEF Halfway
  <2> QED BY <2>1, <2>2, <2>3
<1>5. CASE RemoveTree(j)
  <2> DEFINE x == [job[j] EXCEPT !.pc = "archive"]
  <2>1. /\ up = "serving" /\ job[j].pc = "tree" /\ UNCHANGED <<up, registry, catalog, clock, index>>
        /\ Late(j, job[j].id, x)
    BY <1>2, <1>5 DEF RemoveTree, At, Late
  <2>2. /\ x \in JobType /\ x.pc = "archive" /\ x.id = job[j].id
        /\ x.gen = job[j].gen /\ x.seen = job[j].seen
    BY <1>1 DEF JobType, Points
  <2> HIDE DEF x
  <2>3. Moves(j, x)
    BY <1>1, <2>1, <2>2, MovesLate
  <2>4. JobOK(x) /\ x.pc \notin Halfway /\ job[j].pc \notin Halfway
    BY <1>1, <2>1, <2>2 DEF JobOK, Halfway
  <2> QED BY <1>1, <2>1, <2>3, <2>4, SameCatalog DEF CatalogTypes
<1>6. CASE RemoveTreeFails(j)
  <2>1. /\ up = "serving" /\ job[j].pc = "tree" /\ UNCHANGED <<up, registry, catalog, clock, index>> /\ End(j)
    BY <1>6 DEF RemoveTreeFails, At
  <2> QED BY <2>1, EndStep DEF Halfway
<1>7. CASE RemoveArchive(j)
  <2>1. /\ up = "serving" /\ job[j].pc = "archive" /\ UNCHANGED <<up, registry, catalog, clock, index>>
        /\ To(j, "index")
    BY <1>2, <1>7 DEF RemoveArchive, At, Goes, To
  <2> QED BY <1>3, <2>1, GoesOn DEF Halfway
<1>8. CASE ReadIndex(j)
  <2> DEFINE left == index \ {job[j].id}
             x == [job[j] EXCEPT !.pc = "reindex", !.rest = left]
  <2>1. /\ up = "serving" /\ job[j].pc = "index" /\ UNCHANGED <<up, registry, catalog, clock, index>>
        /\ job' = [job EXCEPT ![j] = x] \/ To(j, "unlist")
    BY <1>2, <1>8 DEF ReadIndex, At, Goes, To
  <2>2. CASE To(j, "unlist")
    BY <1>3, <2>1, <2>2, GoesOn DEF Halfway
  <2>3. CASE job' = [job EXCEPT ![j] = x]
    <3>1. left \in SUBSET Ids
      BY <1>1 DEF CatalogTypes
    <3> HIDE DEF left
    <3>2. /\ x \in JobType /\ x.pc = "reindex" /\ x.id = job[j].id
          /\ x.gen = job[j].gen /\ x.seen = job[j].seen
      BY <1>1, <3>1 DEF JobType, Points
    <3> HIDE DEF x
    <3>3. Moves(j, x)
      BY <1>1, <2>3, <3>2, MovesAlone
    <3>4. JobOK(x) /\ x.pc \notin Halfway /\ job[j].pc \notin Halfway
      BY <1>1, <2>1, <3>2 DEF JobOK, Halfway
    <3> QED BY <1>1, <2>1, <3>3, <3>4, SameCatalog DEF CatalogTypes
  <2> QED BY <2>1, <2>2, <2>3
<1>9. CASE WriteIndex(j)
  <2> DEFINE x == [job[j] EXCEPT !.pc = "unlist", !.rest = {}]
  <2>1. /\ up = "serving" /\ job[j].pc = "reindex" /\ UNCHANGED <<up, registry, catalog, clock>>
        /\ index' = job[j].rest /\ job' = [job EXCEPT ![j] = x]
    BY <1>2, <1>9 DEF WriteIndex, At
  <2>2. /\ x \in JobType /\ x.pc = "unlist" /\ x.id = job[j].id
        /\ x.gen = job[j].gen /\ x.seen = job[j].seen /\ job[j].rest \subseteq Ids
    BY <1>1 DEF JobType, Points
  <2> HIDE DEF x
  <2>3. Moves(j, x)
    BY <1>1, <2>1, <2>2, MovesAlone
  <2>4. JobOK(x) /\ x.pc \notin Halfway /\ job[j].pc \notin Halfway
    BY <1>1, <2>1, <2>2 DEF JobOK, Halfway
  <2> QED BY <1>1, <2>1, <2>2, <2>3, <2>4, SameCatalog DEF CatalogTypes
<1>10. CASE Forget(j)
  BY <1>10, SettleStep
<1>11. CASE DeleteFails(j)
  <2>1. /\ up = "serving" /\ job[j].pc \in {"reindex", "unlist"} /\ End(j)
        /\ UNCHANGED <<up, registry, catalog, clock, index>>
    BY <1>11 DEF DeleteFails
  <2> QED BY <2>1, EndStep DEF Halfway
<1> QED BY <1>4, <1>5, <1>6, <1>7, <1>8, <1>9, <1>10, <1>11, UnlistStep DEF Delete

LEMMA AskStep ==
  ASSUME CatalogInv, NEW j \in Jobs, NEW op \in Ops, NEW id \in Ids, Ask(j, op, id)
  PROVE  CatalogInv'
<1> DEFINE x == [Idle EXCEPT !.pc = First(op), !.op = op, !.id = id, !.gen = clock']
<1>1. /\ up = "serving" /\ job[j].pc = "idle" /\ UNCHANGED <<up, registry, catalog, index>>
      /\ clock' = (IF op = "rename" THEN clock + 1 ELSE clock)
      /\ job' = [job EXCEPT ![j] = x]
  BY RecordFacts DEF Ask, Count
<1>2. CatalogTypes
  BY DEF CatalogInv
<1>3. clock' \in Nat /\ index' \subseteq Ids
  BY <1>1, <1>2 DEF CatalogTypes
<1>4. First(op) \in Points \ {"idle", "add", "forget", "replace"}
  BY DEF Ops, First, Points
<1>5. x \in JobType /\ x.pc = First(op) /\ x.id = id /\ x.gen = clock'
  BY <1>3, <1>4, RecordFacts DEF JobType
<1> HIDE DEF x
<1>6. JobOK(x) /\ x.pc \notin Halfway /\ job[j].pc \notin Halfway
  BY <1>1, <1>3, <1>4, <1>5 DEF JobOK, Halfway
<1>7. Moves(j, x)
  BY <1>1, <1>2, <1>5, MovesAlone
<1> QED BY <1>1, <1>3, <1>6, <1>7, SameCatalog

\* A request that writes the record of a listed Session.
LEMMA WriteStep ==
  ASSUME CatalogInv, up = "serving", NEW j \in Jobs, End(j), job[j].pc \notin Halfway,
         NEW r \in Record, r.gen # 0, NEW id \in Listed, catalog' = [catalog EXCEPT ![id] = r],
         UNCHANGED <<up, registry, clock, index>>
  PROVE  CatalogInv'
<1>1. CatalogTypes /\ Given /\ id \in Ids
  BY DEF CatalogInv, Listed
<1>2. /\ catalog' \in [Ids -> Record] /\ catalog'[id] = r
      /\ \A i \in Ids \ {id} : catalog'[i] = catalog[i]
  BY <1>1 DEF CatalogTypes
<1>3. r # Unlisted
  BY DEF Unlisted
<1>4. Listed' = Listed
  BY <1>2, <1>3 DEF Listed, Unlisted
<1>5. Given'
  BY <1>1, <1>2, <1>4 DEF Given, Listed
<1>6. Moves(j, Idle) /\ clock' \in Nat /\ index' \subseteq Ids
  BY <1>1, MovesEnd DEF CatalogTypes
<1>7. Idle.pc \notin Halfway
  BY RecordFacts DEF Halfway
<1> QED BY <1>2, <1>4, <1>5, <1>6, <1>7, RecordFacts, CatalogQuiet

LEMMA RequestStep ==
  ASSUME CatalogInv, NEW j \in Jobs,
         Rename(j) \/ TouchRead(j) \/ TouchReplace(j) \/ ProfileCheck(j) \/ ProfileWrite(j)
  PROVE  CatalogInv'
<1> DEFINE id == job[j].id
<1>1. /\ up = "serving" /\ UNCHANGED <<up, registry, clock, index>>
      /\ job[j].pc \in {"rename", "touch", "replace", "exists", "write"}
  BY DEF Rename, TouchRead, TouchReplace, ProfileCheck, ProfileWrite, At
<1>2. CatalogTypes /\ Given /\ JobOK(job[j]) /\ job[j] \in JobType
  BY DEF CatalogInv, CatalogTypes
<1>3. job[j].pc \notin Halfway /\ id \in Ids /\ clock' \in Nat /\ index' \subseteq Ids
  BY <1>1, <1>2 DEF Halfway, JobOK, CatalogTypes
<1>4. CASE Rename(j)
  <2>1. End(j) /\ IF id \in Listed THEN catalog' = [catalog EXCEPT ![id].name = job[j].gen] ELSE UNCHANGED catalog
    BY <1>4 DEF Rename, Save
  <2> DEFINE r == [catalog[id] EXCEPT !.name = job[j].gen]
  <2>2. CASE id \in Listed
    <3>1. catalog[id] \in Record /\ catalog[id].gen # 0 /\ job[j].gen \in Nat
      BY <1>2, <1>3, <2>2 DEF CatalogTypes, Given, JobType
    <3>2. r \in Record /\ r.gen # 0
      BY <3>1 DEF Record
    <3>3. catalog' = [catalog EXCEPT ![id] = r]
      BY <2>1, <2>2
    <3> HIDE DEF r
    <3> QED BY <1>1, <1>3, <2>1, <2>2, <3>2, <3>3, WriteStep
  <2>3. CASE id \notin Listed
    BY <1>1, <1>3, <2>1, <2>3, EndStep
  <2> QED BY <2>2, <2>3
<1>5. CASE TouchRead(j)
  <2> DEFINE x == [job[j] EXCEPT !.pc = "replace", !.seen = catalog[id]]
  <2>1. catalog' = catalog /\ ((id \in Listed /\ job' = [job EXCEPT ![j] = x]) \/ End(j))
    BY <1>5 DEF TouchRead
  <2>2. CASE id \in Listed /\ job' = [job EXCEPT ![j] = x] /\ catalog' = catalog
    <3>1. catalog[id] \in Record /\ catalog[id].gen # 0
      BY <1>2, <1>3, <2>2 DEF CatalogTypes, Given
    <3>2. x \in JobType /\ x.pc = "replace" /\ x.id = id /\ x.gen = job[j].gen /\ x.seen = catalog[id]
      BY <1>2, <3>1 DEF JobType, Points
    <3> HIDE DEF x
    <3>3. Moves(j, x) /\ JobOK(x) /\ x.pc \notin Halfway
      BY <1>2, <1>3, <2>2, <3>1, <3>2, MovesAlone DEF JobOK, Halfway
    <3> QED BY <1>1, <1>3, <2>2, <3>3, SameCatalog
  <2>3. CASE End(j) /\ catalog' = catalog
    BY <1>1, <1>3, <2>3, EndStep
  <2> QED BY <2>1, <2>2, <2>3
<1>6. CASE TouchReplace(j)
  <2>1. End(j) /\ IF id \in Listed THEN catalog' = [catalog EXCEPT ![id] = job[j].seen] ELSE UNCHANGED catalog
    BY <1>6 DEF TouchReplace, Save
  <2>2. job[j].seen \in Record /\ job[j].seen.gen # 0
    BY <1>2, <1>6 DEF TouchReplace, At, JobOK, JobType
  <2>3. CASE id \in Listed
    BY <1>1, <1>3, <2>1, <2>2, <2>3, WriteStep
  <2>4. CASE id \notin Listed
    BY <1>1, <1>3, <2>1, <2>4, EndStep
  <2> QED BY <2>3, <2>4
<1>7. CASE ProfileCheck(j)
  <2> DEFINE late == Passing(id)
             x == [job[j] EXCEPT !.pc = "write", !.gen = registry[id], !.late = late]
  <2>1. catalog' = catalog /\ (job' = [job EXCEPT ![j] = x] \/ End(j))
    BY <1>7 DEF ProfileCheck
  <2>2. CASE job' = [job EXCEPT ![j] = x]
    <3>1. late \in BOOLEAN
      BY DEF Passing
    <3> HIDE DEF late
    <3>2. registry[id] \in Nat
      BY <1>2, <1>3 DEF CatalogTypes
    <3>3. x \in JobType /\ x.pc = "write" /\ x.id = id
      BY <1>2, <3>1, <3>2 DEF JobType, Points
    <3> HIDE DEF x
    <3>4. Moves(j, x) /\ JobOK(x) /\ x.pc \notin Halfway
      BY <1>2, <1>3, <2>2, <3>3, MovesAlone DEF JobOK, Halfway
    <3> QED BY <1>1, <1>3, <2>1, <3>4, SameCatalog
  <2>3. CASE End(j)
    BY <1>1, <1>3, <2>1, <2>3, EndStep
  <2> QED BY <2>1, <2>2, <2>3
<1>8. CASE ProfileWrite(j)
  BY <1>1, <1>3, <1>8, EndStep DEF ProfileWrite
<1> QED BY <1>4, <1>5, <1>6, <1>7, <1>8

LEMMA HostStep ==
  ASSUME CatalogInv, Host \/ Crash
  PROVE  CatalogInv'
<1>1. CatalogTypes /\ Given
  BY DEF CatalogInv
<1>2. CASE Import
  <2> DEFINE new == [gen |-> clock + 1, name |-> 0]
  <2>1. /\ up = "import" /\ up' = "rehydrate" /\ UNCHANGED <<registry, job, index>>
        /\ \/ UNCHANGED <<catalog, clock>>
           \/ /\ catalog' = [id \in Ids |-> IF id \in index \ Listed THEN new ELSE catalog[id]]
              /\ clock' = clock + 1
    BY <1>2 DEF Import
  <2>2. new \in Record /\ new.gen # 0 /\ new # Unlisted
    BY <1>1 DEF CatalogTypes, Record, Unlisted
  <2> HIDE DEF new
  <2>3. CatalogTypes'
    BY <1>1, <2>1, <2>2 DEF CatalogTypes
  <2>4. Given'
    BY <1>1, <2>1, <2>2 DEF CatalogTypes, Given, Listed
  <2>5. \A j \in Jobs : job'[j].pc = "idle" /\ JobOK(job[j])'
    BY <2>1 DEF CatalogInv, JobOK
  <2> QED BY <2>1, <2>3, <2>4, <2>5 DEF CatalogInv
<1>3. CASE Rehydrate
  <2>1. /\ up = "rehydrate" /\ UNCHANGED <<catalog, job, clock, index>>
        /\ \/ up' = "serving" /\ registry' = [id \in Ids |-> catalog[id].gen]
           \/ up' = "down" /\ UNCHANGED registry
    BY <1>3 DEF Rehydrate
  <2>2. CatalogTypes' /\ Given' /\ Listed' = Listed
    <3>1. \A id \in Ids : catalog[id].gen \in Nat
      BY <1>1 DEF CatalogTypes, Record
    <3> QED BY <1>1, <2>1, <3>1 DEF CatalogTypes, Given, Listed
  <2>3. \A j \in Jobs : job'[j].pc = "idle" /\ JobOK(job[j])'
    BY <2>1 DEF CatalogInv, JobOK
  <2>4. ASSUME up' = "serving"
        PROVE  Agree'
    <3>1. \A id \in Ids : registry'[id] # 0 <=> id \in Listed'
      BY <1>1, <2>1, <2>2, <2>4 DEF Given, Listed, Unlisted
    <3>2. \A j \in Jobs : job'[j].pc \notin Halfway
      BY <2>3 DEF Halfway
    <3>3. \A id \in Listed' : id \in Ids
      BY DEF Listed
    <3> QED BY <3>1, <3>2, <3>3 DEF Agree
  <2> QED BY <2>2, <2>3, <2>4 DEF CatalogInv
<1>4. CASE Restart
  <2>1. up = "down" /\ up' = "import" /\ UNCHANGED <<registry, catalog, job, clock, index>>
    BY <1>4 DEF Restart
  <2>2. CatalogTypes' /\ Given' /\ \A j \in Jobs : job'[j].pc = "idle" /\ JobOK(job[j])'
    BY <2>1 DEF CatalogInv, CatalogTypes, Given, Listed, JobOK
  <2> QED BY <2>1, <2>2 DEF CatalogInv
<1>5. CASE Crash
  <2>1. /\ up' = "down" /\ registry' = [id \in Ids |-> 0] /\ job' = [j \in Jobs |-> Idle]
        /\ UNCHANGED <<catalog, clock, index>>
    BY <1>5 DEF Crash
  <2>2. CatalogTypes' /\ Given'
    BY <1>1, <2>1, RecordFacts DEF CatalogTypes, Given, Listed
  <2>3. \A j \in Jobs : job'[j].pc = "idle" /\ JobOK(job[j])'
    BY <2>1, RecordFacts DEF JobOK
  <2> QED BY <2>1, <2>2, <2>3 DEF CatalogInv
<1> QED BY <1>2, <1>3, <1>4, <1>5 DEF Host

\* Edits of connectors and runs leave the Sessions alone.
LEMMA CatalogStep ==
  ASSUME CatalogInv, [Next]_vars
  PROVE  CatalogInv'
<1>1. CASE UNCHANGED catalogued
  BY <1>1 DEF catalogued, CatalogInv, CatalogTypes, Given, Listed, Agree, JobOK
<1>2. CASE UNCHANGED vars
  BY <1>1, <1>2 DEF vars, sessions
<1>3. ASSUME NEW k \in Clerks, \/ Clerk(k)
                               \/ \E c \in Connectors : CreateConnector(k, c) \/ ReplaceConnector(k, c) \/ RemoveConnector(k, c)
                               \/ \E id \in Ids, c \in Connectors \cup {NoConnector} : Prefer(k, id, c)
      PROVE  CatalogInv'
  <2>1. UNCHANGED catalogued
    BY <1>3 DEF Clerk, KeepSecret, WriteSecret, Unlink, ClearDefaults, StorePreference, CreateConnector,
                ReplaceConnector, RemoveConnector, Prefer, sessions
  <2> QED BY <1>1, <2>1
<1>4. ASSUME NEW r \in Runners, (\E id \in Ids : Admit(r, id)) \/ Select(r) \/ ReadKey(r) \/ ReadEndpoint(r)
      PROVE  CatalogInv'
  <2>1. UNCHANGED catalogued
    BY <1>4 DEF Admit, Select, ReadKey, ReadEndpoint, Gets, sessions
  <2> QED BY <1>1, <2>1
<1>5. CASE SettingsCrash
  BY <1>5, HostStep DEF SettingsCrash
<1> QED BY <1>2, <1>3, <1>4, <1>5, HostStep, AskStep, CreateStep, DeleteStep, RequestStep DEF Next

\* Listed Sessions are registered, and registered ones listed when no request
\* is in flight (create, delete, AngelusCore.__init__).
THEOREM MemoryAndDiskAgree == Spec => []RegistryFollowsCatalog
<1>1. CatalogInv => RegistryFollowsCatalog
  <2> SUFFICES ASSUME CatalogInv, up = "serving"
               PROVE  /\ \A id \in Listed : registry[id] # 0
                      /\ (\A j \in Jobs : job[j] = Idle) => \A id \in Ids : registry[id] # 0 => id \in Listed
    BY DEF RegistryFollowsCatalog
  <2> QED BY RecordFacts DEF CatalogInv, Agree, Halfway
<1>2. CatalogInv /\ [Next]_vars => CatalogInv'
  BY CatalogStep
<1> QED BY CatalogStart, <1>1, <1>2, PTL DEF Spec

-----------------------------------------------------------------------------
\* A Session that was deleted is not listed again.

\* The old index is read once: a Session cannot go before that.
GoneInv ==
  /\ up \in {"rehydrate", "serving"} => imported
  /\ gone # {} => imported
  /\ gone \cap Listed = {}

LEMMA GoneStart == SettingsInit => GoneInv
BY DEF SettingsInit, Init, GoneInv, Listed

LEMMA GoneKept ==
  ASSUME GoneInv, UNCHANGED <<imported, gone>>, Listed' \subseteq Listed,
         up' = up \/ up' \in {"down", "import"} \/ (up = "rehydrate" /\ up' = "serving")
  PROVE  GoneInv'
BY DEF GoneInv

\* Steps of requests that do not write the catalog.
LEMMA GoneQuiet ==
  ASSUME GoneInv, UNCHANGED <<up, imported, catalog, gone>>
  PROVE  GoneInv'
BY DEF GoneInv, Listed

LEMMA GoneJob ==
  ASSUME GoneInv, CatalogInv, NEW j \in Jobs,
         \/ \E op \in Ops, id \in Ids : Ask(j, op, id)
         \/ Create(j) \/ Delete(j) \/ Rename(j) \/ TouchRead(j) \/ TouchReplace(j)
         \/ ProfileCheck(j) \/ ProfileWrite(j)
  PROVE  GoneInv'
<1> DEFINE id == job[j].id
<1>1. catalog \in [Ids -> Record]
  BY DEF CatalogInv, CatalogTypes
<1>2. CASE Add(j)
  <2>1. gone' = gone \ {id} /\ UNCHANGED <<up, imported>> /\ up = "serving"
    BY <1>2 DEF Add, Save, At
  <2>2. \A i \in Ids \ {id} : i \in Listed' => i \in Listed
    BY <1>1, <1>2 DEF Add, Save, Listed
  <2>3. \A i \in Listed' : i \in Ids
    BY DEF Listed
  <2> QED BY <2>1, <2>2, <2>3 DEF GoneInv
<1>3. CASE Unlist(j)
  <2>1. up = "serving" /\ UNCHANGED <<up, imported>>
    BY <1>3 DEF Unlist, Save, At
  <2>2. CASE UNCHANGED <<catalog, gone>>
    BY <2>1, <2>2, GoneQuiet
  <2>3. CASE id \in Listed /\ catalog' = [catalog EXCEPT ![id] = Unlisted] /\ gone' = gone \cup {id}
    <3>1. Listed' \subseteq Listed \ {id}
      BY <1>1, <2>3 DEF Listed
    <3> QED BY <2>1, <2>3, <3>1 DEF GoneInv
  <2> QED BY <1>3, <2>2, <2>3 DEF Unlist, Save
<1>4. CASE Rename(j) \/ TouchReplace(j)
  <2>1. UNCHANGED <<up, imported, gone>>
    BY <1>4 DEF Rename, TouchReplace, Save
  <2>2. Listed' \subseteq Listed
    <3>1. CASE id \in Listed /\ \E r : catalog' = [catalog EXCEPT ![id] = r]
      BY <1>1, <3>1 DEF Listed
    <3>2. CASE catalog' = catalog
      BY <3>2 DEF Listed
    <3>3. CASE Rename(j)
      <4> DEFINE r == [catalog[id] EXCEPT !.name = job[j].gen]
      <4>1. (catalog' = [catalog EXCEPT ![id] = r] /\ id \in Listed) \/ catalog' = catalog
        BY <3>3 DEF Rename, Save
      <4> HIDE DEF r
      <4> QED BY <3>1, <3>2, <4>1
    <3>4. CASE TouchReplace(j)
      BY <3>1, <3>2, <3>4 DEF TouchReplace, Save
    <3> QED BY <1>4, <3>3, <3>4
  <2> QED BY <2>1, <2>2, GoneKept
<1>5. CASE \E op \in Ops, i \in Ids : Ask(j, op, i)
  BY <1>5, GoneQuiet DEF Ask
<1>6. CASE TouchRead(j) \/ ProfileCheck(j) \/ ProfileWrite(j)
  BY <1>6, GoneQuiet DEF TouchRead, ProfileCheck, ProfileWrite
<1>7. CASE CreateDir(j) \/ Register(j) \/ AddFails(j)
  BY <1>7, GoneQuiet DEF CreateDir, Register, AddFails
<1>8. CASE DeleteCheck(j) \/ RemoveTree(j) \/ RemoveTreeFails(j) \/ RemoveArchive(j) \/ ReadIndex(j)
           \/ WriteIndex(j) \/ Forget(j) \/ DeleteFails(j)
  BY <1>8, GoneQuiet DEF DeleteCheck, RemoveTree, RemoveTreeFails, RemoveArchive, ReadIndex, WriteIndex, Forget, DeleteFails
<1> QED BY <1>2, <1>3, <1>4, <1>5, <1>6, <1>7, <1>8 DEF Create, Delete

LEMMA GoneStep ==
  ASSUME GoneInv, CatalogInv, [Next]_vars
  PROVE  GoneInv'
<1>1. CASE UNCHANGED catalogued
  BY <1>1, GoneQuiet DEF catalogued
<1>2. CASE UNCHANGED vars
  BY <1>1, <1>2 DEF vars, sessions
<1>3. CASE Import
  BY <1>3 DEF Import, GoneInv, Listed
<1>4. CASE Rehydrate \/ Restart \/ Crash
  <2>1. UNCHANGED <<imported, gone>> /\ Listed' = Listed
    BY <1>4 DEF Rehydrate, Restart, Crash, Listed
  <2> QED BY <1>4, <2>1, GoneKept DEF Rehydrate, Restart, Crash
<1>5. ASSUME NEW k \in Clerks, \/ Clerk(k)
                               \/ \E c \in Connectors : CreateConnector(k, c) \/ ReplaceConnector(k, c) \/ RemoveConnector(k, c)
                               \/ \E id \in Ids, c \in Connectors \cup {NoConnector} : Prefer(k, id, c)
      PROVE  GoneInv'
  <2>1. UNCHANGED catalogued
    BY <1>5 DEF Clerk, KeepSecret, WriteSecret, Unlink, ClearDefaults, StorePreference, CreateConnector,
                ReplaceConnector, RemoveConnector, Prefer, sessions
  <2> QED BY <1>1, <2>1
<1>6. ASSUME NEW r \in Runners, (\E id \in Ids : Admit(r, id)) \/ Select(r) \/ ReadKey(r) \/ ReadEndpoint(r)
      PROVE  GoneInv'
  <2>1. UNCHANGED catalogued
    BY <1>6 DEF Admit, Select, ReadKey, ReadEndpoint, Gets, sessions
  <2> QED BY <1>1, <2>1
<1> QED BY <1>2, <1>3, <1>4, <1>5, <1>6, GoneJob DEF Next, Host, SettingsCrash

\* A deleted Session comes back only when it is made again, whatever the index
\* of the old backend says (import_legacy_sessions, remove_legacy_session).
THEOREM DeletedSessionsStayAway == Spec => []DeletedStaysDeleted
<1>1. GoneInv => DeletedStaysDeleted
  BY DEF GoneInv, DeletedStaysDeleted
<1>2. CatalogInv /\ GoneInv /\ [Next]_vars => (CatalogInv /\ GoneInv)'
  BY CatalogStep, GoneStep
<1> QED BY CatalogStart, GoneStart, <1>1, <1>2, PTL DEF Spec

\* The catalog on disk is the authority on which Sessions exist.
THEOREM CatalogRules == Spec => []CatalogIsAuthority
<1>1. RegistryFollowsCatalog /\ DeletedStaysDeleted => CatalogIsAuthority
  BY DEF CatalogIsAuthority
<1> QED BY MemoryAndDiskAgree, DeletedSessionsStayAway, <1>1, PTL

-----------------------------------------------------------------------------
\* The files of a Session.

GoingPoints == {"archive", "index", "reindex", "unlist", "forget"}
OpOK(x) == x.pc \in {"check", "tree"} \cup GoingPoints => x.op = "delete"

FilesAll ==
  /\ files \in [Ids -> SUBSET Nat] /\ stray \subseteq Ids
  /\ \A j \in Jobs : OpOK(job[j])
  /\ GenerationInv /\ FilesInv

\* The thread j comes to x and touches the Session k and no other.
MoveOf(j, k, x) ==
  /\ up = "serving" /\ up' = up /\ job'[j] = x /\ k \in Ids
  /\ job[j].pc # "idle" => job[j].id = k
  /\ x.pc # "idle" => x.id = k
  /\ \A i \in Jobs \ {j} : /\ job'[i].pc = job[i].pc /\ job'[i].id = job[i].id /\ job'[i].op = job[i].op
                           /\ job'[i].gen = job[i].gen /\ job'[i].seen = job[i].seen
                           /\ ~job'[i].late => ~job[i].late
  /\ \A id \in Ids \ {k} : /\ registry'[id] = registry[id] /\ catalog'[id] = catalog[id]
                           /\ files'[id] = files[id] /\ (id \in stray' <=> id \in stray)

\* What the step must see to for the Session it touches.
Clean(k) ==
  /\ k \notin stray' /\ (k \notin Listed' \/ Going(k)') => files'[k] = {}
  /\ k \notin stray' => \A g \in files'[k] : g >= registry'[k] /\ g >= catalog'[k].gen
Waiting(k) ==
  /\ k \notin stray' => \A g \in files'[k], i \in Jobs : job'[i].pc = "replace" /\ job'[i].id = k => g >= job'[i].seen.gen
  /\ \A i \in Jobs : job'[i].pc = "write" /\ ~job'[i].late /\ job'[i].id = k =>
                       k \in Listed' /\ ~Going(k)' /\ job'[i].gen = registry'[k]
Numbered(k) ==
  /\ clock \in Nat /\ clock' \in Nat /\ clock <= clock'
  /\ registry'[k] <= clock' /\ catalog'[k].gen <= clock' /\ (k \in Listed' => catalog'[k].gen <= registry'[k])
  /\ \A i \in Jobs : job'[i].pc = "add" /\ job'[i].id = k => job'[i].gen = registry'[k]
  /\ \A i \in Jobs : job'[i].pc = "replace" /\ job'[i].id = k =>
                       job'[i].seen.gen <= clock' /\ (registry'[k] # 0 => job'[i].seen.gen <= registry'[k])

LEMMA ListedOthers ==
  ASSUME NEW j, NEW k, NEW x, MoveOf(j, k, x)
  PROVE  \A id \in Ids \ {k} : id \in Listed' <=> id \in Listed
BY DEF MoveOf, Listed

LEMMA GoingOthers ==
  ASSUME NEW j \in Jobs, NEW k, NEW x, MoveOf(j, k, x), NEW id \in Ids \ {k}
  PROVE  Going(id)' => Going(id)
<1> SUFFICES ASSUME Going(id)' PROVE Going(id)
  OBVIOUS
<1>1. PICK i \in Jobs : job'[i].op = "delete" /\ job'[i].id = id /\ job'[i].pc \in GoingPoints
  BY DEF Going, GoingPoints
<1>2. i # j
  BY <1>1 DEF MoveOf, GoingPoints
<1> QED BY <1>1, <1>2 DEF MoveOf, Going, GoingPoints

\* A step that sees to the Session it touches keeps the rest.
LEMMA FilesMove ==
  ASSUME CatalogInv, FilesAll, NEW j \in Jobs, NEW k, NEW x, MoveOf(j, k, x), OpOK(x),
         files' \in [Ids -> SUBSET Nat], stray' \subseteq Ids, Clean(k), Waiting(k), Numbered(k)
  PROVE  FilesAll'
<1>1. /\ \A id \in Ids \ {k} : id \in Listed' <=> id \in Listed
      /\ \A id \in Ids \ {k} : Going(id)' => Going(id)
  BY ListedOthers, GoingOthers
<1>2. \A i \in Jobs : OpOK(job[i])'
  BY DEF FilesAll, OpOK, MoveOf
<1>3. \A i \in Jobs : /\ job[i].pc # "idle" => job[i].id \in Ids
                      /\ job[i].seen.gen \in Nat
  BY DEF CatalogInv, CatalogTypes, JobOK, JobType, Record
<1>4. \A id \in Ids : registry[id] \in Nat /\ catalog[id].gen \in Nat
  BY DEF CatalogInv, CatalogTypes, Record
<1>5. \A id \in Listed : id \in Ids
  BY DEF Listed
<1>6. GenerationInv'
  <2>1. \A id \in Ids : registry'[id] <= clock' /\ catalog'[id].gen <= clock'
    BY <1>4 DEF FilesAll, GenerationInv, MoveOf, Numbered
  <2>2. \A id \in Listed' : catalog'[id].gen <= registry'[id]
    <3> SUFFICES ASSUME NEW id \in Listed' PROVE catalog'[id].gen <= registry'[id]
      OBVIOUS
    <3>1. id \in Ids
      BY DEF Listed
    <3> QED BY <1>1, <3>1 DEF FilesAll, GenerationInv, MoveOf, Numbered
  <2>3. \A i \in Jobs : job'[i].pc = "add" => job'[i].gen = registry'[job'[i].id]
    BY <1>3 DEF FilesAll, GenerationInv, MoveOf, Numbered
  <2>4. ASSUME NEW i \in Jobs, job'[i].pc = "replace"
        PROVE  job'[i].seen.gen <= clock' /\ (registry'[job'[i].id] # 0 => job'[i].seen.gen <= registry'[job'[i].id])
    <3>1. CASE job'[i].id = k
      BY <2>4, <3>1 DEF Numbered
    <3>2. CASE job'[i].id # k
      <4>1. i # j
        BY <2>4, <3>2 DEF MoveOf
      <4> QED BY <1>3, <1>4, <2>4, <3>2, <4>1 DEF FilesAll, GenerationInv, MoveOf, Numbered
    <3> QED BY <3>1, <3>2
  <2> QED BY <2>1, <2>2, <2>3, <2>4 DEF GenerationInv
<1>7. FilesInv'
  <2>1. \A id \in Ids \ stray' : id \notin Listed' \/ Going(id)' => files'[id] = {}
    BY <1>1 DEF FilesAll, FilesInv, MoveOf, Clean
  <2>2. ASSUME NEW id \in Ids \ stray', NEW g \in files'[id]
        PROVE  /\ g >= registry'[id] /\ g >= catalog'[id].gen
               /\ \A i \in Jobs : job'[i].pc = "replace" /\ job'[i].id = id => g >= job'[i].seen.gen
    <3>1. CASE id = k
      BY <2>2, <3>1 DEF Clean, Waiting
    <3>2. CASE id # k
      <4>1. id \in Ids \ stray /\ g \in files[id]
        BY <2>2, <3>2 DEF MoveOf
      <4>2. \A i \in Jobs : job'[i].pc = "replace" /\ job'[i].id = id => i # j
        BY <3>2 DEF MoveOf
      <4> QED BY <3>2, <4>1, <4>2 DEF FilesAll, FilesInv, MoveOf
    <3> QED BY <3>1, <3>2
  <2>3. ASSUME NEW i \in Jobs, job'[i].pc = "write", ~job'[i].late
        PROVE  (job[i].id \in Listed /\ ~Going(job[i].id) /\ job[i].gen = registry[job[i].id])'
    <3>1. CASE job'[i].id = k
      <4>1. k \in Listed' /\ ~Going(k)' /\ job'[i].gen = registry'[k]
        BY <2>3, <3>1 DEF Waiting
      <4>2. Going(job[i].id)' <=> Going(k)'
        BY <3>1 DEF Going
      <4> QED BY <3>1, <4>1, <4>2
    <3>2. CASE job'[i].id # k
      <4>1. i # j
        BY <2>3, <3>2 DEF MoveOf
      <4>2. /\ job[i].pc = "write" /\ ~job[i].late /\ job'[i].id = job[i].id /\ job'[i].gen = job[i].gen
            /\ job[i].id \in Ids \ {k}
        BY <1>3, <2>3, <3>2, <4>1 DEF MoveOf
      <4>3. job[i].id \in Listed /\ ~Going(job[i].id) /\ job[i].gen = registry[job[i].id]
        BY <4>2 DEF FilesAll, FilesInv
      <4>4. Going(job[i].id)' <=> (\E n \in Jobs : /\ job'[n].op = "delete" /\ job'[n].id = job[i].id
                                                   /\ job'[n].pc \in GoingPoints)
        BY <4>2 DEF Going, GoingPoints
      <4>5. ~Going(job[i].id)'
        <5>1. \A n \in Jobs : job'[n].op = "delete" /\ job'[n].id = job[i].id /\ job'[n].pc \in GoingPoints => n # j
          BY <4>2 DEF MoveOf, GoingPoints
        <5> QED BY <4>3, <4>4, <5>1 DEF MoveOf, Going, GoingPoints
      <4> QED BY <1>1, <4>2, <4>3, <4>5 DEF MoveOf
    <3> QED BY <3>1, <3>2
  <2> QED BY <2>1, <2>2, <2>3 DEF FilesInv
<1> QED BY <1>2, <1>6, <1>7 DEF FilesAll

\* What the invariants say of the Session a step touches.
LEMMA SessionFacts ==
  ASSUME CatalogInv, FilesAll, NEW k \in Ids
  PROVE  /\ registry[k] \in Nat /\ catalog[k].gen \in Nat /\ clock \in Nat /\ files[k] \subseteq Nat
         /\ registry[k] <= clock /\ catalog[k].gen <= clock
         /\ up = "serving" /\ k \in Listed => catalog[k].gen <= registry[k]
         /\ k \notin stray /\ (k \notin Listed \/ Going(k)) => files[k] = {}
         /\ k \notin stray => \A g \in files[k] : g >= registry[k] /\ g >= catalog[k].gen
<1>1. registry[k] \in Nat /\ catalog[k].gen \in Nat /\ clock \in Nat /\ files[k] \subseteq Nat
  BY DEF CatalogInv, CatalogTypes, Record, FilesAll
<1>2. /\ registry[k] <= clock /\ catalog[k].gen <= clock
      /\ up = "serving" /\ k \in Listed => catalog[k].gen <= registry[k]
  BY DEF FilesAll, GenerationInv
<1>3. /\ k \notin stray /\ (k \notin Listed \/ Going(k)) => files[k] = {}
      /\ k \notin stray => \A g \in files[k] : g >= registry[k] /\ g >= catalog[k].gen
  BY DEF FilesAll, FilesInv
<1> QED BY <1>1, <1>2, <1>3

LEMMA RequestFacts ==
  ASSUME CatalogInv, FilesAll, NEW i \in Jobs
  PROVE  /\ job[i].seen.gen \in Nat
         /\ job[i].pc # "idle" => job[i].id \in Ids
         /\ job[i].pc = "add" => job[i].gen = registry[job[i].id]
         /\ job[i].pc = "replace" =>
              job[i].seen.gen <= clock /\ (registry[job[i].id] # 0 => job[i].seen.gen <= registry[job[i].id])
         /\ job[i].pc = "replace" /\ job[i].id \notin stray => \A g \in files[job[i].id] : g >= job[i].seen.gen
         /\ job[i].pc = "write" /\ ~job[i].late =>
              job[i].id \in Listed /\ ~Going(job[i].id) /\ job[i].gen = registry[job[i].id]
<1>1. job[i].seen.gen \in Nat /\ (job[i].pc # "idle" => job[i].id \in Ids)
  BY DEF CatalogInv, CatalogTypes, JobOK, JobType, Record
<1>2. /\ job[i].pc = "add" => job[i].gen = registry[job[i].id]
      /\ job[i].pc = "replace" =>
           job[i].seen.gen <= clock /\ (registry[job[i].id] # 0 => job[i].seen.gen <= registry[job[i].id])
  BY DEF FilesAll, GenerationInv
<1>3. job[i].pc = "replace" /\ job[i].id \notin stray => \A g \in files[job[i].id] : g >= job[i].seen.gen
  BY <1>1 DEF FilesAll, FilesInv
<1>4. job[i].pc = "write" /\ ~job[i].late =>
        job[i].id \in Listed /\ ~Going(job[i].id) /\ job[i].gen = registry[job[i].id]
  BY DEF FilesAll, FilesInv
<1> QED BY <1>1, <1>2, <1>3, <1>4

\* Points at which a request holds nothing it has read.
Plain(x) == x.pc \notin {"add", "replace", "write"}

\* The deletions of k that have removed its tree are those they were, or fewer.
LEMMA GoingFewer ==
  ASSUME NEW j \in Jobs, NEW k, NEW x, MoveOf(j, k, x), OpOK(x),
         x.pc \in GoingPoints => job[j].pc \in GoingPoints /\ job[j].op = "delete"
  PROVE  Going(k)' => Going(k)
<1> SUFFICES ASSUME Going(k)' PROVE Going(k)
  OBVIOUS
<1>1. PICK i \in Jobs : job'[i].op = "delete" /\ job'[i].id = k /\ job'[i].pc \in GoingPoints
  BY DEF Going, GoingPoints
<1>2. CASE i = j
  <2>1. job[j].pc \in GoingPoints /\ job[j].op = "delete" /\ job[j].id = k
    BY <1>1, <1>2 DEF MoveOf, GoingPoints
  <2> QED BY <2>1 DEF Going, GoingPoints
<1>3. CASE i # j
  BY <1>1, <1>3 DEF MoveOf, Going, GoingPoints
<1> QED BY <1>2, <1>3

\* A step that leaves files, generations and lists as they are.
LEMMA FilesQuiet ==
  ASSUME CatalogInv, FilesAll, NEW j \in Jobs, NEW k, NEW x, MoveOf(j, k, x), OpOK(x), Plain(x),
         x.pc \in GoingPoints => job[j].pc \in GoingPoints /\ job[j].op = "delete",
         UNCHANGED <<registry, files, stray>>, catalog'[k].gen = catalog[k].gen, k \in Listed' <=> k \in Listed,
         clock' \in Nat, clock <= clock'
  PROVE  FilesAll'
<1>1. k \in Ids /\ up = "serving"
  BY DEF MoveOf
<1>2. Going(k)' => Going(k)
  BY GoingFewer
<1>3. files' \in [Ids -> SUBSET Nat] /\ stray' \subseteq Ids
  BY DEF FilesAll
<1>4. Clean(k)
  BY <1>1, <1>2, SessionFacts DEF Clean
<1>5. \A i \in Jobs : job'[i].pc \in {"add", "replace", "write"} =>
        /\ i # j /\ job[i].pc = job'[i].pc /\ job[i].id = job'[i].id /\ job[i].gen = job'[i].gen
        /\ job[i].seen = job'[i].seen /\ (~job'[i].late => ~job[i].late)
  BY DEF MoveOf, Plain
<1>6. Waiting(k)
  <2>1. ASSUME k \notin stray', NEW g \in files'[k], NEW i \in Jobs, job'[i].pc = "replace", job'[i].id = k
        PROVE  g >= job'[i].seen.gen
    BY <1>5, <2>1, RequestFacts
  <2>2. ASSUME NEW i \in Jobs, job'[i].pc = "write", ~job'[i].late, job'[i].id = k
        PROVE  k \in Listed' /\ ~Going(k)' /\ job'[i].gen = registry'[k]
    BY <1>2, <1>5, <2>2, RequestFacts
  <2> QED BY <2>1, <2>2 DEF Waiting
<1>7. Numbered(k)
  <2>1. ASSUME NEW i \in Jobs, job'[i].pc = "replace", job'[i].id = k
        PROVE  job'[i].seen.gen <= clock' /\ (registry'[k] # 0 => job'[i].seen.gen <= registry'[k])
    <3>1. job[i].seen.gen \in Nat /\ job[i].seen.gen <= clock /\ (registry[k] # 0 => job[i].seen.gen <= registry[k])
      BY <1>5, <2>1, RequestFacts
    <3>2. clock \in Nat
      BY <1>1, SessionFacts
    <3> QED BY <1>5, <2>1, <3>1, <3>2
  <2>2. \A i \in Jobs : job'[i].pc = "add" /\ job'[i].id = k => job'[i].gen = registry'[k]
    BY <1>5, RequestFacts
  <2> QED BY <1>1, <2>1, <2>2, SessionFacts DEF Numbered
<1> QED BY <1>3, <1>4, <1>6, <1>7, FilesMove

-----------------------------------------------------------------------------
\* The steps of the requests.

Elsewhere(k) ==
  \A id \in Ids \ {k} : /\ registry'[id] = registry[id] /\ catalog'[id] = catalog[id]
                        /\ files'[id] = files[id] /\ (id \in stray' <=> id \in stray)

LEMMA OneMoves ==
  ASSUME CatalogInv, NEW j \in Jobs, NEW k \in Ids, NEW x, job' = [job EXCEPT ![j] = x],
         up = "serving", up' = up, job[j].pc # "idle" => job[j].id = k, x.pc # "idle" => x.id = k, Elsewhere(k)
  PROVE  MoveOf(j, k, x)
<1>1. job'[j] = x /\ \A i \in Jobs \ {j} : job'[i] = job[i]
  BY DEF CatalogInv, CatalogTypes
<1> QED BY <1>1 DEF MoveOf, Elsewhere

LEMMA LateMoves ==
  ASSUME CatalogInv, NEW j \in Jobs, NEW k \in Ids, NEW x, Late(j, k, x),
         up = "serving", up' = up, job[j].id = k, x.pc # "idle" => x.id = k, Elsewhere(k)
  PROVE  /\ MoveOf(j, k, x)
         /\ \A i \in Jobs \ {j} : job[i].pc = "write" /\ job[i].id = k => job'[i].late
<1> DEFINE others(i) == [job[i] EXCEPT !.late = @ \/ (job[i].id = k /\ job[i].pc = "write")]
<1>1. ASSUME NEW i \in Jobs
      PROVE  /\ others(i).pc = job[i].pc /\ others(i).id = job[i].id /\ others(i).op = job[i].op
             /\ others(i).gen = job[i].gen /\ others(i).seen = job[i].seen
             /\ others(i).late = (job[i].late \/ (job[i].id = k /\ job[i].pc = "write"))
  <2>1. job[i] \in JobType
    BY DEF CatalogInv, CatalogTypes
  <2> QED BY <2>1 DEF JobType
<1>2. job' = [i \in Jobs |-> IF i = j THEN x ELSE others(i)]
  BY DEF Late
<1> HIDE DEF others
<1>3. job'[j] = x /\ \A i \in Jobs \ {j} : job'[i] = others(i)
  BY <1>2
<1> QED BY <1>1, <1>3 DEF MoveOf, Elsewhere

\* A request that ends, or goes on with what it has.
LEMMA FilesEnd ==
  ASSUME CatalogInv, FilesAll, NEW j \in Jobs, job[j].pc # "idle", End(j), up = "serving",
         UNCHANGED <<up, registry, catalog, files, stray, clock>>
  PROVE  FilesAll'
<1> PICK k \in Ids : k = job[j].id
  BY RequestFacts
<1>1. k \in Ids /\ Idle.pc = "idle" /\ OpOK(Idle) /\ Plain(Idle) /\ Idle.pc \notin GoingPoints
  BY RequestFacts, RecordFacts DEF OpOK, Plain, GoingPoints
<1>2. MoveOf(j, k, Idle)
  BY <1>1, OneMoves DEF End, Elsewhere
<1>3. clock' \in Nat /\ clock <= clock' /\ (k \in Listed' <=> k \in Listed)
  BY DEF CatalogInv, CatalogTypes, Listed
<1> QED BY <1>1, <1>2, <1>3, FilesQuiet

LEMMA FilesGoOn ==
  ASSUME CatalogInv, FilesAll, NEW j \in Jobs, job[j].pc # "idle", NEW x, job' = [job EXCEPT ![j] = x],
         x.id = job[j].id, OpOK(x), Plain(x),
         x.pc \in GoingPoints => job[j].pc \in GoingPoints /\ job[j].op = "delete",
         up = "serving", UNCHANGED <<up, registry, catalog, files, stray, clock>>
  PROVE  FilesAll'
<1> PICK k \in Ids : k = job[j].id
  BY RequestFacts
<1>1. k \in Ids
  BY RequestFacts
<1>2. MoveOf(j, k, x)
  BY <1>1, OneMoves DEF Elsewhere
<1>3. clock' \in Nat /\ clock <= clock' /\ (k \in Listed' <=> k \in Listed)
  BY DEF CatalogInv, CatalogTypes, Listed
<1> QED BY <1>2, <1>3, FilesQuiet

LEMMA FilesTo ==
  ASSUME CatalogInv, FilesAll, NEW j \in Jobs, job[j].pc # "idle", NEW p \in Points, To(j, p),
         p \in {"check", "tree"} \cup GoingPoints => job[j].op = "delete", p \notin {"add", "replace", "write"},
         p \in GoingPoints => job[j].pc \in GoingPoints,
         up = "serving", UNCHANGED <<up, registry, catalog, files, stray, clock>>
  PROVE  FilesAll'
<1> DEFINE x == [job[j] EXCEPT !.pc = p]
<1>1. job[j] \in JobType
  BY DEF CatalogInv, CatalogTypes
<1>2. x.pc = p /\ x.id = job[j].id /\ x.op = job[j].op
  BY <1>1 DEF JobType
<1>3. job' = [job EXCEPT ![j] = x]
  BY DEF To
<1> HIDE DEF x
<1>4. OpOK(x) /\ Plain(x) /\ (x.pc \in GoingPoints => job[j].pc \in GoingPoints /\ job[j].op = "delete")
  BY <1>2 DEF OpOK, Plain
<1> QED BY <1>2, <1>3, <1>4, FilesGoOn

LEMMA FilesAsk ==
  ASSUME CatalogInv, FilesAll, NEW j \in Jobs, NEW op \in Ops, NEW id \in Ids, Ask(j, op, id)
  PROVE  FilesAll'
<1> DEFINE x == [Idle EXCEPT !.pc = First(op), !.op = op, !.id = id, !.gen = clock']
<1>1. /\ up = "serving" /\ job[j].pc = "idle" /\ UNCHANGED <<up, registry, catalog, files, stray>>
      /\ clock' = (IF op = "rename" THEN clock + 1 ELSE clock) /\ job' = [job EXCEPT ![j] = x]
  BY RecordFacts DEF Ask, Count
<1>2. clock' \in Nat /\ clock <= clock'
  BY <1>1 DEF CatalogInv, CatalogTypes
<1>3. First(op) \in {"mkdir", "check", "rename", "touch", "exists"} /\ (First(op) = "check" => op = "delete")
  BY DEF Ops, First
<1>4. x.pc = First(op) /\ x.op = op /\ x.id = id
  BY DEF Idle
<1> HIDE DEF x
<1>5. OpOK(x) /\ Plain(x) /\ x.pc \notin GoingPoints
  BY <1>3, <1>4 DEF OpOK, Plain, GoingPoints
<1>6. MoveOf(j, id, x)
  BY <1>1, <1>4, OneMoves DEF Elsewhere
<1>7. id \in Listed' <=> id \in Listed
  BY <1>1 DEF Listed
<1> QED BY <1>1, <1>2, <1>5, <1>6, <1>7, FilesQuiet

\* A new generation is newer than whatever anybody holds of the id.
LEMMA FilesRegister ==
  ASSUME CatalogInv, FilesAll, NEW j \in Jobs, Register(j)
  PROVE  FilesAll'
<1> PICK k \in Ids : k = job[j].id
  BY RequestFacts DEF Register, At
<1> DEFINE x == [job[j] EXCEPT !.pc = "add", !.gen = clock + 1]
<1>1. /\ up = "serving" /\ job[j].pc = "register" /\ UNCHANGED <<up, catalog, files, stray>>
      /\ IF registry[k] # 0 THEN End(j) /\ UNCHANGED <<registry, clock>>
         ELSE /\ clock' = clock + 1 /\ job' = [job EXCEPT ![j] = x]
              /\ registry' = [registry EXCEPT ![k] = clock + 1]
  BY DEF Register, At
<1>2. CASE registry[k] # 0
  BY <1>1, <1>2, FilesEnd
<1>3. CASE registry[k] = 0
  <2>1. k \in Ids /\ job[j] \in JobType /\ registry \in [Ids -> Nat] /\ clock \in Nat /\ Agree
    BY <1>1, RequestFacts DEF CatalogInv, CatalogTypes
  <2>2. x.pc = "add" /\ x.id = k /\ x.gen = clock + 1
    BY <2>1 DEF JobType
  <2> HIDE DEF x
  <2>3. registry'[k] = clock + 1 /\ \A id \in Ids \ {k} : registry'[id] = registry[id]
    BY <1>1, <1>3, <2>1
  <2>4. MoveOf(j, k, x)
    BY <1>1, <1>3, <2>1, <2>2, <2>3, OneMoves DEF Elsewhere
  <2>5. OpOK(x) /\ k \notin Listed /\ k \notin Listed'
    BY <1>1, <1>3, <2>1, <2>2 DEF OpOK, Agree, Listed, GoingPoints
  <2>6. k \notin stray' => files'[k] = {}
    BY <1>1, <2>1, <2>5, SessionFacts
  <2>7. Clean(k)
    BY <2>6 DEF Clean
  <2>8. ASSUME NEW i \in Jobs, job'[i].id = k
        PROVE  /\ ~(job'[i].pc = "write" /\ ~job'[i].late)
               /\ job'[i].pc = "add" => job'[i].gen = registry'[k]
               /\ job'[i].pc = "replace" => job'[i].seen.gen <= clock' /\ job'[i].seen.gen <= registry'[k]
    <3>1. CASE i = j
      BY <2>2, <2>3, <2>4, <3>1 DEF MoveOf
    <3>2. CASE i # j
      <4>1. /\ job[i].pc = job'[i].pc /\ job[i].id = k /\ job[i].seen = job'[i].seen
            /\ (~job'[i].late => ~job[i].late)
        BY <2>4, <2>8, <3>2 DEF MoveOf
      <4>2. job[i].pc # "add"
        BY <1>3, <2>1, <4>1 DEF Agree, Halfway
      <4>3. ~(job[i].pc = "write" /\ ~job[i].late)
        BY <2>5, <4>1, RequestFacts
      <4>4. job[i].pc = "replace" => job[i].seen.gen \in Nat /\ job[i].seen.gen <= clock
        BY RequestFacts
      <4> QED BY <1>1, <1>3, <2>1, <2>3, <4>1, <4>2, <4>3, <4>4
    <3> QED BY <3>1, <3>2
  <2>9. Waiting(k)
    BY <2>6, <2>8 DEF Waiting
  <2>10. Numbered(k)
    <3>1. catalog[k].gen \in Nat /\ catalog[k].gen <= clock
      BY <2>1, SessionFacts
    <3> QED BY <1>1, <1>3, <2>1, <2>3, <2>5, <2>8, <3>1 DEF Numbered
  <2>11. files' \in [Ids -> SUBSET Nat] /\ stray' \subseteq Ids
    BY <1>1 DEF FilesAll
  <2> QED BY <2>4, <2>5, <2>7, <2>9, <2>10, <2>11, FilesMove
<1> QED BY <1>2, <1>3

\* A Session is listed over an empty directory.
LEMMA FilesAdd ==
  ASSUME CatalogInv, FilesAll, NEW j \in Jobs, Add(j)
  PROVE  FilesAll'
<1> PICK k \in Ids : k = job[j].id
  BY RequestFacts DEF Add, At
<1> DEFINE r == [gen |-> job[j].gen, name |-> job[j].gen]
<1>1. /\ up = "serving" /\ job[j].pc = "add" /\ UNCHANGED <<up, registry, files, stray, clock>> /\ k \notin Listed
      /\ End(j) /\ catalog' = [catalog EXCEPT ![k] = r]
  BY DEF Add, At, Save
<1>2. k \in Ids /\ catalog \in [Ids -> Record] /\ job[j].gen = registry[k]
  BY <1>1, RequestFacts DEF CatalogInv, CatalogTypes
<1>3. catalog'[k].gen = registry[k] /\ \A id \in Ids \ {k} : catalog'[id] = catalog[id]
  <2>1. r.gen = job[j].gen
    OBVIOUS
  <2> HIDE DEF r
  <2> QED BY <1>1, <1>2, <2>1
<1>4. Idle.pc = "idle" /\ OpOK(Idle) /\ MoveOf(j, k, Idle)
  BY <1>1, <1>2, <1>3, RecordFacts, OneMoves DEF OpOK, GoingPoints, End, Elsewhere
<1>5. k \notin stray' => files'[k] = {}
  BY <1>1, <1>2, SessionFacts
<1>6. Clean(k)
  BY <1>5 DEF Clean
<1>7. \A i \in Jobs : job'[i].id = k /\ job'[i].pc # "idle" =>
        /\ job[i].pc = job'[i].pc /\ job[i].id = k /\ job[i].seen = job'[i].seen /\ job[i].gen = job'[i].gen
        /\ (~job'[i].late => ~job[i].late)
  BY <1>4 DEF MoveOf
<1>8. Waiting(k)
  BY <1>1, <1>5, <1>7, RequestFacts DEF Waiting
<1>9. Numbered(k)
  <2>1. registry[k] \in Nat /\ registry[k] <= clock /\ clock \in Nat
    BY <1>2, SessionFacts
  <2>2. ASSUME NEW i \in Jobs, job'[i].id = k
        PROVE  /\ job'[i].pc = "add" => job'[i].gen = registry'[k]
               /\ job'[i].pc = "replace" =>
                    job'[i].seen.gen <= clock' /\ (registry'[k] # 0 => job'[i].seen.gen <= registry'[k])
    BY <1>1, <1>7, <2>2, RequestFacts
  <2> QED BY <1>1, <1>3, <2>1, <2>2 DEF Numbered
<1>10. files' \in [Ids -> SUBSET Nat] /\ stray' \subseteq Ids
  BY <1>1 DEF FilesAll
<1> QED BY <1>4, <1>6, <1>8, <1>9, <1>10, FilesMove

\* A Session that is not listed is unregistered.
LEMMA FilesUnregister ==
  ASSUME CatalogInv, FilesAll, NEW j \in Jobs, AddFails(j) \/ Forget(j)
  PROVE  FilesAll'
<1> PICK k \in Ids : k = job[j].id
  BY RequestFacts DEF AddFails, Forget, At
<1>1. /\ up = "serving" /\ job[j].pc \in Halfway /\ UNCHANGED <<up, catalog, files, stray, clock>>
      /\ registry' = [registry EXCEPT ![k] = 0]
      /\ Late(j, k, Idle) \/ End(j)
  <2>1. After("forget") = "idle"
    BY DEF After
  <2> QED BY <2>1 DEF AddFails, Forget, At, Goes, Halfway
<1>2. k \in Ids /\ registry \in [Ids -> Nat] /\ Agree /\ k \notin Listed /\ k \notin Listed'
  BY <1>1, RequestFacts DEF CatalogInv, CatalogTypes, Agree, Halfway, Listed
<1>3. registry'[k] = 0 /\ \A id \in Ids \ {k} : registry'[id] = registry[id]
  BY <1>1, <1>2
<1>4. Idle.pc = "idle" /\ OpOK(Idle) /\ MoveOf(j, k, Idle)
  BY <1>1, <1>2, <1>3, RecordFacts, OneMoves, LateMoves DEF OpOK, GoingPoints, End, Elsewhere
<1>5. k \notin stray' => files'[k] = {}
  BY <1>1, <1>2, SessionFacts
<1>6. Clean(k)
  BY <1>5 DEF Clean
<1>7. \A i \in Jobs : job'[i].id = k /\ job'[i].pc # "idle" =>
        /\ i # j /\ job[i].pc = job'[i].pc /\ job[i].id = k /\ job[i].seen = job'[i].seen
        /\ (~job'[i].late => ~job[i].late)
  BY <1>4 DEF MoveOf
<1>8. Waiting(k)
  BY <1>2, <1>5, <1>7, RequestFacts DEF Waiting
<1>9. Numbered(k)
  <2>1. catalog[k].gen \in Nat /\ catalog[k].gen <= clock /\ clock \in Nat
    BY <1>2, SessionFacts
  <2>2. \A i \in Jobs : job'[i].id = k => job'[i].pc # "add"
    BY <1>1, <1>2, <1>7 DEF Agree, Halfway
  <2>3. \A i \in Jobs : job'[i].id = k /\ job'[i].pc = "replace" => job'[i].seen.gen <= clock
    BY <1>7, RequestFacts
  <2> QED BY <1>1, <1>2, <1>3, <2>1, <2>2, <2>3 DEF Numbered
<1>10. files' \in [Ids -> SUBSET Nat] /\ stray' \subseteq Ids
  BY <1>1 DEF FilesAll
<1> QED BY <1>4, <1>6, <1>8, <1>9, <1>10, FilesMove

LEMMA FilesCreate ==
  ASSUME CatalogInv, FilesAll, NEW j \in Jobs, Create(j)
  PROVE  FilesAll'
<1>1. CASE CreateDir(j)
  <2>1. /\ up = "serving" /\ job[j].pc = "mkdir" /\ To(j, "register")
        /\ UNCHANGED <<up, registry, catalog, files, stray, clock>> /\ "register" \in Points
    BY <1>1 DEF CreateDir, At, Points
  <2> QED BY <2>1, FilesTo DEF GoingPoints
<1> QED BY <1>1, FilesRegister, FilesAdd, FilesUnregister DEF Create

-----------------------------------------------------------------------------
\* delete.

LEMMA FilesRemoveTree ==
  ASSUME CatalogInv, FilesAll, NEW j \in Jobs, RemoveTree(j)
  PROVE  FilesAll'
<1> PICK k \in Ids : k = job[j].id
  BY RequestFacts DEF RemoveTree, At
<1> DEFINE x == [job[j] EXCEPT !.pc = "archive"]
<1>1. /\ up = "serving" /\ job[j].pc = "tree" /\ UNCHANGED <<up, registry, catalog, clock>>
      /\ Late(j, k, x) /\ files' = [files EXCEPT ![k] = {}] /\ stray' = stray \ {k}
  BY DEF RemoveTree, At, After
<1>2. k \in Ids /\ job[j] \in JobType /\ files \in [Ids -> SUBSET Nat] /\ stray \subseteq Ids /\ OpOK(job[j])
  BY <1>1, RequestFacts DEF FilesAll, CatalogInv, CatalogTypes
<1>3. x.pc = "archive" /\ x.id = k /\ x.op = "delete"
  BY <1>1, <1>2 DEF JobType, OpOK
<1> HIDE DEF x
<1>4. /\ files' \in [Ids -> SUBSET Nat] /\ files'[k] = {} /\ \A id \in Ids \ {k} : files'[id] = files[id]
      /\ stray' \subseteq Ids /\ \A id \in Ids \ {k} : id \in stray' <=> id \in stray
  BY <1>1, <1>2
<1>5. OpOK(x) /\ MoveOf(j, k, x) /\ \A i \in Jobs \ {j} : job[i].pc = "write" /\ job[i].id = k => job'[i].late
  BY <1>1, <1>2, <1>3, <1>4, LateMoves DEF OpOK, Elsewhere
<1>6. Clean(k)
  BY <1>4 DEF Clean
<1>7. \A i \in Jobs : job'[i].id = k /\ job'[i].pc \in {"add", "replace", "write"} =>
        /\ i # j /\ job[i].pc = job'[i].pc /\ job[i].id = k /\ job[i].seen = job'[i].seen /\ job[i].gen = job'[i].gen
  BY <1>3, <1>5 DEF MoveOf
<1>8. Waiting(k)
  BY <1>4, <1>5, <1>7 DEF Waiting
<1>9. Numbered(k)
  <2>1. /\ registry[k] \in Nat /\ catalog[k].gen \in Nat /\ clock \in Nat /\ registry[k] <= clock /\ catalog[k].gen <= clock
        /\ (k \in Listed => catalog[k].gen <= registry[k])
    BY <1>1, <1>2, SessionFacts
  <2>2. k \in Listed' <=> k \in Listed
    BY <1>1 DEF Listed
  <2> QED BY <1>1, <1>7, <2>1, <2>2, RequestFacts DEF Numbered
<1> QED BY <1>4, <1>5, <1>6, <1>8, <1>9, FilesMove

\* What is left is no older than what was there.
LEMMA FilesRemoveTreeFails ==
  ASSUME CatalogInv, FilesAll, NEW j \in Jobs, RemoveTreeFails(j)
  PROVE  FilesAll'
<1> PICK k \in Ids : k = job[j].id
  BY RequestFacts DEF RemoveTreeFails, At
<1>1. /\ up = "serving" /\ job[j].pc = "tree" /\ UNCHANGED <<up, registry, catalog, clock, stray>>
      /\ End(j) /\ \E left \in SUBSET files[k] : files' = [files EXCEPT ![k] = left]
  BY DEF RemoveTreeFails, At
<1>2. k \in Ids /\ files \in [Ids -> SUBSET Nat]
  BY <1>1, RequestFacts DEF FilesAll
<1>3. /\ files' \in [Ids -> SUBSET Nat] /\ files'[k] \subseteq files[k]
      /\ \A id \in Ids \ {k} : files'[id] = files[id]
  BY <1>1, <1>2
<1>4. Idle.pc = "idle" /\ OpOK(Idle) /\ MoveOf(j, k, Idle)
  BY <1>1, <1>2, <1>3, RecordFacts, OneMoves DEF OpOK, GoingPoints, End, Elsewhere
<1>5. (Going(k)' => Going(k)) /\ (k \in Listed' <=> k \in Listed)
  <2>1. Idle.pc \notin GoingPoints
    BY <1>4 DEF GoingPoints
  <2>2. Going(k)' => Going(k)
    BY <1>4, <2>1, GoingFewer
  <2> QED BY <1>1, <2>2 DEF Listed
<1>6. Clean(k)
  BY <1>1, <1>2, <1>3, <1>5, SessionFacts DEF Clean
<1>7. \A i \in Jobs : job'[i].id = k /\ job'[i].pc # "idle" =>
        /\ i # j /\ job[i].pc = job'[i].pc /\ job[i].id = k /\ job[i].seen = job'[i].seen
        /\ job[i].gen = job'[i].gen /\ (~job'[i].late => ~job[i].late)
  BY <1>4 DEF MoveOf
<1>8. Waiting(k)
  <2>1. ASSUME k \notin stray', NEW g \in files'[k], NEW i \in Jobs, job'[i].pc = "replace", job'[i].id = k
        PROVE  g >= job'[i].seen.gen
    BY <1>1, <1>3, <1>7, <2>1, RequestFacts
  <2>2. ASSUME NEW i \in Jobs, job'[i].pc = "write", ~job'[i].late, job'[i].id = k
        PROVE  k \in Listed' /\ ~Going(k)' /\ job'[i].gen = registry'[k]
    BY <1>1, <1>5, <1>7, <2>2, RequestFacts
  <2> QED BY <2>1, <2>2 DEF Waiting
<1>9. Numbered(k)
  <2>1. /\ registry[k] \in Nat /\ catalog[k].gen \in Nat /\ clock \in Nat /\ registry[k] <= clock /\ catalog[k].gen <= clock
        /\ (k \in Listed => catalog[k].gen <= registry[k])
    BY <1>1, <1>2, SessionFacts
  <2> QED BY <1>1, <1>5, <1>7, <2>1, RequestFacts DEF Numbered
<1>10. stray' \subseteq Ids
  BY <1>1 DEF FilesAll
<1> QED BY <1>3, <1>4, <1>6, <1>8, <1>9, <1>10, FilesMove

\* The Session leaves the catalog after its tree.
LEMMA FilesUnlist ==
  ASSUME CatalogInv, FilesAll, NEW j \in Jobs, Unlist(j)
  PROVE  FilesAll'
<1> PICK k \in Ids : k = job[j].id
  BY RequestFacts DEF Unlist, At
<1> DEFINE x == [job[j] EXCEPT !.pc = "forget"]
<1>1. /\ up = "serving" /\ job[j].pc = "unlist" /\ UNCHANGED <<up, registry, files, stray, clock>>
      /\ IF k \notin Listed THEN End(j) /\ UNCHANGED catalog
         ELSE job' = [job EXCEPT ![j] = x] /\ catalog' = [catalog EXCEPT ![k] = Unlisted]
  BY DEF Unlist, At, Goes, After, Save, To
<1>2. CASE k \notin Listed
  BY <1>1, <1>2, FilesEnd
<1>3. CASE k \in Listed
  <2>1. k \in Ids /\ job[j] \in JobType /\ catalog \in [Ids -> Record] /\ OpOK(job[j])
    BY <1>1, RequestFacts DEF FilesAll, CatalogInv, CatalogTypes
  <2>2. x.pc = "forget" /\ x.id = k /\ x.op = "delete" /\ job[j].op = "delete"
    BY <1>1, <2>1 DEF JobType, OpOK, GoingPoints
  <2> HIDE DEF x
  <2>3. catalog'[k] = Unlisted /\ \A id \in Ids \ {k} : catalog'[id] = catalog[id]
    BY <1>1, <1>3, <2>1
  <2>4. OpOK(x) /\ MoveOf(j, k, x) /\ Going(k) /\ k \notin Listed' /\ catalog'[k].gen = 0
    BY <1>1, <1>3, <2>1, <2>2, <2>3, OneMoves DEF OpOK, Elsewhere, Going, Listed, Unlisted
  <2>5. k \notin stray' => files'[k] = {}
    BY <1>1, <2>1, <2>4, SessionFacts
  <2>6. Clean(k)
    BY <2>5 DEF Clean
  <2>7. \A i \in Jobs : job'[i].id = k /\ job'[i].pc \in {"add", "replace", "write"} =>
          /\ i # j /\ job[i].pc = job'[i].pc /\ job[i].id = k /\ job[i].seen = job'[i].seen
          /\ job[i].gen = job'[i].gen /\ (~job'[i].late => ~job[i].late)
    BY <2>2, <2>4 DEF MoveOf
  <2>8. Waiting(k)
    BY <2>4, <2>5, <2>7, RequestFacts DEF Waiting
  <2>9. Numbered(k)
    <3>1. registry[k] \in Nat /\ clock \in Nat /\ registry[k] <= clock
      BY <2>1, SessionFacts
    <3> QED BY <1>1, <1>3, <2>4, <2>7, <3>1, RequestFacts DEF Numbered
  <2>10. files' \in [Ids -> SUBSET Nat] /\ stray' \subseteq Ids
    BY <1>1 DEF FilesAll
  <2> QED BY <2>4, <2>6, <2>8, <2>9, <2>10, FilesMove
<1> QED BY <1>2, <1>3

LEMMA FilesDelete ==
  ASSUME CatalogInv, FilesAll, NEW j \in Jobs, Delete(j)
  PROVE  FilesAll'
<1>1. job[j] \in JobType /\ OpOK(job[j])
  BY DEF FilesAll, CatalogInv, CatalogTypes
<1>2. /\ After("check") = "tree" /\ After("archive") = "index" /\ After("index") = "unlist"
      /\ "tree" \in Points /\ "index" \in Points /\ "unlist" \in Points
  BY DEF After, Points
<1>3. CASE DeleteCheck(j) \/ RemoveArchive(j) \/ DeleteFails(j)
  <2>1. /\ up = "serving" /\ UNCHANGED <<up, registry, catalog, files, stray, clock>>
        /\ \/ job[j].pc = "check" /\ To(j, "tree")
           \/ job[j].pc = "archive" /\ To(j, "index")
           \/ job[j].pc \in {"check", "reindex", "unlist"} /\ End(j)
    BY <1>2, <1>3 DEF DeleteCheck, RemoveArchive, DeleteFails, At, Goes
  <2>2. job[j].pc \in {"check", "archive"} => job[j].op = "delete"
    BY <1>1 DEF OpOK, GoingPoints
  <2> QED BY <1>2, <2>1, <2>2, FilesEnd, FilesTo DEF GoingPoints
<1>4. CASE ReadIndex(j)
  <2> DEFINE left == index \ {job[j].id}
             x == [job[j] EXCEPT !.pc = "reindex", !.rest = left]
  <2>1. /\ up = "serving" /\ job[j].pc = "index" /\ UNCHANGED <<up, registry, catalog, files, stray, clock>>
        /\ job' = [job EXCEPT ![j] = x] \/ To(j, "unlist")
    BY <1>2, <1>4 DEF ReadIndex, At, Goes, To
  <2>2. x.pc = "reindex" /\ x.id = job[j].id /\ x.op = job[j].op /\ job[j].op = "delete"
    BY <1>1, <2>1 DEF JobType, OpOK, GoingPoints
  <2> HIDE DEF x, left
  <2>3. OpOK(x) /\ Plain(x) /\ job[j].pc \in GoingPoints
    BY <2>1, <2>2 DEF OpOK, Plain, GoingPoints
  <2>4. CASE job' = [job EXCEPT ![j] = x]
    BY <2>1, <2>2, <2>3, <2>4, FilesGoOn
  <2>5. CASE To(j, "unlist")
    BY <1>2, <2>1, <2>2, <2>3, <2>5, FilesTo
  <2> QED BY <2>1, <2>4, <2>5
<1>5. CASE WriteIndex(j)
  <2> DEFINE x == [job[j] EXCEPT !.pc = "unlist", !.rest = {}]
  <2>1. /\ up = "serving" /\ job[j].pc = "reindex" /\ UNCHANGED <<up, registry, catalog, files, stray, clock>>
        /\ job' = [job EXCEPT ![j] = x]
    BY <1>2, <1>5 DEF WriteIndex, At
  <2>2. x.pc = "unlist" /\ x.id = job[j].id /\ x.op = job[j].op /\ job[j].op = "delete"
    BY <1>1, <2>1 DEF JobType, OpOK, GoingPoints
  <2> HIDE DEF x
  <2>3. OpOK(x) /\ Plain(x) /\ job[j].pc \in GoingPoints
    BY <2>1, <2>2 DEF OpOK, Plain, GoingPoints
  <2> QED BY <2>1, <2>2, <2>3, FilesGoOn
<1>6. CASE Forget(j)
  BY <1>6, FilesUnregister
<1> QED BY <1>3, <1>4, <1>5, <1>6, FilesRemoveTree, FilesRemoveTreeFails, FilesUnlist DEF Delete

-----------------------------------------------------------------------------
\* Requests of a Session that exists.

LEMMA FilesRename ==
  ASSUME CatalogInv, FilesAll, NEW j \in Jobs, Rename(j)
  PROVE  FilesAll'
<1> PICK k \in Ids : k = job[j].id
  BY RequestFacts DEF Rename, At
<1> DEFINE r == [catalog[k] EXCEPT !.name = job[j].gen]
<1>1. /\ up = "serving" /\ job[j].pc = "rename" /\ UNCHANGED <<up, registry, files, stray, clock>> /\ End(j)
      /\ (k \in Listed /\ catalog' = [catalog EXCEPT ![k] = r]) \/ UNCHANGED catalog
  BY DEF Rename, At, Save
<1>2. CASE UNCHANGED catalog
  BY <1>1, <1>2, FilesEnd
<1>3. CASE k \in Listed /\ catalog' = [catalog EXCEPT ![k] = r]
  <2>1. k \in Ids /\ catalog \in [Ids -> Record] /\ catalog[k] \in Record /\ Given /\ clock \in Nat
    BY <1>1, RequestFacts DEF CatalogInv, CatalogTypes
  <2>2. r.gen = catalog[k].gen /\ catalog[k].gen # 0
    BY <1>3, <2>1 DEF Record, Given
  <2> HIDE DEF r
  <2>3. catalog'[k] = r /\ \A id \in Ids \ {k} : catalog'[id] = catalog[id]
    BY <1>3, <2>1
  <2>4. k \in Listed'
    BY <2>1, <2>2, <2>3 DEF Listed, Unlisted
  <2>5. Idle.pc = "idle" /\ OpOK(Idle) /\ Plain(Idle) /\ Idle.pc \notin GoingPoints /\ MoveOf(j, k, Idle)
    BY <1>1, <2>1, <2>3, RecordFacts, OneMoves DEF OpOK, Plain, GoingPoints, End, Elsewhere
  <2> QED BY <1>1, <1>3, <2>1, <2>2, <2>3, <2>4, <2>5, FilesQuiet
<1> QED BY <1>1, <1>2, <1>3

\* The record a start call has read is of this Session or of an earlier one.
LEMMA FilesTouchRead ==
  ASSUME CatalogInv, FilesAll, NEW j \in Jobs, TouchRead(j)
  PROVE  FilesAll'
<1> PICK k \in Ids : k = job[j].id
  BY RequestFacts DEF TouchRead, At
<1> DEFINE x == [job[j] EXCEPT !.pc = "replace", !.seen = catalog[k]]
<1>1. /\ up = "serving" /\ job[j].pc = "touch" /\ UNCHANGED <<up, registry, catalog, files, stray, clock>>
      /\ (k \in Listed /\ job' = [job EXCEPT ![j] = x]) \/ End(j)
  BY DEF TouchRead, At
<1>2. CASE End(j)
  BY <1>1, <1>2, FilesEnd
<1>3. CASE k \in Listed /\ job' = [job EXCEPT ![j] = x]
  <2>1. k \in Ids /\ job[j] \in JobType
    BY <1>1, RequestFacts DEF CatalogInv, CatalogTypes
  <2>2. x.pc = "replace" /\ x.id = k /\ x.seen = catalog[k]
    BY <2>1 DEF JobType
  <2> HIDE DEF x
  <2>3. OpOK(x) /\ x.pc \notin GoingPoints
    BY <2>2 DEF OpOK, GoingPoints
  <2>4. MoveOf(j, k, x)
    BY <1>1, <1>3, <2>1, <2>2, OneMoves DEF Elsewhere
  <2>5. (Going(k)' => Going(k)) /\ (k \in Listed' <=> k \in Listed)
    <3>1. Going(k)' => Going(k)
      BY <2>3, <2>4, GoingFewer
    <3> QED BY <1>1, <3>1 DEF Listed
  <2>6. /\ registry[k] \in Nat /\ catalog[k].gen \in Nat /\ clock \in Nat /\ registry[k] <= clock
        /\ catalog[k].gen <= clock /\ catalog[k].gen <= registry[k]
        /\ k \notin stray /\ (k \notin Listed \/ Going(k)) => files[k] = {}
        /\ k \notin stray => \A g \in files[k] : g >= registry[k] /\ g >= catalog[k].gen
    BY <1>1, <1>3, <2>1, SessionFacts
  <2>7. Clean(k)
    BY <1>1, <2>5, <2>6 DEF Clean
  <2>8. \A i \in Jobs : job'[i].id = k /\ job'[i].pc # "idle" =>
          \/ i = j /\ job'[i] = x
          \/ /\ job[i].pc = job'[i].pc /\ job[i].id = k /\ job[i].seen = job'[i].seen
             /\ job[i].gen = job'[i].gen /\ (~job'[i].late => ~job[i].late)
    BY <2>4 DEF MoveOf
  <2>9. Waiting(k)
    <3>1. ASSUME k \notin stray', NEW g \in files'[k], NEW i \in Jobs, job'[i].pc = "replace", job'[i].id = k
          PROVE  g >= job'[i].seen.gen
      BY <1>1, <2>2, <2>6, <2>8, <3>1, RequestFacts
    <3>2. ASSUME NEW i \in Jobs, job'[i].pc = "write", ~job'[i].late, job'[i].id = k
          PROVE  k \in Listed' /\ ~Going(k)' /\ job'[i].gen = registry'[k]
      BY <1>1, <2>2, <2>5, <2>8, <3>2, RequestFacts
    <3> QED BY <3>1, <3>2 DEF Waiting
  <2>10. Numbered(k)
    <3>1. ASSUME NEW i \in Jobs, job'[i].pc = "replace", job'[i].id = k
          PROVE  job'[i].seen.gen <= clock' /\ (registry'[k] # 0 => job'[i].seen.gen <= registry'[k])
      BY <1>1, <2>2, <2>6, <2>8, <3>1, RequestFacts
    <3>2. \A i \in Jobs : job'[i].pc = "add" /\ job'[i].id = k => job'[i].gen = registry'[k]
      BY <1>1, <2>2, <2>8, RequestFacts
    <3> QED BY <1>1, <2>6, <3>1, <3>2 DEF Numbered
  <2>11. files' \in [Ids -> SUBSET Nat] /\ stray' \subseteq Ids
    BY <1>1 DEF FilesAll
  <2> QED BY <2>3, <2>4, <2>7, <2>9, <2>10, <2>11, FilesMove
<1> QED BY <1>1, <1>2, <1>3

LEMMA FilesTouchReplace ==
  ASSUME CatalogInv, FilesAll, NEW j \in Jobs, TouchReplace(j)
  PROVE  FilesAll'
<1> PICK k \in Ids : k = job[j].id
  BY RequestFacts DEF TouchReplace, At
<1> DEFINE r == job[j].seen
<1>1. /\ up = "serving" /\ job[j].pc = "replace" /\ UNCHANGED <<up, registry, files, stray, clock>> /\ End(j)
      /\ (k \in Listed /\ catalog' = [catalog EXCEPT ![k] = r]) \/ UNCHANGED catalog
  BY DEF TouchReplace, At, Save
<1>2. CASE UNCHANGED catalog
  BY <1>1, <1>2, FilesEnd
<1>3. CASE k \in Listed /\ catalog' = [catalog EXCEPT ![k] = r]
  <2>1. k \in Ids /\ catalog \in [Ids -> Record] /\ registry[k] # 0
    BY <1>1, <1>3, RequestFacts DEF CatalogInv, CatalogTypes, Agree
  <2>2. /\ r.gen \in Nat /\ r.gen <= clock /\ r.gen <= registry[k]
        /\ k \notin stray => \A g \in files[k] : g >= r.gen
    BY <1>1, <2>1, RequestFacts
  <2> HIDE DEF r
  <2>3. catalog'[k] = r /\ \A id \in Ids \ {k} : catalog'[id] = catalog[id]
    BY <1>3, <2>1
  <2>4. Idle.pc = "idle" /\ OpOK(Idle) /\ MoveOf(j, k, Idle)
    BY <1>1, <2>1, <2>3, RecordFacts, OneMoves DEF OpOK, GoingPoints, End, Elsewhere
  <2>5. Going(k)' => Going(k)
    <3>1. Idle.pc \notin GoingPoints
      BY <2>4 DEF GoingPoints
    <3> QED BY <2>4, <3>1, GoingFewer
  <2>6. /\ registry[k] \in Nat /\ clock \in Nat /\ registry[k] <= clock
        /\ k \notin stray /\ Going(k) => files[k] = {}
        /\ k \notin stray => \A g \in files[k] : g >= registry[k]
    BY <2>1, SessionFacts
  <2>7. k \in Listed'
    <3>1. r.gen # 0
      BY <1>1 DEF r, CatalogInv, JobOK
    <3> QED BY <2>1, <2>3, <3>1 DEF Listed, Unlisted
  <2>8. Clean(k)
    BY <1>1, <2>2, <2>3, <2>5, <2>6, <2>7 DEF Clean
  <2>9. \A i \in Jobs : job'[i].id = k /\ job'[i].pc # "idle" =>
          /\ i # j /\ job[i].pc = job'[i].pc /\ job[i].id = k /\ job[i].seen = job'[i].seen
          /\ job[i].gen = job'[i].gen /\ (~job'[i].late => ~job[i].late)
    BY <2>4 DEF MoveOf
  <2>10. Waiting(k)
    <3>1. ASSUME k \notin stray', NEW g \in files'[k], NEW i \in Jobs, job'[i].pc = "replace", job'[i].id = k
          PROVE  g >= job'[i].seen.gen
      BY <1>1, <2>9, <3>1, RequestFacts
    <3>2. ASSUME NEW i \in Jobs, job'[i].pc = "write", ~job'[i].late, job'[i].id = k
          PROVE  k \in Listed' /\ ~Going(k)' /\ job'[i].gen = registry'[k]
      BY <1>1, <2>5, <2>7, <2>9, <3>2, RequestFacts
    <3> QED BY <3>1, <3>2 DEF Waiting
  <2>11. Numbered(k)
    BY <1>1, <2>2, <2>3, <2>6, <2>9, RequestFacts DEF Numbered
  <2>12. files' \in [Ids -> SUBSET Nat] /\ stray' \subseteq Ids
    BY <1>1 DEF FilesAll
  <2> QED BY <2>4, <2>8, <2>10, <2>11, <2>12, FilesMove
<1> QED BY <1>1, <1>2, <1>3

\* A profile that is looked up while the Session is listed and stays is of that Session.
LEMMA FilesProfileCheck ==
  ASSUME CatalogInv, FilesAll, NEW j \in Jobs, ProfileCheck(j)
  PROVE  FilesAll'
<1> PICK k \in Ids : k = job[j].id
  BY RequestFacts DEF ProfileCheck, At
<1> DEFINE passing == Passing(k)
           x == [job[j] EXCEPT !.pc = "write", !.gen = registry[k], !.late = passing]
<1>1. /\ up = "serving" /\ job[j].pc = "exists" /\ UNCHANGED <<up, registry, catalog, files, stray, clock>>
      /\ job' = [job EXCEPT ![j] = x] \/ End(j)
  BY DEF ProfileCheck, At
<1>2. CASE End(j)
  BY <1>1, <1>2, FilesEnd
<1>3. CASE job' = [job EXCEPT ![j] = x]
  <2>1. job[j] \in JobType
    BY DEF CatalogInv, CatalogTypes
  <2>2. passing <=> k \notin Listed \/ Going(k)
    BY DEF Passing, Going
  <2> HIDE DEF passing
  <2>3. x.pc = "write" /\ x.id = k /\ x.gen = registry[k] /\ x.late = passing
    BY <2>1 DEF JobType
  <2> HIDE DEF x
  <2>4. OpOK(x) /\ x.pc \notin GoingPoints
    BY <2>3 DEF OpOK, GoingPoints
  <2>5. MoveOf(j, k, x)
    BY <1>1, <1>3, <2>3, OneMoves DEF Elsewhere
  <2>6. (Going(k)' => Going(k)) /\ (k \in Listed' <=> k \in Listed)
    <3>1. Going(k)' => Going(k)
      BY <2>4, <2>5, GoingFewer
    <3> QED BY <1>1, <3>1 DEF Listed
  <2>7. /\ registry[k] \in Nat /\ catalog[k].gen \in Nat /\ clock \in Nat /\ registry[k] <= clock
        /\ catalog[k].gen <= clock /\ (k \in Listed => catalog[k].gen <= registry[k])
        /\ k \notin stray /\ (k \notin Listed \/ Going(k)) => files[k] = {}
        /\ k \notin stray => \A g \in files[k] : g >= registry[k] /\ g >= catalog[k].gen
    BY <1>1, SessionFacts
  <2>8. Clean(k)
    BY <1>1, <2>6, <2>7 DEF Clean
  <2>9. \A i \in Jobs : job'[i].id = k /\ job'[i].pc # "idle" =>
          \/ i = j /\ job'[i] = x
          \/ /\ job[i].pc = job'[i].pc /\ job[i].id = k /\ job[i].seen = job'[i].seen
             /\ job[i].gen = job'[i].gen /\ (~job'[i].late => ~job[i].late)
    BY <2>5 DEF MoveOf
  <2>10. Waiting(k)
    <3>1. ASSUME k \notin stray', NEW g \in files'[k], NEW i \in Jobs, job'[i].pc = "replace", job'[i].id = k
          PROVE  g >= job'[i].seen.gen
      BY <1>1, <2>3, <2>9, <3>1, RequestFacts
    <3>2. ASSUME NEW i \in Jobs, job'[i].pc = "write", ~job'[i].late, job'[i].id = k
          PROVE  k \in Listed' /\ ~Going(k)' /\ job'[i].gen = registry'[k]
      BY <1>1, <2>2, <2>3, <2>6, <2>9, <3>2, RequestFacts
    <3> QED BY <3>1, <3>2 DEF Waiting
  <2>11. Numbered(k)
    <3>1. ASSUME NEW i \in Jobs, job'[i].pc = "replace", job'[i].id = k
          PROVE  job'[i].seen.gen <= clock' /\ (registry'[k] # 0 => job'[i].seen.gen <= registry'[k])
      BY <1>1, <2>3, <2>7, <2>9, <3>1, RequestFacts
    <3>2. \A i \in Jobs : job'[i].pc = "add" /\ job'[i].id = k => job'[i].gen = registry'[k]
      BY <1>1, <2>3, <2>9, RequestFacts
    <3> QED BY <1>1, <2>6, <2>7, <3>1, <3>2 DEF Numbered
  <2>12. files' \in [Ids -> SUBSET Nat] /\ stray' \subseteq Ids
    BY <1>1 DEF FilesAll
  <2> QED BY <2>4, <2>5, <2>8, <2>10, <2>11, <2>12, FilesMove
<1> QED BY <1>1, <1>2, <1>3

\* A file is of the Session that is registered, or its directory counts as stray.
LEMMA FilesProfileWrite ==
  ASSUME CatalogInv, FilesAll, NEW j \in Jobs, ProfileWrite(j)
  PROVE  FilesAll'
<1> PICK k \in Ids : k = job[j].id
  BY RequestFacts DEF ProfileWrite, At
<1> DEFINE more == files[k] \cup {job[j].gen}
<1>1. /\ up = "serving" /\ job[j].pc = "write" /\ UNCHANGED <<up, registry, catalog, clock>> /\ End(j)
      /\ files' = [files EXCEPT ![k] = more]
      /\ IF job[j].late \/ k \notin Listed \/ Going(k) THEN stray' = stray \cup {k} ELSE stray' = stray
  BY DEF ProfileWrite, At, Passing, Going
<1>2. /\ files \in [Ids -> SUBSET Nat] /\ stray \subseteq Ids /\ job[j].gen \in Nat
      /\ more \in SUBSET Nat /\ \A g \in more : g \in files[k] \/ g = job[j].gen
  <2>1. job[j].gen \in Nat
    BY DEF CatalogInv, CatalogTypes, JobType
  <2> QED BY <2>1 DEF FilesAll
<1> HIDE DEF more
<1>3. /\ files' \in [Ids -> SUBSET Nat] /\ files'[k] = more /\ \A id \in Ids \ {k} : files'[id] = files[id]
      /\ stray' \subseteq Ids /\ \A id \in Ids \ {k} : id \in stray' <=> id \in stray
  BY <1>1, <1>2
<1>4. Idle.pc = "idle" /\ OpOK(Idle) /\ Idle.pc \notin GoingPoints /\ MoveOf(j, k, Idle)
  BY <1>1, <1>3, RecordFacts, OneMoves DEF OpOK, GoingPoints, End, Elsewhere
<1>5. (Going(k)' => Going(k)) /\ (k \in Listed' <=> k \in Listed)
  <2>1. Going(k)' => Going(k)
    BY <1>4, GoingFewer
  <2> QED BY <1>1, <2>1 DEF Listed
<1>6. /\ registry[k] \in Nat /\ catalog[k].gen \in Nat /\ clock \in Nat /\ registry[k] <= clock
      /\ catalog[k].gen <= clock /\ (k \in Listed => catalog[k].gen <= registry[k])
      /\ k \notin stray => \A g \in files[k] : g >= registry[k] /\ g >= catalog[k].gen
  BY <1>1, SessionFacts
<1>7. k \notin stray' => k \notin stray /\ ~job[j].late /\ k \in Listed /\ ~Going(k) /\ job[j].gen = registry[k]
  BY <1>1, RequestFacts
<1>8. Clean(k)
  BY <1>1, <1>2, <1>3, <1>5, <1>6, <1>7 DEF Clean
<1>9. \A i \in Jobs : job'[i].id = k /\ job'[i].pc # "idle" =>
        /\ i # j /\ job[i].pc = job'[i].pc /\ job[i].id = k /\ job[i].seen = job'[i].seen
        /\ job[i].gen = job'[i].gen /\ (~job'[i].late => ~job[i].late)
  BY <1>4 DEF MoveOf
<1>10. Waiting(k)
  <2>1. ASSUME k \notin stray', NEW g \in files'[k], NEW i \in Jobs, job'[i].pc = "replace", job'[i].id = k
        PROVE  g >= job'[i].seen.gen
    <3>1. job[i].pc = "replace" /\ job[i].id = k /\ job'[i].seen = job[i].seen /\ registry[k] # 0
      BY <1>1, <1>7, <1>9, <2>1 DEF CatalogInv, Agree
    <3>2. /\ job[i].seen.gen \in Nat /\ job[i].seen.gen <= registry[k]
          /\ \A n \in files[k] : n >= job[i].seen.gen
      BY <1>7, <2>1, <3>1, RequestFacts
    <3> QED BY <1>2, <1>3, <1>6, <1>7, <2>1, <3>1, <3>2
  <2>2. ASSUME NEW i \in Jobs, job'[i].pc = "write", ~job'[i].late, job'[i].id = k
        PROVE  k \in Listed' /\ ~Going(k)' /\ job'[i].gen = registry'[k]
    BY <1>1, <1>5, <1>9, <2>2, RequestFacts
  <2> QED BY <2>1, <2>2 DEF Waiting
<1>11. Numbered(k)
  BY <1>1, <1>5, <1>6, <1>9, RequestFacts DEF Numbered
<1> QED BY <1>3, <1>4, <1>8, <1>10, <1>11, FilesMove

-----------------------------------------------------------------------------
\* The host.

LEMMA FilesStart == SettingsInit => FilesAll
<1> SUFFICES ASSUME SettingsInit PROVE FilesAll
  OBVIOUS
<1>1. /\ up = "import" /\ registry = [id \in Ids |-> 0] /\ catalog = [id \in Ids |-> Unlisted]
      /\ files = [id \in Ids |-> {}] /\ job = [j \in Jobs |-> Idle] /\ clock = 1 /\ stray = {}
  BY DEF SettingsInit, Init
<1>2. \A j \in Jobs : job[j].pc = "idle"
  BY <1>1, RecordFacts
<1> QED BY <1>1, <1>2 DEF FilesAll, OpOK, GoingPoints, GenerationInv, FilesInv, Unlisted

\* Nobody holds anything while the host is not serving.
LEMMA FilesHost ==
  ASSUME CatalogInv, FilesAll, Host \/ Crash
  PROVE  FilesAll'
<1>1. /\ clock \in Nat /\ \A id \in Ids : registry[id] \in Nat /\ catalog[id].gen \in Nat
      /\ \A id \in Ids : registry[id] <= clock /\ catalog[id].gen <= clock
  BY DEF CatalogInv, CatalogTypes, Record, FilesAll, GenerationInv
<1>2. UNCHANGED <<files, stray>>
  BY DEF Host, Import, Rehydrate, Restart, Crash
<1>3. \A j \in Jobs : job'[j].pc = "idle"
  <2>1. CASE Host
    BY <2>1 DEF Host, Import, Rehydrate, Restart, CatalogInv
  <2>2. CASE Crash
    BY <2>2, RecordFacts DEF Crash
  <2> QED BY <2>1, <2>2
<1>4. (\A j \in Jobs : OpOK(job[j]))' /\ \A id \in Ids : ~Going(id)'
  BY <1>3 DEF OpOK, GoingPoints, Going
<1>5. \A id \in Ids \ stray : /\ id \notin Listed => files[id] = {}
                              /\ \A g \in files[id] : g \in Nat /\ g >= registry[id] /\ g >= catalog[id].gen
  BY DEF FilesAll, FilesInv
<1>6. SUFFICES ASSUME NEW id \in Ids
      PROVE  /\ registry'[id] <= clock' /\ catalog'[id].gen <= clock'
             /\ up' = "serving" /\ id \in Listed' => catalog'[id].gen <= registry'[id]
             /\ id \notin stray' => /\ id \notin Listed' => files'[id] = {}
                                    /\ \A g \in files'[id] : g >= registry'[id] /\ g >= catalog'[id].gen
  <2>1. \A id \in Listed' : id \in Ids
    BY DEF Listed
  <2>2. GenerationInv'
    BY <1>3, <1>6, <2>1 DEF GenerationInv
  <2>3. FilesInv'
    BY <1>3, <1>4, <1>6 DEF FilesInv
  <2> QED BY <1>2, <1>4, <2>2, <2>3 DEF FilesAll
<1>7. CASE Import
  <2>1. /\ up' = "rehydrate" /\ registry' = registry
        /\ \/ UNCHANGED <<catalog, clock>>
           \/ /\ catalog'[id] = IF id \in index \ Listed THEN [gen |-> clock + 1, name |-> 0] ELSE catalog[id]
              /\ clock' = clock + 1
    BY <1>7 DEF Import
  <2>2. CASE UNCHANGED <<catalog, clock>>
    BY <1>1, <1>2, <1>5, <2>1, <2>2 DEF Listed
  <2>3. CASE id \in index \ Listed /\ clock' = clock + 1 /\ catalog'[id] = [gen |-> clock + 1, name |-> 0]
    <3>1. catalog'[id].gen = clock + 1 /\ (id \notin stray => files[id] = {})
      BY <1>5, <2>3
    <3> QED BY <1>1, <1>2, <2>1, <3>1
  <2>4. CASE id \notin index \ Listed /\ clock' = clock + 1 /\ catalog'[id] = catalog[id]
    <3>1. id \in Listed' <=> id \in Listed
      BY <2>4 DEF Listed
    <3> QED BY <1>1, <1>2, <1>5, <2>1, <2>4, <3>1
  <2> QED BY <2>1, <2>2, <2>3, <2>4
<1>8. CASE Rehydrate
  <2>1. /\ UNCHANGED <<catalog, clock>>
        /\ registry'[id] = catalog[id].gen \/ (up' = "down" /\ registry' = registry)
    BY <1>8 DEF Rehydrate
  <2> QED BY <1>1, <1>2, <1>5, <2>1 DEF Listed
<1>9. CASE Restart
  BY <1>1, <1>2, <1>5, <1>9 DEF Restart, Listed
<1>10. CASE Crash
  <2>1. up' = "down" /\ registry'[id] = 0 /\ UNCHANGED <<catalog, clock>>
    BY <1>10 DEF Crash
  <2> QED BY <1>1, <1>2, <1>5, <2>1 DEF Listed
<1> QED BY <1>7, <1>8, <1>9, <1>10 DEF Host

LEMMA FilesStep ==
  ASSUME CatalogInv, FilesAll, [Next]_vars
  PROVE  FilesAll'
<1>1. CASE UNCHANGED catalogued
  BY <1>1 DEF catalogued, FilesAll, OpOK, GenerationInv, FilesInv, Going, Listed
<1>2. CASE UNCHANGED vars
  BY <1>1, <1>2 DEF vars, sessions
<1>3. ASSUME NEW k \in Clerks, \/ Clerk(k)
                               \/ \E c \in Connectors : CreateConnector(k, c) \/ ReplaceConnector(k, c) \/ RemoveConnector(k, c)
                               \/ \E id \in Ids, c \in Connectors \cup {NoConnector} : Prefer(k, id, c)
      PROVE  FilesAll'
  <2>1. UNCHANGED catalogued
    BY <1>3 DEF Clerk, KeepSecret, WriteSecret, Unlink, ClearDefaults, StorePreference, CreateConnector,
                ReplaceConnector, RemoveConnector, Prefer, sessions
  <2> QED BY <1>1, <2>1
<1>4. ASSUME NEW r \in Runners, (\E id \in Ids : Admit(r, id)) \/ Select(r) \/ ReadKey(r) \/ ReadEndpoint(r)
      PROVE  FilesAll'
  <2>1. UNCHANGED catalogued
    BY <1>4 DEF Admit, Select, ReadKey, ReadEndpoint, Gets, sessions
  <2> QED BY <1>1, <2>1
<1>5. CASE SettingsCrash
  BY <1>5, FilesHost DEF SettingsCrash
<1>6. ASSUME NEW j \in Jobs, Rename(j) \/ TouchRead(j) \/ TouchReplace(j) \/ ProfileCheck(j) \/ ProfileWrite(j)
      PROVE  FilesAll'
  BY <1>6, FilesRename, FilesTouchRead, FilesTouchReplace, FilesProfileCheck, FilesProfileWrite
<1> QED BY <1>2, <1>3, <1>4, <1>5, <1>6, FilesHost, FilesAsk, FilesCreate, FilesDelete DEF Next

\* A Session has files of its own generation only, whatever is created, deleted,
\* renamed and configured at the same time, unless a request wrote into the
\* directory while a Session was being made or deleted (delete, touch_activity).
THEOREM FilesStayWithSession == Spec => []FilesBelongToSession
<1>1. FilesAll => FilesBelongToSession
  BY DEF FilesAll, FilesInv, FilesBelongToSession, Listed
<1>2. (CatalogInv /\ FilesAll) /\ [Next]_vars => (CatalogInv /\ FilesAll)'
  BY CatalogStep, FilesStep
<1> QED BY CatalogStart, FilesStart, <1>1, <1>2, PTL DEF Spec
=============================================================================
