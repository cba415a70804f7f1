----------------------------- MODULE ExtensionProofs -----------------------------
(***************************************************************************)
(* Theorems about what extends the host, the plugin manager for any        *)
(* plugins, packages, requests, edits and restarts, and an inspection of   *)
(* an external Agent for any number of definitions, editors, inspections,  *)
(* lines and exits of the server.                                          *)
(***************************************************************************)
EXTENDS PluginManagerProps, ExternalAgentHubProps, TLAPS

JobFields == {"pc", "op", "name", "record", "version", "count", "value"}
RecordFields == {"path", "enabled", "granted", "settings"}

-----------------------------------------------------------------------------
\* What runs was confirmed.

\* A record of n, in the document or in a request, grants what was confirmed.
Granted(r, n) == DOMAIN r = RecordFields /\ r.granted \subseteq confirmed[n]

Confirmed(v, n) == v \in Versions /\ v.permissions \subseteq confirmed[n]

\* The points at which a request has read its record, and those at which it
\* has chosen the package it will run.
HasRecord == {"refresh", "check", "put", "setup", "publish", "keep", "withdraw", "disable"}
Chosen == {"setup", "publish", "keep"}

JobConfirmed(j) ==
  /\ DOMAIN j = JobFields
  /\ j.pc # "idle" => j.name \in Names
  /\ j.pc \in HasRecord => Granted(j.record, j.name)
  /\ j.pc \in Chosen => Confirmed(j.version, j.name)

ConfirmedInv ==
  /\ DOMAIN registry = Names /\ DOMAIN loaded = Names /\ DOMAIN confirmed = Names /\ DOMAIN job = Workers
  /\ restoring \subseteq Names
  /\ \A n \in Names : registry[n] = NoRecord \/ Granted(registry[n], n)
  /\ \A n \in Names : loaded[n] = NotLoaded \/ Confirmed(loaded[n].version, n)
  /\ \A t \in Workers : JobConfirmed(job[t])

LEMMA IdleFacts == DOMAIN Idle = JobFields /\ Idle.pc = "idle" /\ Idle.op = "load" /\ Idle.count = 0
BY DEF Idle, JobFields

LEMMA IdleConfirmed == JobConfirmed(Idle)
BY IdleFacts DEF JobConfirmed, HasRecord, Chosen

LEMMA NewGranted == ASSUME NEW p, NEW n PROVE Granted(NewRecord(p), n)
BY DEF Granted, NewRecord, RecordFields

LEMMA ConfirmedStart == Init => ConfirmedInv
<1> SUFFICES ASSUME Init PROVE ConfirmedInv
  OBVIOUS
<1>1. registry \in [Names -> {NoRecord, NewRecord(1)}] /\ loaded = [n \in Names |-> NotLoaded]
      /\ confirmed = [n \in Names |-> {}] /\ job = [w \in Workers |-> Idle] /\ restoring = {}
  BY DEF Init
<1>2. \A n \in Names : registry[n] = NoRecord \/ Granted(registry[n], n)
  BY <1>1, NewGranted
<1> QED BY <1>1, <1>2, IdleConfirmed DEF ConfirmedInv

\* A request moves; the rest of what runs stays.
LEMMA ConfirmedMoves ==
  ASSUME ConfirmedInv, NEW t \in Workers, NEW x, JobConfirmed(x), job' = [job EXCEPT ![t] = x],
         UNCHANGED <<loaded, confirmed, restoring>>,
         \/ registry' = registry
         \/ \E n \in Names : \E r : Granted(r, n) /\ registry' = [registry EXCEPT ![n] = r]
  PROVE  ConfirmedInv'
<1>1. DOMAIN registry' = Names /\ DOMAIN job' = Workers
  BY DEF ConfirmedInv
<1>2. \A n \in Names : registry'[n] = NoRecord \/ Granted(registry'[n], n)
  BY DEF ConfirmedInv
<1>3. \A w \in Workers : JobConfirmed(job'[w])
  BY DEF ConfirmedInv
<1> QED BY <1>1, <1>2, <1>3 DEF ConfirmedInv, JobConfirmed, Granted, Confirmed

LEMMA EndsConfirmed ==
  ASSUME ConfirmedInv, NEW t \in Workers, Ends(t), UNCHANGED <<loaded, confirmed, restoring>>,
         \/ registry' = registry
         \/ \E n \in Names : \E r : Granted(r, n) /\ registry' = [registry EXCEPT ![n] = r]
  PROVE  ConfirmedInv'
BY IdleConfirmed, ConfirmedMoves DEF Ends

LEMMA ConfirmedRequests ==
  ASSUME ConfirmedInv, NEW t \in Workers,
         Ask(t) \/ Enter(t) \/ Read(t) \/ Refresh(t) \/ PutRegistered(t) \/ NoManifest(t) \/ ReplaceSettings(t)
  PROVE  ConfirmedInv'
<1> DEFINE j == job[t]
<1>1. JobConfirmed(j) /\ (job[t].pc # "idle" => j.name \in Names)
  BY DEF ConfirmedInv, JobConfirmed
<1>2. CASE Ask(t)
  <2>1. PICK n \in Names, op \in Locked \cup {"settings", "register"}, x \in Values :
          job' = [job EXCEPT ![t] = [Idle EXCEPT !.pc = IF op \in Locked THEN "lock" ELSE "read",
                                                 !.op = op, !.name = n, !.value = x]]
    BY <1>2 DEF Ask
  <2> DEFINE y == [Idle EXCEPT !.pc = IF op \in Locked THEN "lock" ELSE "read", !.op = op, !.name = n, !.value = x]
  <2>2. DOMAIN y = JobFields /\ y.pc \in {"lock", "read"} /\ y.name = n
    BY IdleFacts DEF JobFields
  <2> HIDE DEF y
  <2>3. JobConfirmed(y)
    BY <2>2 DEF JobConfirmed, HasRecord, Chosen
  <2>4. UNCHANGED <<loaded, confirmed, registry, restoring>>
    BY <1>2 DEF Ask, process
  <2> QED BY <2>1, <2>3, <2>4, ConfirmedMoves DEF y
<1>3. CASE Enter(t)
  <2> DEFINE y == [j EXCEPT !.pc = "read"]
  <2>1. job' = [job EXCEPT ![t] = y] /\ j.pc = "lock" /\ UNCHANGED <<loaded, confirmed, registry, restoring>>
    BY <1>3 DEF Enter, ConfirmedInv
  <2>2. JobConfirmed(y)
    BY <1>1, <2>1 DEF JobConfirmed, JobFields, HasRecord, Chosen
  <2> HIDE DEF y
  <2> QED BY <2>1, <2>2, ConfirmedMoves
<1>4. CASE Read(t)
  <2> DEFINE old == registry[j.name]
             moved == IF old = NoRecord THEN NewRecord(Discovered(j.name)) ELSE [old EXCEPT !.path = Discovered(j.name)]
  <2>1. j.pc = "read" /\ j.name \in Names /\ UNCHANGED <<loaded, confirmed, registry, restoring>>
    BY <1>1, <1>4 DEF Read
  <2>2. \/ Ends(t)
        \/ old # NoRecord /\ job' = [job EXCEPT ![t] = [j EXCEPT !.pc = "refresh", !.record = old]]
        \/ job' = [job EXCEPT ![t] = [j EXCEPT !.pc = "put", !.record = moved]]
    BY <1>4 DEF Read, Goes
  <2>3. old = NoRecord \/ Granted(old, j.name)
    BY <2>1 DEF ConfirmedInv
  <2>4. Granted(moved, j.name)
    <3>1. CASE old = NoRecord
      BY <3>1, NewGranted
    <3>2. CASE old # NoRecord
      BY <2>3, <3>2 DEF Granted, RecordFields
    <3> QED BY <3>1, <3>2
  <2>5. ASSUME NEW q \in {"refresh", "put"}, NEW r, Granted(r, j.name)
        PROVE  JobConfirmed([j EXCEPT !.pc = q, !.record = r])
    <3> DEFINE y == [j EXCEPT !.pc = q, !.record = r]
    <3>1. DOMAIN y = JobFields /\ y.pc = q /\ y.record = r /\ y.name = j.name
      BY <1>1 DEF JobConfirmed, JobFields
    <3> HIDE DEF y
    <3>2. JobConfirmed(y)
      BY <2>1, <2>5, <3>1 DEF JobConfirmed, HasRecord, Chosen
    <3> QED BY <3>2 DEF y
  <2> HIDE DEF moved, old
  <2> QED BY <2>1, <2>2, <2>3, <2>4, <2>5, EndsConfirmed, ConfirmedMoves
<1>5. CASE Refresh(t)
  <2> DEFINE moved == [j.record EXCEPT !.path = Discovered(j.name)]
  <2>1. j.pc = "refresh" /\ j.name \in Names /\ Granted(j.record, j.name) /\ UNCHANGED <<loaded, confirmed, restoring>>
    BY <1>1, <1>5 DEF Refresh, JobConfirmed, HasRecord
  <2>2. \/ job' = [job EXCEPT ![t] = [j EXCEPT !.pc = "check"]] /\ registry' = registry
        \/ /\ job' = [job EXCEPT ![t] = [j EXCEPT !.pc = "check", !.record = moved]]
           /\ registry' = [registry EXCEPT ![j.name] = moved]
        \/ Ends(t) /\ registry' = registry
    BY <1>5 DEF Refresh, Goes
  <2>3. Granted(moved, j.name)
    BY <2>1 DEF Granted, RecordFields
  <2>4. JobConfirmed([j EXCEPT !.pc = "check"])
    BY <1>1, <2>1 DEF JobConfirmed, JobFields, HasRecord, Chosen
  <2>5. JobConfirmed([j EXCEPT !.pc = "check", !.record = moved])
    <3> DEFINE y == [j EXCEPT !.pc = "check", !.record = moved]
    <3> HIDE DEF moved
    <3>1. DOMAIN y = JobFields /\ y.pc = "check" /\ y.record = moved /\ y.name = j.name
      BY <1>1 DEF JobConfirmed, JobFields
    <3> HIDE DEF y
    <3>2. JobConfirmed(y)
      BY <2>1, <2>3, <3>1 DEF JobConfirmed, HasRecord, Chosen
    <3> QED BY <3>2 DEF y
  <2> HIDE DEF moved
  <2>6. CASE job' = [job EXCEPT ![t] = [j EXCEPT !.pc = "check"]] /\ registry' = registry
    BY <2>1, <2>4, <2>6, ConfirmedMoves
  <2>7. CASE /\ job' = [job EXCEPT ![t] = [j EXCEPT !.pc = "check", !.record = moved]]
             /\ registry' = [registry EXCEPT ![j.name] = moved]
    BY <2>1, <2>3, <2>5, <2>7, ConfirmedMoves
  <2> QED BY <2>1, <2>2, <2>6, <2>7, EndsConfirmed
<1>6. CASE PutRegistered(t)
  <2>1. j.pc = "put" /\ Ends(t) /\ UNCHANGED <<loaded, confirmed, restoring>>
        /\ (registry' = [registry EXCEPT ![j.name] = j.record] \/ registry' = registry)
    BY <1>6 DEF PutRegistered
  <2>2. j.name \in Names /\ Granted(j.record, j.name)
    BY <1>1, <2>1 DEF JobConfirmed, HasRecord
  <2> QED BY <2>1, <2>2, EndsConfirmed
<1>7. CASE NoManifest(t)
  BY <1>7, EndsConfirmed DEF NoManifest
<1>8. CASE ReplaceSettings(t)
  <2> DEFINE r == [j.record EXCEPT !.settings = j.value]
  <2>1. j.pc = "check" /\ Ends(t) /\ UNCHANGED <<loaded, confirmed, restoring>>
        /\ (registry' = [registry EXCEPT ![j.name] = r] \/ registry' = registry)
    BY <1>8 DEF ReplaceSettings
  <2>2. j.name \in Names /\ Granted(j.record, j.name)
    BY <1>1, <2>1 DEF JobConfirmed, HasRecord
  <2>3. Granted(r, j.name)
    BY <2>2 DEF Granted, RecordFields
  <2> HIDE DEF r
  <2> QED BY <2>1, <2>2, <2>3, EndsConfirmed
<1> QED BY <1>2, <1>3, <1>4, <1>5, <1>6, <1>7, <1>8

LEMMA LoadedFacts ==
  ASSUME NEW v, NEW s
  PROVE  [version |-> v, settings |-> s] # NotLoaded /\ [version |-> v, settings |-> s].version = v
<1>1. DOMAIN [version |-> v, settings |-> s] # DOMAIN NotLoaded
  BY DEF NotLoaded
<1> QED BY <1>1

\* An approval grants what the manifest asks for, with what the user confirms.
LEMMA ApproveConfirmed ==
  ASSUME ConfirmedInv, NEW t \in Workers, Approve(t)
  PROVE  ConfirmedInv'
<1> DEFINE j == job[t]
           v == Manifest(j)
           lacking == Lacking(j)
           granted == [j.record EXCEPT !.enabled = TRUE, !.granted = @ \cup lacking]
           next == IF v.kind = "tool" THEN "setup" ELSE "keep"
           y == [j EXCEPT !.pc = next, !.record = granted, !.version = v]
<1>1. JobConfirmed(j)
  BY DEF ConfirmedInv
<1>2. j.pc = "check" /\ v \in Versions /\ UNCHANGED <<loaded, restoring>>
  BY DEF Approve
<1>3. j.name \in Names /\ Granted(j.record, j.name)
  BY <1>1, <1>2 DEF JobConfirmed, HasRecord
<1>4. CASE Ends(t) /\ UNCHANGED <<registry, confirmed>>
  BY <1>2, <1>4, EndsConfirmed
<1>5. CASE /\ lacking = {} \/ j.op = "confirm"
           /\ registry' = [registry EXCEPT ![j.name] = granted]
           /\ confirmed' = [confirmed EXCEPT ![j.name] = IF j.op = "confirm" THEN @ \cup lacking ELSE @]
           /\ Ends(t) \/ job' = [job EXCEPT ![t] = y]
  <2>1. lacking = v.permissions \ j.record.granted
    BY DEF Lacking
  <2>2. DOMAIN granted = RecordFields /\ granted.granted = j.record.granted \cup lacking
    BY <1>3 DEF Granted, RecordFields
  <2> HIDE DEF granted, lacking, v
  <2>3. /\ DOMAIN confirmed' = Names /\ \A n \in Names : confirmed[n] \subseteq confirmed'[n]
        /\ granted.granted \subseteq confirmed'[j.name] /\ v.permissions \subseteq confirmed'[j.name]
    BY <1>3, <1>5, <2>1, <2>2 DEF ConfirmedInv, Granted
  <2>5. ASSUME NEW n \in Names
        PROVE  registry'[n] = NoRecord \/ (DOMAIN registry'[n] = RecordFields /\ registry'[n].granted \subseteq confirmed'[n])
    <3>1. CASE n = j.name
      BY <1>3, <1>5, <2>2, <2>3, <3>1 DEF ConfirmedInv
    <3>2. CASE n # j.name
      <4>1. registry'[n] = registry[n]
        BY <1>5, <3>2 DEF ConfirmedInv
      <4>2. confirmed[n] \subseteq confirmed'[n]
        BY <2>3
      <4> QED BY <4>1, <4>2 DEF ConfirmedInv, Granted
    <3> QED BY <3>1, <3>2
  <2>6. \A w \in Names : loaded[w] = NotLoaded \/ (loaded[w].version \in Versions /\ loaded[w].version.permissions \subseteq confirmed'[w])
    BY <2>3 DEF ConfirmedInv, Confirmed
  <2>7. \A w \in Workers : JobConfirmed(job[w])'
    <3> DEFINE Good(x) == /\ DOMAIN x = JobFields
                          /\ x.pc # "idle" => x.name \in Names
                          /\ x.pc \in HasRecord => DOMAIN x.record = RecordFields /\ x.record.granted \subseteq confirmed'[x.name]
                          /\ x.pc \in Chosen => x.version \in Versions /\ x.version.permissions \subseteq confirmed'[x.name]
    <3>1. ASSUME NEW x, JobConfirmed(x)
          PROVE  Good(x)
      BY <2>3, <3>1 DEF JobConfirmed, Granted, Confirmed, HasRecord, Chosen
    <3>2. Good(Idle)
      BY <3>1, IdleConfirmed
    <3>3. Good(y)
      <4>1. next \in {"setup", "keep"}
        OBVIOUS
      <4> HIDE DEF next
      <4>2. DOMAIN y = JobFields /\ y.pc = next /\ y.record = granted /\ y.version = v /\ y.name = j.name
        BY <1>1 DEF JobConfirmed, JobFields
      <4> HIDE DEF y
      <4> QED BY <1>2, <1>3, <2>2, <2>3, <4>1, <4>2 DEF HasRecord, Chosen, v
    <3>4. \A w \in Workers : Good(job[w])
      BY <3>1 DEF ConfirmedInv
    <3> HIDE DEF y, Good
    <3>5. \A w \in Workers : Good(job'[w])
      BY <1>5, <3>2, <3>3, <3>4 DEF Ends, ConfirmedInv
    <3> QED BY <3>5 DEF Good, JobConfirmed, Granted, Confirmed
  <2>8. DOMAIN registry' = Names /\ DOMAIN job' = Workers
    BY <1>5 DEF ConfirmedInv, Ends
  <2> QED BY <1>2, <2>3, <2>5, <2>6, <2>7, <2>8 DEF ConfirmedInv, Granted, Confirmed
<1> QED BY <1>4, <1>5 DEF Approve, Goes

LEMMA ConfirmedLoads ==
  ASSUME ConfirmedInv, NEW t \in Workers,
         SetUp(t) \/ Publish(t) \/ Rollback(t) \/ Unregister(t) \/ TearDown(t) \/ Disable(t)
  PROVE  ConfirmedInv'
<1> DEFINE j == job[t]
<1>1. JobConfirmed(j) /\ UNCHANGED <<loaded, confirmed, restoring>>
  BY DEF ConfirmedInv, SetUp, Publish, Rollback, Unregister, TearDown, Disable
<1>2. CASE SetUp(t)
  <2>1. j.pc = "setup" /\ registry' = registry /\ (Ends(t) \/ job' = [job EXCEPT ![t] = [j EXCEPT !.pc = "publish"]])
    BY <1>2 DEF SetUp, Goes
  <2>2. JobConfirmed([j EXCEPT !.pc = "publish"])
    BY <1>1, <2>1 DEF JobConfirmed, JobFields, HasRecord, Chosen
  <2> QED BY <1>1, <2>1, <2>2, EndsConfirmed, ConfirmedMoves
<1>3. CASE Publish(t) \/ Unregister(t)
  <2> DEFINE y == [j EXCEPT !.count = @ + 1]
  <2>1. job' = [job EXCEPT ![t] = y] /\ registry' = registry
    BY <1>3 DEF Publish, Unregister, Goes
  <2>2. JobConfirmed(y)
    BY <1>1 DEF JobConfirmed, JobFields
  <2> HIDE DEF y
  <2> QED BY <1>1, <2>1, <2>2, ConfirmedMoves
<1>4. CASE Rollback(t)
  BY <1>1, <1>4, EndsConfirmed DEF Rollback
<1>5. CASE TearDown(t)
  <2>1. j.pc = "withdraw" /\ registry' = registry /\ job' = [job EXCEPT ![t] = [j EXCEPT !.pc = "disable"]]
    BY <1>5 DEF TearDown, Goes
  <2>2. JobConfirmed([j EXCEPT !.pc = "disable"])
    BY <1>1, <2>1 DEF JobConfirmed, JobFields, HasRecord, Chosen
  <2> QED BY <1>1, <2>1, <2>2, ConfirmedMoves
<1>6. CASE Disable(t)
  <2> DEFINE r == [j.record EXCEPT !.enabled = FALSE]
  <2>1. j.pc = "disable" /\ Ends(t) /\ (registry' = [registry EXCEPT ![j.name] = r] \/ registry' = registry)
    BY <1>6 DEF Disable
  <2>2. j.name \in Names /\ Granted(j.record, j.name)
    BY <1>1, <2>1 DEF JobConfirmed, HasRecord
  <2>3. Granted(r, j.name)
    BY <2>2 DEF Granted, RecordFields
  <2> HIDE DEF r
  <2> QED BY <1>1, <2>1, <2>2, <2>3, EndsConfirmed
<1> QED BY <1>2, <1>3, <1>4, <1>5, <1>6

LEMMA ConfirmedKeeps ==
  ASSUME ConfirmedInv, NEW t \in Workers, Keep(t) \/ Pop(t)
  PROVE  ConfirmedInv'
<1> DEFINE j == job[t]
<1>1. JobConfirmed(j) /\ UNCHANGED <<registry, confirmed, restoring>>
  BY DEF ConfirmedInv, Keep, Pop
<1>2. CASE Keep(t)
  <2> DEFINE l == [version |-> j.version, settings |-> j.record.settings]
  <2>1. j.pc \in {"keep", "publish"} /\ Ends(t) /\ loaded' = [loaded EXCEPT ![j.name] = l]
    BY <1>2 DEF Keep
  <2>2. j.name \in Names /\ Confirmed(l.version, j.name)
    BY <1>1, <2>1 DEF JobConfirmed, Chosen
  <2> HIDE DEF l
  <2>3. \A n \in Names : loaded'[n] = NotLoaded \/ Confirmed(loaded'[n].version, n)
    BY <2>1, <2>2 DEF ConfirmedInv
  <2>4. \A w \in Workers : JobConfirmed(job'[w])
    BY <2>1, IdleConfirmed DEF Ends, ConfirmedInv
  <2>5. DOMAIN loaded' = Names /\ DOMAIN job' = Workers
    BY <2>1 DEF Ends, ConfirmedInv
  <2> QED BY <1>1, <2>3, <2>4, <2>5 DEF ConfirmedInv, JobConfirmed, Granted, Confirmed
<1>3. CASE Pop(t)
  <2> DEFINE old == loaded[j.name]
  <2>1. /\ j.pc = "check" /\ loaded' = [loaded EXCEPT ![j.name] = NotLoaded]
        /\ \/ job' = [job EXCEPT ![t] = [j EXCEPT !.pc = "disable"]]
           \/ job' = [job EXCEPT ![t] = [j EXCEPT !.pc = "withdraw", !.version = old.version]]
    BY <1>3 DEF Pop, Goes
  <2>2. JobConfirmed([j EXCEPT !.pc = "disable"])
    BY <1>1, <2>1 DEF JobConfirmed, JobFields, HasRecord, Chosen
  <2>3. JobConfirmed([j EXCEPT !.pc = "withdraw", !.version = old.version])
    BY <1>1, <2>1 DEF JobConfirmed, JobFields, HasRecord, Chosen
  <2>4. \A w \in Workers : JobConfirmed(job'[w])
    BY <2>1, <2>2, <2>3 DEF ConfirmedInv
  <2>5. \A n \in Names : loaded'[n] = NotLoaded \/ Confirmed(loaded'[n].version, n)
    BY <2>1 DEF ConfirmedInv
  <2>6. DOMAIN loaded' = Names /\ DOMAIN job' = Workers
    BY <2>1 DEF ConfirmedInv
  <2> QED BY <1>1, <2>4, <2>5, <2>6 DEF ConfirmedInv, JobConfirmed, Granted, Confirmed
<1> QED BY <1>2, <1>3

LEMMA ConfirmedStep ==
  ASSUME ConfirmedInv, [Next]_vars
  PROVE  ConfirmedInv'
<1>1. CASE UNCHANGED <<registry, loaded, confirmed, job, restoring>>
  BY <1>1 DEF ConfirmedInv, JobConfirmed, Granted, Confirmed
<1>2. CASE UNCHANGED vars \/ EditPackage \/ Fingerprint \/ Materialize \/ MaterializeRaises \/ MaterializeContext
  BY <1>1, <1>2 DEF vars, process, EditPackage, Fingerprint, Materialize, MaterializeRaises, MaterializeContext
<1>3. CASE RestoreNext
  <2>1. PICK n \in restoring : /\ job' = [job EXCEPT ![Host] = [Idle EXCEPT !.pc = "lock", !.name = n]]
                               /\ restoring' = restoring \ {n}
    BY <1>3 DEF RestoreNext
  <2> DEFINE y == [Idle EXCEPT !.pc = "lock", !.name = n]
  <2>2. DOMAIN y = JobFields /\ y.pc = "lock" /\ y.name = n /\ n \in Names
    BY <2>1, IdleFacts DEF JobFields, ConfirmedInv
  <2> HIDE DEF y
  <2>3. JobConfirmed(y)
    BY <2>2 DEF JobConfirmed, HasRecord, Chosen
  <2>4. Host \in Workers /\ UNCHANGED <<registry, loaded, confirmed>>
    BY <1>3 DEF RestoreNext, process, Workers
  <2>5. \A w \in Workers : JobConfirmed(job'[w])
    BY <2>1, <2>3, <2>4 DEF ConfirmedInv, y
  <2>6. DOMAIN job' = Workers /\ restoring' \subseteq Names
    BY <2>1 DEF ConfirmedInv
  <2> QED BY <2>4, <2>5, <2>6 DEF ConfirmedInv, JobConfirmed, Granted, Confirmed
<1>4. CASE Restart
  <2>1. /\ loaded' = [n \in Names |-> NotLoaded] /\ job' = [w \in Workers |-> Idle]
        /\ UNCHANGED <<registry, confirmed>> /\ restoring' \subseteq Names
    BY <1>4 DEF Restart
  <2>2. \A w \in Workers : JobConfirmed(job'[w])
    BY <2>1, IdleConfirmed
  <2>3. \A n \in Names : loaded'[n] = NotLoaded
    BY <2>1
  <2> QED BY <2>1, <2>2, <2>3 DEF ConfirmedInv, JobConfirmed, Granted, Confirmed
<1>5. ASSUME NEW t \in Workers, Step(t)
      PROVE  ConfirmedInv'
  BY <1>5, ConfirmedRequests, ApproveConfirmed, ConfirmedLoads, ConfirmedKeeps DEF Step
<1> QED BY <1>2, <1>3, <1>4, <1>5 DEF Next

LEMMA ConfirmedAlways == Spec => []ConfirmedInv
<1>1. ConfirmedInv /\ [Next]_vars => ConfirmedInv'
  BY ConfirmedStep
<1> QED BY ConfirmedStart, <1>1, PTL DEF Spec

\* No plugin runs with permissions the user has not confirmed, though requests
\* read records that others replace meanwhile (PluginManager.load).
THEOREM OnlyConfirmedPluginsRun == Spec => []OnlyConfirmedRuns
<1>1. ConfirmedInv => OnlyConfirmedRuns
  BY DEF ConfirmedInv, Confirmed, OnlyConfirmedRuns
<1> QED BY ConfirmedAlways, <1>1, PTL

-----------------------------------------------------------------------------
\* What is published is what is loaded.

ToolsOf(ld) == UNION {Providers(n, ld[n].version) : n \in {m \in Names : ld[m] # NotLoaded}}

LEMMA ProviderFacts ==
  ASSUME NEW n, NEW i, NEW v
  PROVE  Provider(n, i, v).name = n /\ Provider(n, i, v).index = i
BY DEF Provider

LEMMA ToolsAdd ==
  ASSUME NEW ld, DOMAIN ld = Names, NEW n \in Names, ld[n] = NotLoaded, NEW l, l # NotLoaded
  PROVE  ToolsOf([ld EXCEPT ![n] = l]) = ToolsOf(ld) \cup Providers(n, l.version)
BY DEF ToolsOf

LEMMA ToolsPop ==
  ASSUME NEW ld, DOMAIN ld = Names, NEW n \in Names, ld[n] # NotLoaded
  PROVE  ToolsOf(ld) = ToolsOf([ld EXCEPT ![n] = NotLoaded]) \cup Providers(n, ld[n].version)
BY DEF ToolsOf

LEMMA ToolsNamed ==
  ASSUME NEW ld, NEW x \in ToolsOf(ld)
  PROVE  x.name \in Names /\ ld[x.name] # NotLoaded
BY ProviderFacts DEF ToolsOf, Providers

\* The providers of a plugin that a request has in its hands.
Part(j) ==
  IF j.pc = "publish" THEN {Provider(j.name, i, j.version) : i \in 1..j.count}
  ELSE IF j.pc = "withdraw" THEN {Provider(j.name, i, j.version) : i \in (j.count + 1)..Len(j.version.contributions)}
  ELSE {}

Inside(j) == j.op \in Locked /\ j.pc \notin {"idle", "lock"}

Shape(j) ==
  /\ j.pc \in {"lock", "setup", "publish", "keep", "withdraw", "disable"} => j.op \in Locked
  /\ j.pc \in {"lock", "read", "refresh", "check", "setup", "keep"} => j.count = 0
  /\ j.pc \in {"publish", "withdraw"} => j.version \in Versions /\ j.count \in 0..Len(j.version.contributions)
  /\ j.pc \in {"setup", "publish"} => j.version.kind = "tool"
  /\ j.pc = "keep" => j.version.kind = "theme_pack"

\* What the owner of the lock has, when there is one.
Hand == IF lock = Free THEN {} ELSE Part(job[lock])
Busy == {"setup", "publish", "keep", "withdraw"}

PublishInv ==
  /\ lock \in Workers \cup {Free}
  /\ \A t \in Workers : Inside(job[t]) <=> lock = t
  /\ \A t \in Workers : Shape(job[t])
  /\ lock # Free /\ job[lock].pc \in Busy => loaded[job[lock].name] = NotLoaded
  /\ tools = ToolsOf(loaded) \cup Hand

LEMMA IdleShape == Shape(Idle) /\ ~Inside(Idle) /\ Part(Idle) = {}
BY IdleFacts DEF Shape, Inside, Part

LEMMA VersionFacts ==
  ASSUME NEW v \in Versions
  PROVE  /\ v.kind \in {"tool", "theme_pack"} /\ Len(v.contributions) \in Nat
         /\ v.kind = "theme_pack" => Len(v.contributions) = 0
<1>1. v.contributions \in Seq(STRING)
  BY VersionsAssumption
<1>2. Len(<<>>) = 0
  OBVIOUS
<1> QED BY <1>1, <1>2, VersionsAssumption

LEMMA PublishStart == Init => PublishInv
<1> SUFFICES ASSUME Init PROVE PublishInv
  OBVIOUS
<1>1. loaded = [n \in Names |-> NotLoaded] /\ tools = {} /\ job = [w \in Workers |-> Idle] /\ lock = Free
  BY DEF Init
<1>2. ToolsOf(loaded) = {} /\ Hand = {}
  BY <1>1 DEF ToolsOf, Hand
<1>3. \A t \in Workers : Shape(job[t]) /\ ~Inside(job[t]) /\ lock # t
  BY <1>1, IdleShape, NamesAssumption
<1> QED BY <1>1, <1>2, <1>3 DEF PublishInv

\* A request moves and what it has in its hands stays the same.
LEMMA PublishMoves ==
  ASSUME PublishInv, ConfirmedInv, NEW t \in Workers, NEW x, Shape(x), job' = [job EXCEPT ![t] = x],
         UNCHANGED <<loaded, tools, lock>>,
         Inside(x) <=> Inside(job[t]),
         lock = t => /\ Part(x) = Part(job[t])
                     /\ x.pc \in Busy => loaded[x.name] = NotLoaded
  PROVE  PublishInv'
<1>1. job'[t] = x /\ \A w \in Workers : w # t => job'[w] = job[w]
  BY DEF ConfirmedInv
<1>2. \A w \in Workers : Shape(job'[w]) /\ (Inside(job'[w]) <=> lock = w)
  BY <1>1 DEF PublishInv
<1>3. Hand' = Hand
  BY <1>1 DEF Hand, PublishInv
<1>4. lock # Free /\ job'[lock].pc \in Busy => loaded[job'[lock].name] = NotLoaded
  BY <1>1 DEF PublishInv
<1> QED BY <1>2, <1>3, <1>4 DEF PublishInv, Shape, Inside, ToolsOf

\* The owner of the lock moves, and what it has in its hands changes.
LEMMA OwnerMoves ==
  ASSUME PublishInv, ConfirmedInv, NEW t \in Workers, lock = t, lock' = lock, NEW x, Shape(x), Inside(x),
         job' = [job EXCEPT ![t] = x], tools' = ToolsOf(loaded') \cup Part(x),
         x.pc \in Busy => loaded'[x.name] = NotLoaded
  PROVE  PublishInv'
<1>1. job'[t] = x /\ (\A w \in Workers : w # t => job'[w] = job[w]) /\ lock # Free
  BY NamesAssumption DEF ConfirmedInv
<1>2. \A w \in Workers : Shape(job'[w]) /\ (Inside(job'[w]) <=> lock = w)
  BY <1>1 DEF PublishInv
<1>3. Hand' = Part(x)
  BY <1>1 DEF Hand
<1> QED BY <1>1, <1>2, <1>3 DEF PublishInv, Shape, Inside, ToolsOf

\* A request ends; the providers are those of the loaded plugins.
LEMMA PublishEnds ==
  ASSUME PublishInv, ConfirmedInv, NEW t \in Workers, Ends(t),
         IF lock = t THEN tools' = ToolsOf(loaded') ELSE UNCHANGED <<loaded, tools>>
  PROVE  PublishInv'
<1>1. /\ job'[t] = Idle /\ \A w \in Workers : w # t => job'[w] = job[w]
      /\ lock' = IF lock = t THEN Free ELSE lock
  BY DEF ConfirmedInv, Ends
<1>2. Free \notin Workers
  BY NamesAssumption
<1>3. \A w \in Workers : Shape(job'[w]) /\ (Inside(job'[w]) <=> lock' = w)
  BY <1>1, <1>2, IdleShape DEF PublishInv
<1>4. lock' \in Workers \cup {Free}
  BY <1>1 DEF PublishInv
<1>5. CASE lock = t
  <2>1. Hand' = {} /\ lock' = Free
    BY <1>1, <1>5 DEF Hand
  <2> QED BY <1>3, <1>4, <1>5, <2>1 DEF PublishInv, Shape, Inside, ToolsOf
<1>6. CASE lock # t
  <2>1. Hand' = Hand /\ lock' = lock
    BY <1>1, <1>2, <1>6 DEF Hand, PublishInv
  <2>2. lock' # Free /\ job'[lock'].pc \in Busy => loaded'[job'[lock'].name] = NotLoaded
    BY <1>1, <1>6, <2>1 DEF PublishInv
  <2> QED BY <1>3, <1>4, <1>6, <2>1, <2>2 DEF PublishInv, Shape, Inside, ToolsOf
<1> QED BY <1>5, <1>6

\* A request that ends before it has anything in its hands changes no provider.
LEMMA PublishLeaves ==
  ASSUME PublishInv, ConfirmedInv, NEW t \in Workers, Ends(t), UNCHANGED <<loaded, tools>>, Part(job[t]) = {}
  PROVE  PublishInv'
<1>1. lock = t => tools' = ToolsOf(loaded)
  BY NamesAssumption DEF PublishInv, Hand
<1>2. ToolsOf(loaded') = ToolsOf(loaded)
  OBVIOUS
<1> QED BY <1>1, <1>2, PublishEnds

LEMMA PublishRequests ==
  ASSUME PublishInv, ConfirmedInv, NEW t \in Workers,
         Ask(t) \/ Enter(t) \/ Read(t) \/ Refresh(t) \/ PutRegistered(t) \/ NoManifest(t) \/ ReplaceSettings(t)
  PROVE  PublishInv'
<1> DEFINE j == job[t]
<1>1. Shape(j) /\ (Inside(j) <=> lock = t) /\ DOMAIN j = JobFields
  BY DEF PublishInv, ConfirmedInv, JobConfirmed
<1>2. UNCHANGED <<loaded, tools>>
  BY DEF Ask, process, Enter, Read, Refresh, PutRegistered, NoManifest, ReplaceSettings
<1>3. ASSUME NEW y, DOMAIN y = JobFields, y.op = j.op, y.count = j.count,
             j.pc \in {"read", "refresh", "check"}, y.pc \in {"refresh", "check", "put"},
             job' = [job EXCEPT ![t] = y], lock' = lock
      PROVE  PublishInv'
  <2>1. Shape(y) /\ (Inside(y) <=> Inside(j)) /\ Part(y) = {} /\ Part(j) = {} /\ y.pc \notin Busy
    BY <1>1, <1>3 DEF Shape, Inside, Part, Busy
  <2> QED BY <1>2, <1>3, <2>1, PublishMoves
<1>4. ASSUME j.pc \in {"read", "refresh", "check", "put"}, Ends(t)
      PROVE  PublishInv'
  <2>1. Part(job[t]) = {}
    BY <1>4 DEF Part
  <2> QED BY <1>2, <1>4, <2>1, PublishLeaves
<1>5. CASE Ask(t)
  <2>1. PICK n \in Names, op \in Locked \cup {"settings", "register"}, x \in Values :
          job' = [job EXCEPT ![t] = [Idle EXCEPT !.pc = IF op \in Locked THEN "lock" ELSE "read",
                                                 !.op = op, !.name = n, !.value = x]]
    BY <1>5 DEF Ask
  <2> DEFINE y == [Idle EXCEPT !.pc = IF op \in Locked THEN "lock" ELSE "read", !.op = op, !.name = n, !.value = x]
  <2>2. y.pc = (IF op \in Locked THEN "lock" ELSE "read") /\ y.op = op /\ y.count = 0
    BY IdleFacts DEF JobFields
  <2> HIDE DEF y
  <2>3. Shape(y) /\ ~Inside(y)
    BY <2>2 DEF Shape, Inside
  <2>4. job[t] = Idle /\ ~Inside(job[t]) /\ lock' = lock
    BY <1>5, IdleShape DEF Ask, process
  <2>5. lock # t
    BY <2>4 DEF PublishInv
  <2> QED BY <1>2, <2>1, <2>3, <2>4, <2>5, PublishMoves DEF y
<1>6. CASE Enter(t)
  <2> DEFINE y == [j EXCEPT !.pc = "read"]
  <2>1. job' = [job EXCEPT ![t] = y] /\ j.pc = "lock" /\ lock = Free /\ lock' = t
    BY <1>6 DEF Enter
  <2>2. y.pc = "read" /\ y.op = j.op /\ y.count = j.count
    BY <1>1 DEF JobFields
  <2> HIDE DEF y
  <2>3. Shape(y) /\ Inside(y) /\ Part(y) = {}
    BY <1>1, <2>1, <2>2 DEF Shape, Inside, Part
  <2>4. job'[t] = y /\ \A w \in Workers : w # t => job'[w] = job[w]
    BY <2>1 DEF ConfirmedInv
  <2>5. \A w \in Workers : Shape(job'[w]) /\ (Inside(job'[w]) <=> lock' = w)
    BY <2>1, <2>3, <2>4, NamesAssumption DEF PublishInv
  <2>6. Hand' = {} /\ Hand = {}
    BY <2>1, <2>3, <2>4, NamesAssumption DEF Hand
  <2>7. job'[lock'].pc \notin Busy
    BY <2>1, <2>2, <2>4 DEF Busy
  <2> QED BY <1>2, <2>1, <2>5, <2>6, <2>7 DEF PublishInv, Shape, Inside, ToolsOf
<1>7. CASE Read(t)
  <2>1. PICK r1, r2 : \/ Ends(t)
                      \/ lock' = lock /\ job' = [job EXCEPT ![t] = [j EXCEPT !.pc = "refresh", !.record = r1]]
                      \/ lock' = lock /\ job' = [job EXCEPT ![t] = [j EXCEPT !.pc = "put", !.record = r2]]
    BY <1>7 DEF Read, Goes
  <2>2. j.pc = "read"
    BY <1>7 DEF Read
  <2> DEFINE y(q, r) == [j EXCEPT !.pc = q, !.record = r]
  <2>3. \A q, r : DOMAIN y(q, r) = JobFields /\ y(q, r).pc = q /\ y(q, r).op = j.op /\ y(q, r).count = j.count
    BY <1>1 DEF JobFields
  <2>4. Ends(t) \/ (lock' = lock /\ job' = [job EXCEPT ![t] = y("refresh", r1)])
                \/ (lock' = lock /\ job' = [job EXCEPT ![t] = y("put", r2)])
    BY <2>1
  <2> HIDE DEF y
  <2> QED BY <1>3, <1>4, <2>2, <2>3, <2>4
<1>8. CASE Refresh(t)
  <2> DEFINE moved == [j.record EXCEPT !.path = Discovered(j.name)]
             y == [j EXCEPT !.pc = "check"]
             z == [j EXCEPT !.pc = "check", !.record = moved]
  <2>1. j.pc = "refresh" /\ (Ends(t) \/ (lock' = lock /\ job' = [job EXCEPT ![t] = y])
                                     \/ (lock' = lock /\ job' = [job EXCEPT ![t] = z]))
    BY <1>8 DEF Refresh, Goes
  <2>2. DOMAIN y = JobFields /\ y.pc = "check" /\ y.op = j.op /\ y.count = j.count
    BY <1>1 DEF JobFields
  <2>3. DOMAIN z = JobFields /\ z.pc = "check" /\ z.op = j.op /\ z.count = j.count
    BY <1>1 DEF JobFields
  <2> HIDE DEF y, z
  <2> QED BY <1>3, <1>4, <2>1, <2>2, <2>3
<1>9. CASE PutRegistered(t) \/ NoManifest(t) \/ ReplaceSettings(t)
  BY <1>4, <1>9 DEF PutRegistered, NoManifest, ReplaceSettings
<1> QED BY <1>5, <1>6, <1>7, <1>8, <1>9

LEMMA PublishApproves ==
  ASSUME PublishInv, ConfirmedInv, NEW t \in Workers, Approve(t)
  PROVE  PublishInv'
<1> DEFINE j == job[t]
           v == Manifest(j)
           granted == [j.record EXCEPT !.enabled = TRUE, !.granted = @ \cup Lacking(j)]
           next == IF v.kind = "tool" THEN "setup" ELSE "keep"
           y == [j EXCEPT !.pc = next, !.record = granted, !.version = v]
<1>1. Shape(j) /\ (Inside(j) <=> lock = t) /\ DOMAIN j = JobFields
  BY DEF PublishInv, ConfirmedInv, JobConfirmed
<1>2. /\ j.pc = "check" /\ j.op \in {"load", "confirm"} /\ v \in Versions /\ UNCHANGED <<loaded, tools>>
      /\ Ends(t) \/ (loaded[j.name] = NotLoaded /\ job' = [job EXCEPT ![t] = y] /\ lock' = lock)
  BY DEF Approve, Goes
<1>3. v.kind \in {"tool", "theme_pack"}
  BY <1>2, VersionFacts
<1> HIDE DEF v, granted
<1>4. CASE Ends(t)
  BY <1>2, <1>4, PublishLeaves DEF Part
<1>5. CASE loaded[j.name] = NotLoaded /\ job' = [job EXCEPT ![t] = y] /\ lock' = lock
  <2>1. next \in {"setup", "keep"} /\ (next = "setup" => v.kind = "tool") /\ (next = "keep" => v.kind = "theme_pack")
    BY <1>3
  <2> HIDE DEF next
  <2>2. y.pc = next /\ y.op = j.op /\ y.count = j.count /\ y.version = v /\ y.name = j.name
    BY <1>1 DEF JobFields
  <2> HIDE DEF y
  <2>3. Shape(y) /\ Inside(y) /\ Inside(j) /\ Part(y) = {} /\ Part(j) = {}
    BY <1>1, <1>2, <2>1, <2>2 DEF Shape, Inside, Part, Locked
  <2> QED BY <1>2, <1>5, <2>2, <2>3, PublishMoves
<1> QED BY <1>2, <1>4, <1>5

\* The names of the providers: nobody but the plugin has one of its name.
LEMMA HandNamed ==
  ASSUME PublishInv, ConfirmedInv, NEW t \in Workers, lock = t, job[t].pc \in Busy
  PROVE  /\ tools = ToolsOf(loaded) \cup Part(job[t])
         /\ \A x \in ToolsOf(loaded) : x.name # job[t].name
         /\ \A x \in Part(job[t]) : x.name = job[t].name
<1>1. lock # Free /\ loaded[job[t].name] = NotLoaded
  BY NamesAssumption DEF PublishInv
<1>2. tools = ToolsOf(loaded) \cup Part(job[t])
  BY <1>1 DEF PublishInv, Hand
<1>3. \A x \in Part(job[t]) : x.name = job[t].name
  BY ProviderFacts DEF Part
<1> QED BY <1>1, <1>2, <1>3, ToolsNamed

LEMMA PublishLoads ==
  ASSUME PublishInv, ConfirmedInv, NEW t \in Workers,
         SetUp(t) \/ Publish(t) \/ Rollback(t) \/ Unregister(t) \/ TearDown(t) \/ Disable(t)
  PROVE  PublishInv'
<1> DEFINE j == job[t]
           len == Len(j.version.contributions)
<1>1. Shape(j) /\ (Inside(j) <=> lock = t) /\ JobConfirmed(j) /\ DOMAIN j = JobFields
  BY DEF PublishInv, ConfirmedInv, JobConfirmed
<1>2. UNCHANGED loaded /\ j.pc \in {"setup", "publish", "withdraw", "disable"} /\ ToolsOf(loaded') = ToolsOf(loaded)
  BY DEF SetUp, Publish, Rollback, Unregister, TearDown, Disable
<1>3. lock = t /\ j.op \in Locked
  BY <1>1, <1>2 DEF Shape, Inside
<1>4. j.pc \in Busy => loaded[j.name] = NotLoaded
  BY <1>3, NamesAssumption DEF PublishInv
<1>5. j.pc \in {"publish", "withdraw"} => j.version \in Versions /\ j.count \in 0..len /\ len \in Nat
  BY <1>1, VersionFacts DEF Shape
<1>6. CASE SetUp(t)
  <2> DEFINE y == [j EXCEPT !.pc = "publish"]
  <2>1. j.pc = "setup" /\ tools' = tools /\ (Ends(t) \/ (job' = [job EXCEPT ![t] = y] /\ lock' = lock))
    BY <1>6 DEF SetUp, Goes
  <2>2. y.pc = "publish" /\ y.op = j.op /\ y.count = 0 /\ y.version = j.version /\ y.name = j.name
    BY <1>1, <2>1 DEF JobFields, Shape
  <2> HIDE DEF y
  <2>3. j.version \in Versions /\ j.version.kind = "tool"
    BY <1>1, <2>1 DEF Shape, JobConfirmed, Chosen, Confirmed
  <2>4. len \in Nat
    BY <2>3, VersionFacts
  <2>5. Shape(y) /\ Inside(y)
    BY <1>3, <2>2, <2>3, <2>4 DEF Shape, Inside
  <2>6. Part(y) = {} /\ Part(j) = {}
    BY <2>1, <2>2 DEF Part
  <2> QED BY <1>1, <1>2, <1>3, <1>4, <2>1, <2>2, <2>5, <2>6, PublishMoves, PublishLeaves DEF Busy
<1>7. CASE Publish(t)
  <2> DEFINE y == [j EXCEPT !.count = @ + 1]
             p == Provider(j.name, j.count + 1, j.version)
  <2>1. j.pc = "publish" /\ j.count < len /\ job' = [job EXCEPT ![t] = y] /\ lock' = lock /\ tools' = tools \cup {p}
    BY <1>7 DEF Publish, Goes
  <2>2. y.pc = "publish" /\ y.op = j.op /\ y.count = j.count + 1 /\ y.version = j.version /\ y.name = j.name
    BY <1>1, <2>1 DEF JobFields
  <2> HIDE DEF y
  <2>3. Shape(y) /\ Inside(y)
    BY <1>1, <1>3, <1>5, <2>1, <2>2 DEF Shape, Inside
  <2>4. 1..(j.count + 1) = 1..j.count \cup {j.count + 1}
    BY <1>5, <2>1
  <2>5. Part(y) = Part(j) \cup {p}
    BY <2>1, <2>2, <2>4 DEF Part
  <2>6. tools = ToolsOf(loaded) \cup Part(j)
    BY <1>3, <2>1, HandNamed DEF Busy
  <2> QED BY <1>2, <1>3, <1>4, <2>1, <2>2, <2>3, <2>5, <2>6, OwnerMoves DEF Busy
<1>8. CASE Rollback(t)
  <2>1. j.pc = "publish" /\ Ends(t) /\ tools' = {x \in tools : x.name # j.name}
    BY <1>8 DEF Rollback
  <2>2. tools' = ToolsOf(loaded)
    BY <1>3, <2>1, HandNamed DEF Busy
  <2> QED BY <1>2, <1>3, <2>1, <2>2, PublishEnds
<1>9. CASE Unregister(t)
  <2> DEFINE y == [j EXCEPT !.count = @ + 1]
             p == Provider(j.name, j.count + 1, j.version)
  <2>1. j.pc = "withdraw" /\ j.count < len /\ job' = [job EXCEPT ![t] = y] /\ lock' = lock /\ tools' = tools \ {p}
    BY <1>9 DEF Unregister, Goes
  <2>2. y.pc = "withdraw" /\ y.op = j.op /\ y.count = j.count + 1 /\ y.version = j.version /\ y.name = j.name
    BY <1>1, <2>1 DEF JobFields
  <2> HIDE DEF y
  <2>3. Shape(y) /\ Inside(y)
    BY <1>1, <1>3, <1>5, <2>1, <2>2 DEF Shape, Inside
  <2>4. (j.count + 1)..len = ((j.count + 2)..len) \cup {j.count + 1}
    BY <1>5, <2>1
  <2>5. Part(j) = {Provider(j.name, i, j.version) : i \in (j.count + 1)..len}
    BY <2>1 DEF Part
  <2>6. j.count + 1 + 1 = j.count + 2
    BY <1>5, <2>1
  <2>7. Part(y) = {Provider(j.name, i, j.version) : i \in (j.count + 2)..len}
    BY <2>2, <2>6 DEF Part
  <2>8. \A i \in (j.count + 2)..len : Provider(j.name, i, j.version) # p
    <3>1. \A i \in (j.count + 2)..len : i # j.count + 1
      BY <1>5, <2>1
    <3> QED BY <3>1, ProviderFacts
  <2> HIDE DEF p
  <2>9. Part(y) = Part(j) \ {p}
    BY <2>4, <2>5, <2>7, <2>8 DEF p
  <2>10. p.name = j.name
    BY ProviderFacts DEF p
  <2>11. tools' = ToolsOf(loaded) \cup Part(y)
    BY <1>3, <2>1, <2>9, <2>10, HandNamed DEF Busy
  <2> QED BY <1>2, <1>3, <1>4, <2>1, <2>2, <2>3, <2>11, OwnerMoves DEF Busy
<1>10. CASE TearDown(t)
  <2> DEFINE y == [j EXCEPT !.pc = "disable"]
  <2>1. j.pc = "withdraw" /\ j.count = len /\ job' = [job EXCEPT ![t] = y] /\ lock' = lock /\ tools' = tools
    BY <1>10 DEF TearDown, Goes
  <2>2. y.pc = "disable" /\ y.op = j.op
    BY <1>1 DEF JobFields
  <2> HIDE DEF y
  <2>3. Shape(y) /\ Inside(y) /\ Part(y) = {} /\ y.pc \notin Busy
    BY <1>3, <2>2 DEF Shape, Inside, Part, Busy
  <2>4. Part(j) = {}
    BY <1>5, <2>1 DEF Part
  <2> QED BY <1>1, <1>2, <1>3, <2>1, <2>3, <2>4, PublishMoves
<1>11. CASE Disable(t)
  BY <1>2, <1>11, PublishLeaves DEF Disable, Part
<1> QED BY <1>6, <1>7, <1>8, <1>9, <1>10, <1>11

LEMMA PublishKeeps ==
  ASSUME PublishInv, ConfirmedInv, NEW t \in Workers, Keep(t)
  PROVE  PublishInv'
<1> DEFINE j == job[t]
           l == [version |-> j.version, settings |-> j.record.settings]
<1>1. Shape(j) /\ (Inside(j) <=> lock = t) /\ JobConfirmed(j)
  BY DEF PublishInv, ConfirmedInv
<1>2. /\ j.pc = "keep" \/ (j.pc = "publish" /\ j.count = Len(j.version.contributions))
      /\ Ends(t) /\ loaded' = [loaded EXCEPT ![j.name] = l] /\ tools' = tools
  BY DEF Keep
<1>3. lock = t
  BY <1>1, <1>2 DEF Shape, Inside
<1>4. j.name \in Names /\ loaded[j.name] = NotLoaded /\ j.version \in Versions
  BY <1>1, <1>2, <1>3, NamesAssumption DEF PublishInv, Busy, JobConfirmed, Chosen, Confirmed
<1>5. l # NotLoaded /\ l.version = j.version
  BY LoadedFacts
<1> HIDE DEF l
<1>6. Part(j) = Providers(j.name, j.version)
  <2>1. CASE j.pc = "publish"
    BY <1>2, <2>1 DEF Part, Providers
  <2>2. CASE j.pc = "keep"
    <3>1. Len(j.version.contributions) = 0
      BY <1>1, <1>4, <2>2, VersionFacts DEF Shape
    <3> QED BY <2>2, <3>1 DEF Part, Providers
  <2> QED BY <1>2, <2>1, <2>2
<1>7. tools = ToolsOf(loaded) \cup Part(j)
  BY <1>2, <1>3, HandNamed DEF Busy
<1>8. ToolsOf(loaded') = ToolsOf(loaded) \cup Providers(j.name, j.version)
  <2>1. DOMAIN loaded = Names
    BY DEF ConfirmedInv
  <2>2. ToolsOf([loaded EXCEPT ![j.name] = l]) = ToolsOf(loaded) \cup Providers(j.name, l.version)
    <3>1. j.name \in Names /\ loaded[j.name] = NotLoaded /\ l # NotLoaded
      BY <1>4, <1>5
    <3> HIDE DEF j
    <3> QED BY <2>1, <3>1, ToolsAdd, Zenon
  <2> QED BY <1>2, <1>5, <2>2
<1> QED BY <1>2, <1>3, <1>6, <1>7, <1>8, PublishEnds

LEMMA PublishPops ==
  ASSUME PublishInv, ConfirmedInv, NEW t \in Workers, Pop(t)
  PROVE  PublishInv'
<1> DEFINE j == job[t]
           old == loaded[j.name]
<1>1. Shape(j) /\ (Inside(j) <=> lock = t) /\ JobConfirmed(j) /\ DOMAIN j = JobFields
  BY DEF PublishInv, ConfirmedInv, JobConfirmed
<1>2. j.pc = "check" /\ j.op = "unload" /\ loaded' = [loaded EXCEPT ![j.name] = NotLoaded] /\ tools' = tools
  BY DEF Pop
<1>3. lock = t /\ j.name \in Names /\ j.count = 0
  BY <1>1, <1>2 DEF Inside, Shape, JobConfirmed, Locked
<1>4. tools = ToolsOf(loaded)
  BY <1>2, <1>3, NamesAssumption DEF PublishInv, Hand, Part
<1>5. CASE old = NotLoaded
  <2> DEFINE y == [j EXCEPT !.pc = "disable"]
  <2>1. job' = [job EXCEPT ![t] = y] /\ lock' = lock
    BY <1>5 DEF Pop, Goes
  <2>5. ToolsOf(loaded') = ToolsOf(loaded)
    <3>1. \A n \in Names : loaded'[n] = loaded[n]
      BY <1>2, <1>3, <1>5 DEF ConfirmedInv
    <3> QED BY <3>1 DEF ToolsOf
  <2>2. y.pc = "disable" /\ y.op = j.op
    BY <1>1 DEF JobFields
  <2> HIDE DEF y
  <2>3. Shape(y) /\ Inside(y) /\ Part(y) = {} /\ y.pc \notin Busy
    BY <1>2, <2>2 DEF Shape, Inside, Part, Busy, Locked
  <2>4. tools' = ToolsOf(loaded') \cup Part(y)
    BY <1>2, <1>4, <2>3, <2>5
  <2> QED BY <1>3, <2>1, <2>3, <2>4, OwnerMoves
<1>6. CASE old # NotLoaded
  <2> DEFINE y == [j EXCEPT !.pc = "withdraw", !.version = old.version]
  <2>1. job' = [job EXCEPT ![t] = y] /\ lock' = lock
    BY <1>6 DEF Pop, Goes
  <2>2. y.pc = "withdraw" /\ y.op = j.op /\ y.version = old.version /\ y.count = 0 /\ y.name = j.name
    BY <1>1, <1>3 DEF JobFields
  <2> HIDE DEF y
  <2>3. old.version \in Versions
    BY <1>3, <1>6 DEF ConfirmedInv, Confirmed
  <2>4. Shape(y) /\ Inside(y)
    BY <1>2, <2>2, <2>3, VersionFacts DEF Shape, Inside, Locked
  <2>5. Part(y) = Providers(j.name, old.version)
    BY <2>2 DEF Part, Providers
  <2>6. loaded'[j.name] = NotLoaded
    BY <1>2, <1>3 DEF ConfirmedInv
  <2>7. tools' = ToolsOf(loaded') \cup Part(y)
    <3>1. DOMAIN loaded = Names
      BY DEF ConfirmedInv
    <3>2. ToolsOf(loaded) = ToolsOf([loaded EXCEPT ![j.name] = NotLoaded]) \cup Providers(j.name, old.version)
      BY <1>3, <1>6, <3>1, ToolsPop
    <3> QED BY <1>2, <1>4, <2>5, <3>2
  <2> QED BY <1>3, <2>1, <2>2, <2>4, <2>6, <2>7, OwnerMoves
<1> QED BY <1>5, <1>6

LEMMA PublishStep ==
  ASSUME PublishInv, ConfirmedInv, [Next]_vars
  PROVE  PublishInv'
<1>1. CASE UNCHANGED <<loaded, tools, job, lock>>
  BY <1>1 DEF PublishInv, Shape, Inside, ToolsOf, Hand, Part
<1>2. CASE UNCHANGED vars \/ EditPackage \/ Fingerprint \/ Materialize \/ MaterializeRaises \/ MaterializeContext
  BY <1>1, <1>2 DEF vars, process, EditPackage, Fingerprint, Materialize, MaterializeRaises, MaterializeContext
<1>3. CASE RestoreNext
  <2>1. PICK n \in restoring : job' = [job EXCEPT ![Host] = [Idle EXCEPT !.pc = "lock", !.name = n]]
    BY <1>3 DEF RestoreNext
  <2> DEFINE y == [Idle EXCEPT !.pc = "lock", !.name = n]
  <2>2. y.pc = "lock" /\ y.op = "load" /\ y.count = 0
    BY IdleFacts DEF JobFields
  <2> HIDE DEF y
  <2>3. Shape(y) /\ ~Inside(y)
    BY <2>2 DEF Shape, Inside, Locked
  <2>4. Host \in Workers /\ job[Host] = Idle /\ UNCHANGED <<loaded, tools, lock>>
    BY <1>3 DEF RestoreNext, process, Workers
  <2>5. lock # Host /\ ~Inside(job[Host])
    BY <2>4, IdleShape DEF PublishInv
  <2> QED BY <2>1, <2>3, <2>4, <2>5, PublishMoves DEF y
<1>4. CASE Restart
  <2>1. loaded' = [n \in Names |-> NotLoaded] /\ tools' = {} /\ job' = [w \in Workers |-> Idle] /\ lock' = Free
    BY <1>4 DEF Restart
  <2>2. ToolsOf(loaded') = {} /\ Hand' = {}
    BY <2>1 DEF ToolsOf, Hand
  <2>3. \A t \in Workers : Shape(job'[t]) /\ ~Inside(job'[t]) /\ lock' # t
    BY <2>1, IdleShape, NamesAssumption
  <2> QED BY <2>1, <2>2, <2>3 DEF PublishInv, Shape, Inside, ToolsOf
<1>5. ASSUME NEW t \in Workers, Step(t)
      PROVE  PublishInv'
  BY <1>5, PublishRequests, PublishApproves, PublishLoads, PublishKeeps, PublishPops DEF Step
<1> QED BY <1>2, <1>3, <1>4, <1>5 DEF Next

LEMMA PublishAlways == Spec => []PublishInv
<1>1. ConfirmedInv /\ PublishInv /\ [Next]_vars => PublishInv'
  BY PublishStep
<1> QED BY PublishStart, ConfirmedAlways, <1>1, PTL DEF Spec

-----------------------------------------------------------------------------
\* A loaded tool plugin has its module, if no other plugin's name makes the same.

DistinctModules == \A m, n \in Names : Module[m] = Module[n] => m = n

Imported(j, n) == j.name = n /\ (j.pc = "publish" \/ (j.pc = "withdraw" /\ j.version.kind = "tool"))
InHand(n) == lock # Free /\ Imported(job[lock], n)
ToolLoaded(ld, n) == ld[n] # NotLoaded /\ ld[n].version.kind = "tool"

ModuleInv ==
  /\ DOMAIN modules = ModuleNames
  /\ \A n \in Names : modules[Module[n]] = n <=> ToolLoaded(loaded, n) \/ InHand(n)

LEMMA ModuleStart == Init => ModuleInv
<1> SUFFICES ASSUME Init PROVE ModuleInv
  OBVIOUS
<1>1. loaded = [n \in Names |-> NotLoaded] /\ modules = [m \in ModuleNames |-> NoPlugin] /\ lock = Free
  BY DEF Init
<1> QED BY <1>1, NamesAssumption DEF ModuleInv, ToolLoaded, InHand, ModuleNames

\* A step in which no plugin is imported, kept or withdrawn.
LEMMA ModulesRest ==
  ASSUME ModuleInv, UNCHANGED <<loaded, modules>>, \A n \in Names : InHand(n)' <=> InHand(n)
  PROVE  ModuleInv'
BY DEF ModuleInv, ToolLoaded

\* One plugin's module comes or goes; the others have theirs.
LEMMA ModulesChange ==
  ASSUME ModuleInv, DistinctModules, NEW m \in Names, NEW x \in {m, NoPlugin},
         modules' = [modules EXCEPT ![Module[m]] = x], UNCHANGED loaded,
         \A n \in Names \ {m} : InHand(n)' <=> InHand(n),
         x = m <=> ToolLoaded(loaded, m) \/ InHand(m)'
  PROVE  ModuleInv'
<1>1. DOMAIN modules' = ModuleNames /\ Module[m] \in ModuleNames
  BY DEF ModuleInv, ModuleNames
<1>2. modules'[Module[m]] = m <=> ToolLoaded(loaded, m) \/ InHand(m)'
  BY <1>1, NamesAssumption DEF ModuleInv
<1>3. ASSUME NEW n \in Names \ {m}
      PROVE  modules'[Module[n]] = n <=> ToolLoaded(loaded, n) \/ InHand(n)'
  <2>1. modules'[Module[n]] = modules[Module[n]]
    BY DEF DistinctModules, ModuleInv, ModuleNames
  <2> QED BY <2>1 DEF ModuleInv
<1> QED BY <1>1, <1>2, <1>3 DEF ModuleInv, ToolLoaded

\* What a request that does not own the lock does, nobody has in hand.
LEMMA HandRests ==
  ASSUME ConfirmedInv, NEW t \in Workers, NEW x, job' = [job EXCEPT ![t] = x], lock' = lock,
         lock = t => \A n \in Names : Imported(x, n) <=> Imported(job[t], n)
  PROVE  \A n \in Names : InHand(n)' <=> InHand(n)
<1>1. job'[t] = x /\ \A w \in Workers : w # t => job'[w] = job[w]
  BY DEF ConfirmedInv
<1>2. lock # t => (lock \in Workers => job'[lock] = job[lock])
  BY <1>1
<1> QED BY <1>1 DEF InHand, ConfirmedInv, Imported

LEMMA HandEnds ==
  ASSUME PublishInv, ConfirmedInv, NEW t \in Workers, Ends(t)
  PROVE  /\ lock = t => \A n \in Names : ~InHand(n)'
         /\ lock # t => \A n \in Names : InHand(n)' <=> InHand(n)
<1>1. /\ job'[t] = Idle /\ \A w \in Workers : w # t => job'[w] = job[w]
      /\ lock' = IF lock = t THEN Free ELSE lock
  BY DEF ConfirmedInv, Ends
<1> QED BY <1>1 DEF InHand, PublishInv

\* The requests that end with no module in hand.
LEMMA ModuleEnds ==
  ASSUME ModuleInv, PublishInv, ConfirmedInv, NEW t \in Workers, Ends(t), UNCHANGED <<loaded, modules>>,
         job[t].pc \notin {"publish", "withdraw"}
  PROVE  ModuleInv'
<1>1. lock = t => \A n \in Names : ~InHand(n)
  BY DEF InHand, Imported
<1> QED BY <1>1, HandEnds, ModulesRest

\* The requests that go on with the same in hand.
LEMMA ModuleMoves ==
  ASSUME ModuleInv, ConfirmedInv, NEW t \in Workers, NEW x, job' = [job EXCEPT ![t] = x],
         UNCHANGED <<loaded, modules, lock>>, lock = t => \A n \in Names : Imported(x, n) <=> Imported(job[t], n)
  PROVE  ModuleInv'
BY HandRests, ModulesRest

LEMMA ModuleRequests ==
  ASSUME ModuleInv, PublishInv, ConfirmedInv, NEW t \in Workers,
         Ask(t) \/ Enter(t) \/ Read(t) \/ Refresh(t) \/ PutRegistered(t) \/ NoManifest(t) \/ ReplaceSettings(t)
         \/ Approve(t) \/ Disable(t)
  PROVE  ModuleInv'
<1> DEFINE j == job[t]
           Quiet == {"idle", "lock", "read", "refresh", "check", "put", "setup", "keep", "disable"}
<1>1. DOMAIN j = JobFields /\ UNCHANGED <<loaded, modules>>
  BY DEF ConfirmedInv, JobConfirmed, Ask, process, Enter, Read, Refresh, PutRegistered, NoManifest, ReplaceSettings,
     Approve, Disable
<1>2. ASSUME NEW y, j.pc \in Quiet, y.pc \in Quiet, job' = [job EXCEPT ![t] = y], lock' = lock
      PROVE  ModuleInv'
  <2>1. \A n \in Names : ~Imported(y, n) /\ ~Imported(j, n)
    BY <1>2 DEF Imported
  <2> QED BY <1>1, <1>2, <2>1, ModuleMoves
<1>3. ASSUME j.pc \in Quiet, Ends(t)
      PROVE  ModuleInv'
  BY <1>1, <1>3, ModuleEnds
<1> HIDE DEF Quiet
<1>4. CASE Ask(t)
  <2>1. PICK n \in Names, op \in Locked \cup {"settings", "register"}, x \in Values :
          job' = [job EXCEPT ![t] = [Idle EXCEPT !.pc = IF op \in Locked THEN "lock" ELSE "read",
                                                 !.op = op, !.name = n, !.value = x]]
    BY <1>4 DEF Ask
  <2> DEFINE y == [Idle EXCEPT !.pc = IF op \in Locked THEN "lock" ELSE "read", !.op = op, !.name = n, !.value = x]
  <2>2. y.pc \in Quiet
    BY IdleFacts DEF JobFields, Quiet
  <2>3. j = Idle /\ lock' = lock
    BY <1>4 DEF Ask, process
  <2>4. j.pc \in Quiet
    BY <2>3, IdleFacts DEF Quiet
  <2> HIDE DEF y
  <2> QED BY <1>2, <2>1, <2>2, <2>3, <2>4 DEF y
<1>5. CASE Enter(t)
  <2> DEFINE y == [j EXCEPT !.pc = "read"]
  <2>1. job' = [job EXCEPT ![t] = y] /\ lock = Free /\ lock' = t
    BY <1>5 DEF Enter
  <2>2. y.pc = "read"
    BY <1>1 DEF JobFields
  <2> HIDE DEF y
  <2>3. job'[t] = y
    BY <2>1 DEF ConfirmedInv
  <2>4. \A n \in Names : ~InHand(n)' /\ ~InHand(n)
    BY <2>1, <2>2, <2>3 DEF InHand, Imported
  <2> QED BY <1>1, <2>4, ModulesRest
<1>6. CASE Read(t)
  <2>1. PICK r1, r2 : \/ Ends(t)
                      \/ lock' = lock /\ job' = [job EXCEPT ![t] = [j EXCEPT !.pc = "refresh", !.record = r1]]
                      \/ lock' = lock /\ job' = [job EXCEPT ![t] = [j EXCEPT !.pc = "put", !.record = r2]]
    BY <1>6 DEF Read, Goes
  <2>2. j.pc \in Quiet
    BY <1>6 DEF Read, Quiet
  <2> DEFINE y(q, r) == [j EXCEPT !.pc = q, !.record = r]
  <2>3. \A r : y("refresh", r).pc \in Quiet /\ y("put", r).pc \in Quiet
    BY <1>1 DEF JobFields, Quiet
  <2>4. Ends(t) \/ (lock' = lock /\ job' = [job EXCEPT ![t] = y("refresh", r1)])
                \/ (lock' = lock /\ job' = [job EXCEPT ![t] = y("put", r2)])
    BY <2>1
  <2> HIDE DEF y
  <2> QED BY <1>2, <1>3, <2>2, <2>3, <2>4
<1>7. CASE Refresh(t)
  <2> DEFINE moved == [j.record EXCEPT !.path = Discovered(j.name)]
             y == [j EXCEPT !.pc = "check"]
             z == [j EXCEPT !.pc = "check", !.record = moved]
  <2>1. j.pc \in Quiet /\ (Ends(t) \/ (lock' = lock /\ job' = [job EXCEPT ![t] = y])
                                   \/ (lock' = lock /\ job' = [job EXCEPT ![t] = z]))
    BY <1>7 DEF Refresh, Goes, Quiet
  <2>2. y.pc \in Quiet /\ z.pc \in Quiet
    BY <1>1 DEF JobFields, Quiet
  <2> HIDE DEF y, z
  <2> QED BY <1>2, <1>3, <2>1, <2>2
<1>8. CASE PutRegistered(t) \/ NoManifest(t) \/ ReplaceSettings(t) \/ Disable(t)
  BY <1>3, <1>8 DEF PutRegistered, NoManifest, ReplaceSettings, Disable, Quiet
<1>9. CASE Approve(t)
  <2> DEFINE granted == [j.record EXCEPT !.enabled = TRUE, !.granted = @ \cup Lacking(j)]
             next == IF Manifest(j).kind = "tool" THEN "setup" ELSE "keep"
             y == [j EXCEPT !.pc = next, !.record = granted, !.version = Manifest(j)]
  <2>1. j.pc \in Quiet /\ (Ends(t) \/ (lock' = lock /\ job' = [job EXCEPT ![t] = y]))
    BY <1>9 DEF Approve, Goes, Quiet
  <2>2. next \in Quiet
    BY DEF Quiet
  <2> HIDE DEF granted, next
  <2>3. y.pc = next
    BY <1>1 DEF JobFields
  <2> HIDE DEF y
  <2> QED BY <1>2, <1>3, <2>1, <2>2, <2>3
<1> QED BY <1>4, <1>5, <1>6, <1>7, <1>8, <1>9

LEMMA ModuleLoads ==
  ASSUME ModuleInv, PublishInv, ConfirmedInv, DistinctModules, NEW t \in Workers,
         SetUp(t) \/ Publish(t) \/ Rollback(t) \/ Unregister(t) \/ TearDown(t) \/ Keep(t) \/ Pop(t)
  PROVE  ModuleInv'
<1> DEFINE j == job[t]
           m == j.name
<1>1. Shape(j) /\ (Inside(j) <=> lock = t) /\ JobConfirmed(j) /\ DOMAIN j = JobFields
  BY DEF PublishInv, ConfirmedInv, JobConfirmed
<1>2. j.pc \in {"setup", "publish", "withdraw", "keep", "check"} /\ (j.pc = "check" => j.op = "unload")
  BY DEF SetUp, Publish, Rollback, Unregister, TearDown, Keep, Pop
<1>3. lock = t /\ m \in Names /\ lock # Free
  BY <1>1, <1>2, NamesAssumption DEF Shape, Inside, Locked, JobConfirmed
<1>4. j.pc \in Busy => ~ToolLoaded(loaded, m)
  BY <1>3 DEF PublishInv, ToolLoaded
<1>5. \A n \in Names : InHand(n) <=> Imported(j, n)
  BY <1>3 DEF InHand
<1>6. ASSUME NEW y, job' = [job EXCEPT ![t] = y], lock' = lock
      PROVE  \A n \in Names : InHand(n)' <=> Imported(y, n)
  <2>1. job'[t] = y
    BY <1>6 DEF ConfirmedInv
  <2> QED BY <1>3, <1>6, <2>1 DEF InHand
<1>7. CASE SetUp(t)
  <2> DEFINE y == [j EXCEPT !.pc = "publish"]
  <2>1. /\ j.pc = "setup" /\ loaded' = loaded
        /\ \/ job' = [job EXCEPT ![t] = y] /\ lock' = lock /\ modules' = [modules EXCEPT ![Module[m]] = m]
           \/ Ends(t) /\ modules' = [modules EXCEPT ![Module[m]] = NoPlugin]
    BY <1>7 DEF SetUp, Goes
  <2>2. y.pc = "publish" /\ y.name = m
    BY <1>1 DEF JobFields
  <2> HIDE DEF y
  <2>3. \A n \in Names : ~InHand(n)
    BY <1>5, <2>1 DEF Imported
  <2>4. CASE job' = [job EXCEPT ![t] = y] /\ lock' = lock /\ modules' = [modules EXCEPT ![Module[m]] = m]
    <3>1. \A n \in Names : InHand(n)' <=> n = m
      BY <1>6, <2>2, <2>4 DEF Imported
    <3> QED BY <1>3, <2>1, <2>3, <2>4, <3>1, ModulesChange
  <2>5. CASE Ends(t) /\ modules' = [modules EXCEPT ![Module[m]] = NoPlugin]
    <3>1. \A n \in Names : ~InHand(n)'
      BY <1>3, <2>5, HandEnds
    <3>2. NoPlugin # m /\ ~ToolLoaded(loaded, m)
      BY <1>3, <1>4, <2>1, NamesAssumption DEF Busy
    <3> QED BY <1>3, <2>1, <2>3, <2>5, <3>1, <3>2, ModulesChange
  <2> QED BY <2>1, <2>4, <2>5
<1>8. CASE Publish(t) \/ Unregister(t)
  <2> DEFINE y == [j EXCEPT !.count = @ + 1]
  <2>1. job' = [job EXCEPT ![t] = y] /\ UNCHANGED <<loaded, modules, lock>>
    BY <1>8 DEF Publish, Unregister, Goes
  <2>2. y.pc = j.pc /\ y.name = m /\ y.version = j.version
    BY <1>1 DEF JobFields
  <2> HIDE DEF y
  <2>3. \A n \in Names : Imported(y, n) <=> Imported(j, n)
    BY <2>2 DEF Imported
  <2> QED BY <2>1, <2>3, ModuleMoves
<1>9. CASE Rollback(t)
  <2>1. j.pc = "publish" /\ Ends(t) /\ loaded' = loaded /\ modules' = [modules EXCEPT ![Module[m]] = NoPlugin]
    BY <1>9 DEF Rollback
  <2>2. \A n \in Names : ~InHand(n)'
    BY <1>3, <2>1, HandEnds
  <2>3. \A n \in Names \ {m} : ~InHand(n)
    BY <1>5 DEF Imported
  <2>4. NoPlugin # m /\ ~ToolLoaded(loaded, m)
    BY <1>3, <1>4, <2>1, NamesAssumption DEF Busy
  <2> QED BY <1>3, <2>1, <2>2, <2>3, <2>4, ModulesChange
<1>10. CASE TearDown(t)
  <2> DEFINE y == [j EXCEPT !.pc = "disable"]
  <2>1. j.pc = "withdraw" /\ loaded' = loaded /\ job' = [job EXCEPT ![t] = y] /\ lock' = lock
        /\ modules' = IF j.version.kind = "tool" THEN [modules EXCEPT ![Module[m]] = NoPlugin] ELSE modules
    BY <1>10 DEF TearDown, Goes
  <2>2. y.pc = "disable"
    BY <1>1 DEF JobFields
  <2> HIDE DEF y
  <2>3. \A n \in Names : ~InHand(n)'
    BY <1>6, <2>1, <2>2 DEF Imported
  <2>4. \A n \in Names \ {m} : ~InHand(n)
    BY <1>5 DEF Imported
  <2>5. CASE j.version.kind = "tool"
    <3>1. NoPlugin # m /\ ~ToolLoaded(loaded, m)
      BY <1>3, <1>4, <2>1, NamesAssumption DEF Busy
    <3> QED BY <1>3, <2>1, <2>3, <2>4, <2>5, <3>1, ModulesChange
  <2>6. CASE j.version.kind # "tool"
    <3>1. \A n \in Names : ~InHand(n)
      BY <1>5, <2>1, <2>6 DEF Imported
    <3> QED BY <2>1, <2>3, <2>6, <3>1, ModulesRest
  <2> QED BY <2>5, <2>6
<1>11. CASE Keep(t)
  <2> DEFINE l == [version |-> j.version, settings |-> j.record.settings]
  <2>1. j.pc \in {"keep", "publish"} /\ Ends(t) /\ loaded' = [loaded EXCEPT ![m] = l] /\ modules' = modules
    BY <1>11 DEF Keep
  <2>2. l # NotLoaded /\ l.version = j.version
    BY LoadedFacts
  <2> HIDE DEF l
  <2>3. \A n \in Names : ~InHand(n)'
    BY <1>3, <2>1, HandEnds
  <2>4. j.pc = "publish" <=> j.version.kind = "tool"
    BY <1>1, <2>1 DEF Shape
  <2>5. \A n \in Names : ToolLoaded(loaded', n) <=> ToolLoaded(loaded, n) \/ InHand(n)
    <3>1. InHand(m) <=> j.version.kind = "tool"
      BY <1>3, <1>5, <2>1, <2>4 DEF Imported
    <3>2. loaded'[m] = l /\ ~ToolLoaded(loaded, m)
      BY <1>3, <1>4, <2>1 DEF ConfirmedInv, Busy
    <3>3. \A n \in Names \ {m} : loaded'[n] = loaded[n] /\ ~InHand(n)
      BY <1>5, <2>1 DEF ConfirmedInv, Imported
    <3> QED BY <2>2, <3>1, <3>2, <3>3 DEF ToolLoaded
  <2> QED BY <2>1, <2>3, <2>5 DEF ModuleInv, ToolLoaded
<1>12. CASE Pop(t)
  <2> DEFINE old == loaded[m]
             y == [j EXCEPT !.pc = "disable"]
             z == [j EXCEPT !.pc = "withdraw", !.version = old.version]
  <2>1. /\ j.pc = "check" /\ loaded' = [loaded EXCEPT ![m] = NotLoaded] /\ modules' = modules /\ lock' = lock
        /\ \/ old = NotLoaded /\ job' = [job EXCEPT ![t] = y]
           \/ old # NotLoaded /\ job' = [job EXCEPT ![t] = z]
    BY <1>12 DEF Pop, Goes
  <2>2. y.pc = "disable" /\ z.pc = "withdraw" /\ z.name = m /\ z.version = old.version
    BY <1>1 DEF JobFields
  <2> HIDE DEF y, z
  <2>3. \A n \in Names : ~InHand(n)
    BY <1>5, <2>1 DEF Imported
  <2>4. \A n \in Names : InHand(n)' <=> n = m /\ ToolLoaded(loaded, m)
    <3>1. CASE old = NotLoaded /\ job' = [job EXCEPT ![t] = y]
      BY <1>6, <2>1, <2>2, <3>1 DEF Imported, ToolLoaded
    <3>2. CASE old # NotLoaded /\ job' = [job EXCEPT ![t] = z]
      <4>1. \A n \in Names : InHand(n)' <=> Imported(z, n)
        BY <1>6, <2>1, <3>2
      <4>2. \A n \in Names : Imported(z, n) <=> n = m /\ old.version.kind = "tool"
        BY <2>2 DEF Imported
      <4> QED BY <3>2, <4>1, <4>2 DEF ToolLoaded
    <3> QED BY <2>1, <3>1, <3>2
  <2>5. \A n \in Names : loaded'[n] = IF n = m THEN NotLoaded ELSE loaded[n]
    BY <2>1 DEF ConfirmedInv
  <2>6. \A n \in Names : ToolLoaded(loaded', n) <=> n # m /\ ToolLoaded(loaded, n)
    BY <2>5 DEF ToolLoaded
  <2> QED BY <2>1, <2>3, <2>4, <2>6 DEF ModuleInv, ToolLoaded
<1> QED BY <1>7, <1>8, <1>9, <1>10, <1>11, <1>12

LEMMA ModuleStep ==
  ASSUME ModuleInv, PublishInv, ConfirmedInv, DistinctModules, [Next]_vars
  PROVE  ModuleInv'
<1>1. CASE UNCHANGED <<loaded, modules, job, lock>>
  BY <1>1, ModulesRest DEF InHand
<1>2. CASE UNCHANGED vars \/ EditPackage \/ Fingerprint \/ Materialize \/ MaterializeRaises \/ MaterializeContext
  BY <1>1, <1>2 DEF vars, process, EditPackage, Fingerprint, Materialize, MaterializeRaises, MaterializeContext
<1>3. CASE RestoreNext
  <2>1. PICK n \in restoring : job' = [job EXCEPT ![Host] = [Idle EXCEPT !.pc = "lock", !.name = n]]
    BY <1>3 DEF RestoreNext
  <2>2. Host \in Workers /\ job[Host] = Idle /\ UNCHANGED <<loaded, modules, lock>>
    BY <1>3 DEF RestoreNext, process, Workers
  <2>3. lock # Host
    BY <2>2, IdleShape DEF PublishInv
  <2> QED BY <2>1, <2>2, <2>3, ModuleMoves
<1>4. CASE Restart
  <2>1. loaded' = [n \in Names |-> NotLoaded] /\ modules' = [m \in ModuleNames |-> NoPlugin] /\ lock' = Free
    BY <1>4 DEF Restart
  <2> QED BY <2>1, NamesAssumption DEF ModuleInv, ToolLoaded, InHand, ModuleNames
<1>5. ASSUME NEW t \in Workers, Step(t)
      PROVE  ModuleInv'
  BY <1>5, ModuleRequests, ModuleLoads DEF Step
<1> QED BY <1>2, <1>3, <1>4, <1>5 DEF Next

\* Between requests the published providers and the imported modules are those
\* of the loaded plugins, which run as confirmed, if no two plugins share a
\* module name: "a-b" and "a_b" would (PluginManager._load).
THEOREM LoadedAsConfirmed ==
  ASSUME DistinctModules
  PROVE  Spec => []OnlyConfirmedArePublished
<1>1. ConfirmedInv /\ PublishInv /\ ModuleInv /\ [Next]_vars => ModuleInv'
  BY ModuleStep
<1>2. ConfirmedInv /\ PublishInv /\ ModuleInv => OnlyConfirmedArePublished
  BY DEF ConfirmedInv, Confirmed, PublishInv, ModuleInv, Hand, ToolsOf, ToolLoaded, InHand,
     OnlyConfirmedArePublished, OnlyConfirmedRuns, PublishedIsLoaded
<1> QED BY ModuleStart, ConfirmedAlways, PublishAlways, <1>1, <1>2, PTL DEF Spec

-----------------------------------------------------------------------------
\* The revision grows whenever the providers change, so an Agent whose
\* fingerprint is current has the current tools.

RevisionInv ==
  /\ revision \in Nat /\ agent.revision \in Int /\ build.agent.revision \in Int
  /\ agent.revision <= revision /\ (build.pc # "idle" => build.agent.revision <= revision)
  /\ agent.revision = revision => agent.tools = tools
  /\ build.pc = "context" /\ build.agent.revision = revision => build.agent.tools = tools
  /\ DOMAIN agent = {"revision", "tools", "context"} /\ DOMAIN build = {"pc", "agent"}
  /\ DOMAIN build.agent = {"revision", "tools", "context"}

LEMMA NoAgentFacts ==
  /\ DOMAIN NoAgent = {"revision", "tools", "context"} /\ NoAgent.revision = -1
  /\ DOMAIN NoBuild = {"pc", "agent"} /\ NoBuild.pc = "idle" /\ NoBuild.agent = NoAgent
BY DEF NoAgent, NoBuild

LEMMA RevisionStart ==
  ASSUME agent = NoAgent, build = NoBuild, revision = 0
  PROVE  RevisionInv
BY NoAgentFacts DEF RevisionInv

\* A request changes the providers only with a new revision.
LEMMA RevisionGrows ==
  ASSUME PublishInv, ConfirmedInv, revision \in Nat, NEW t \in Workers, Step(t)
  PROVE  revision' \in Nat /\ revision' >= revision /\ (revision' = revision => tools' = tools) /\ UNCHANGED agents
<1>1. CASE Publish(t) \/ Unregister(t)
  BY <1>1 DEF Publish, Unregister
<1>2. CASE Rollback(t)
  <2> DEFINE j == job[t]
  <2>1. /\ j.pc = "publish" /\ tools' = {x \in tools : x.name # j.name} /\ revision' = revision + j.count
        /\ UNCHANGED agents
    BY <1>2 DEF Rollback
  <2>2. Shape(j) /\ (Inside(j) <=> lock = t)
    BY DEF PublishInv
  <2>3. lock = t /\ j.count \in Nat
    BY <2>1, <2>2, VersionFacts DEF Shape, Inside
  <2>4. tools = ToolsOf(loaded) \cup Part(j) /\ \A x \in ToolsOf(loaded) : x.name # j.name
    BY <2>1, <2>3, HandNamed DEF Busy
  <2>5. j.count = 0 => Part(j) = {}
    BY <2>1 DEF Part
  <2> QED BY <2>1, <2>3, <2>4, <2>5
<1>3. CASE ~(Publish(t) \/ Unregister(t) \/ Rollback(t))
  <2>1. UNCHANGED <<tools, revision, agents>>
    <3>1. CASE Ask(t) \/ Enter(t) \/ Read(t) \/ Refresh(t) \/ PutRegistered(t) \/ NoManifest(t)
      BY <3>1 DEF Ask, process, Enter, Read, Refresh, PutRegistered, NoManifest
    <3>2. CASE ReplaceSettings(t) \/ Approve(t) \/ SetUp(t) \/ Keep(t) \/ Pop(t) \/ TearDown(t) \/ Disable(t)
      BY <3>2 DEF ReplaceSettings, Approve, SetUp, Keep, Pop, TearDown, Disable
    <3> QED BY <1>3, <3>1, <3>2 DEF Step
  <2> QED BY <2>1
<1> QED BY <1>1, <1>2, <1>3

LEMMA RevisionStep ==
  ASSUME RevisionInv, PublishInv, ConfirmedInv, [Next]_vars
  PROVE  RevisionInv'
<1>1. CASE UNCHANGED <<agents, revision, tools>>
  BY <1>1 DEF RevisionInv, agents
<1>2. CASE UNCHANGED vars \/ EditPackage \/ RestoreNext
  BY <1>1, <1>2 DEF vars, process, EditPackage, RestoreNext
<1>3. CASE Restart
  <2>1. agent' = NoAgent /\ build' = NoBuild /\ revision' = 0
    BY <1>3 DEF Restart
  <2> QED BY <2>1, NoAgentFacts DEF RevisionInv
<1>4. ASSUME NEW t \in Workers, Step(t)
      PROVE  RevisionInv'
  <2>1. revision' \in Nat /\ revision' >= revision /\ (revision' = revision => tools' = tools)
        /\ agent' = agent /\ build' = build
    BY <1>4, RevisionGrows DEF RevisionInv, agents
  <2> QED BY <2>1 DEF RevisionInv
<1>5. CASE Fingerprint
  <2> DEFINE a == [NoAgent EXCEPT !.revision = revision]
             b == [pc |-> "tools", agent |-> a]
  <2>1. build' = b /\ UNCHANGED <<agent, revision, tools>>
    BY <1>5 DEF Fingerprint, process
  <2>2. DOMAIN a = {"revision", "tools", "context"} /\ a.revision = revision
    BY NoAgentFacts
  <2> HIDE DEF a
  <2>3. DOMAIN b = {"pc", "agent"} /\ b.pc = "tools" /\ b.agent = a
    OBVIOUS
  <2> HIDE DEF b
  <2> QED BY <2>1, <2>2, <2>3 DEF RevisionInv
<1>6. CASE Materialize
  <2> DEFINE b == [build EXCEPT !.pc = "context", !.agent.tools = tools]
  <2>1. build.pc = "tools" /\ build' = b /\ UNCHANGED <<agent, revision, tools>>
    BY <1>6 DEF Materialize, process
  <2>2. /\ DOMAIN b = {"pc", "agent"} /\ b.pc = "context" /\ DOMAIN b.agent = {"revision", "tools", "context"}
        /\ b.agent.revision = build.agent.revision /\ b.agent.tools = tools
    BY DEF RevisionInv
  <2> HIDE DEF b
  <2> QED BY <2>1, <2>2 DEF RevisionInv
<1>7. CASE MaterializeRaises
  <2>1. build' = NoBuild /\ UNCHANGED <<agent, revision, tools>>
    BY <1>7 DEF MaterializeRaises, process
  <2> QED BY <2>1, NoAgentFacts DEF RevisionInv
<1>8. CASE MaterializeContext
  <2> DEFINE c == {n \in Names : loaded[n] # NotLoaded /\ loaded[n].version.context}
             a == [build.agent EXCEPT !.context = c]
  <2>1. build.pc = "context" /\ build' = NoBuild /\ agent' = a /\ UNCHANGED <<revision, tools>>
    BY <1>8 DEF MaterializeContext, process
  <2> HIDE DEF c
  <2>2. DOMAIN a = {"revision", "tools", "context"} /\ a.revision = build.agent.revision /\ a.tools = build.agent.tools
    BY DEF RevisionInv
  <2> HIDE DEF a
  <2> QED BY <2>1, <2>2, NoAgentFacts DEF RevisionInv
<1> QED BY <1>2, <1>3, <1>4, <1>5, <1>6, <1>7, <1>8 DEF Next

\* An Agent that is kept has the tools of the registry, however loads and
\* unloads interleave with its build (ToolRegistry's revision, ensure_coordinator).
THEOREM KeptAgentHasTools == Spec => []KeptAgentIsCurrent
<1>1. Init => RevisionInv
  BY RevisionStart DEF Init
<1>2. ConfirmedInv /\ PublishInv /\ RevisionInv /\ [Next]_vars => RevisionInv'
  BY RevisionStep
<1>3. RevisionInv => KeptAgentIsCurrent
  BY DEF RevisionInv, KeptAgentIsCurrent
<1> QED BY ConfirmedAlways, PublishAlways, <1>1, <1>2, <1>3, PTL DEF Spec

-----------------------------------------------------------------------------
\* An external Agent.

Methods == {"initialize", "thread"}
Requests == [id : Nat, method : Methods]
Lines == [id : Nat, what : {"result", "error", "garbage"}]

ChildType ==
  /\ DOMAIN child = {"started", "alive", "ready", "inbox", "pipe", "half"}
  /\ child.inbox \in Seq(Requests) /\ child.pipe \in Seq(Lines)
CallType ==
  /\ DOMAIN call = {"pc", "method", "id", "result"}
  /\ call.method \in Methods /\ call.id \in Nat
Types ==
  /\ ChildType /\ CallType /\ buffer \in Seq(Lines)
  /\ DOMAIN look = {"pc", "op", "kind", "answer"}

\* A result on its way to the reader was served.
Sent(lines) == \A i \in 1..Len(lines) : lines[i].what = "result" /\ lines[i].id # 0 => lines[i].id \in served

\* The request that is under way has an id of its own, and what is notified or
\* over was answered.
CallInv ==
  /\ call.pc \in {"wait", "read"} => call.id # 0
  /\ call.pc \in {"notify", "tell"} => call.id \in served
  /\ call.pc = "over" /\ call.result = "ok" => call.id \in served

\* A transport lives as long as its inspection, and is left alone at its end.
LookInv ==
  /\ look.pc \in {"idle", "open"} => ~child.alive /\ call.pc = "none"
  /\ look.pc = "close" => call.pc = "over"
  /\ look.pc = "close" /\ look.answer = "ok" => call.id \in served

HubInv == Types /\ Sent(child.pipe) /\ Sent(buffer) /\ CallInv /\ LookInv

LEMMA HubStart == HubInit => HubInv
<1> SUFFICES ASSUME HubInit PROVE HubInv
  OBVIOUS
<1>1. child = NoChild /\ buffer = <<>> /\ call = NoCall /\ look = NoLook
  BY DEF HubInit, CodexInit
<1>2. <<>> \in Seq(Requests) /\ <<>> \in Seq(Lines) /\ Len(<<>>) = 0
  OBVIOUS
<1>3. Types
  BY <1>1, <1>2 DEF Types, ChildType, CallType, NoChild, NoCall, NoLook, Methods
<1>4. Sent(child.pipe) /\ Sent(buffer)
  BY <1>1, <1>2 DEF Sent, NoChild
<1> QED BY <1>1, <1>3, <1>4 DEF HubInv, CallInv, LookInv, NoCall, NoLook, NoChild

\* What the call does to itself.
LEMMA CallMoves ==
  ASSUME HubInv, UNCHANGED <<buffer, served, hub>>, look.pc \notin {"idle", "open", "close"},
         CallType', CallInv', child' = child
  PROVE  HubInv'
BY DEF HubInv, Types, ChildType, Sent, LookInv, hub

LEMMA ExchangeStep ==
  ASSUME HubInv, Exchange, UNCHANGED hub
  PROVE  HubInv'
<1>1. Types /\ call.pc \notin {"none", "over"} /\ look' = look
  BY DEF HubInv, Exchange, Ensure, CannotStart, Send, Tell, Deadline, Select, TimesOut, ReadLine, ReadEnd, hub
<1>2. look.pc \notin {"idle", "open", "close"}
  BY <1>1 DEF HubInv, LookInv
<1>3. CASE Ensure
  <2>1. child' = child \/ child' = NewChild
    BY <1>3 DEF Ensure
  <2>2. buffer' = buffer \/ buffer' = <<>>
    BY <1>3 DEF Ensure
  <2>3. UNCHANGED served /\ call.pc \in {"request", "notify"}
        /\ call' = [call EXCEPT !.pc = IF call.pc = "request" THEN "send" ELSE "tell"]
    BY <1>3 DEF Ensure
  <2>4. <<>> \in Seq(Requests) /\ <<>> \in Seq(Lines) /\ Len(<<>>) = 0
    OBVIOUS
  <2>5. ChildType' /\ Sent(child.pipe)'
    <3>1. CASE child' = child
      BY <2>3, <3>1 DEF HubInv, Types, ChildType, Sent
    <3>2. CASE child' = NewChild
      BY <2>4, <3>2 DEF ChildType, Sent, NewChild, NoChild
    <3> QED BY <2>1, <3>1, <3>2
  <2>6. buffer' \in Seq(Lines) /\ Sent(buffer)'
    <3>1. CASE buffer' = buffer
      BY <2>3, <3>1 DEF HubInv, Types, Sent
    <3>2. CASE buffer' = <<>>
      BY <2>4, <3>2 DEF Sent
    <3> QED BY <2>2, <3>1, <3>2
  <2>7. CallType' /\ CallInv'
    BY <1>1, <2>3 DEF HubInv, Types, CallType, CallInv
  <2> QED BY <1>1, <1>2, <2>5, <2>6, <2>7 DEF HubInv, Types, LookInv
<1>4. CASE Send
  <2>1. UNCHANGED <<buffer, served>>
    BY <1>4 DEF Send
  <2>2. CASE child.alive
    <3> DEFINE r == [id |-> call.id + 1, method |-> call.method]
    <3>1. /\ child' = [child EXCEPT !.inbox = Append(@, r)]
          /\ call' = [call EXCEPT !.pc = "wait", !.id = @ + 1]
      BY <1>4, <2>2 DEF Send
    <3>2. r \in Requests
      BY <1>1 DEF Types, CallType, Requests
    <3> HIDE DEF r
    <3>3. Append(child.inbox, r) \in Seq(Requests)
      BY <1>1, <3>2 DEF Types, ChildType
    <3>4. ChildType' /\ child'.pipe = child.pipe
      BY <1>1, <3>1, <3>3 DEF Types, ChildType
    <3>5. CallType' /\ CallInv'
      BY <1>1, <3>1 DEF Types, CallType, CallInv
    <3> QED BY <1>1, <1>2, <2>1, <3>4, <3>5 DEF HubInv, Types, Sent, LookInv
  <2>3. CASE ~child.alive
    <3>1. child' = child /\ CallType' /\ CallInv'
      BY <1>1, <1>4, <2>3 DEF Send, Fails, Types, CallType, CallInv
    <3> QED BY <1>2, <2>1, <3>1, CallMoves
  <2> QED BY <2>2, <2>3
<1>5. CASE Tell
  <2>1. UNCHANGED <<child, buffer, served>>
    BY <1>5 DEF Tell
  <2>2. CallType' /\ CallInv'
    <3>1. call.pc = "tell" /\ call.id \in served /\ UNCHANGED served
      BY <1>5 DEF Tell, HubInv, CallInv
    <3>2. CASE call' = [call EXCEPT !.pc = "over", !.result = "ok"]
      BY <1>1, <3>1, <3>2 DEF Types, CallType, CallInv
    <3>3. CASE Fails
      BY <1>1, <3>1, <3>3 DEF Fails, Types, CallType, CallInv
    <3> QED BY <1>5, <3>2, <3>3 DEF Tell
  <2> QED BY <1>2, <2>1, <2>2, CallMoves
<1>6. CASE CannotStart \/ TimesOut \/ ReadEnd
  <2>1. UNCHANGED <<child, buffer, served>> /\ Fails
    BY <1>6 DEF CannotStart, TimesOut, ReadEnd
  <2>2. CallType' /\ CallInv'
    BY <1>1, <2>1 DEF Fails, Types, CallType, CallInv
  <2> QED BY <1>2, <2>1, <2>2, CallMoves
<1>7. CASE Deadline \/ Select
  <2>1. UNCHANGED <<child, buffer, served>>
    BY <1>7 DEF Deadline, Select
  <2>2. CallType' /\ CallInv'
    BY <1>1, <1>7 DEF Deadline, Select, HubInv, Types, CallType, CallInv
  <2> QED BY <1>2, <2>1, <2>2, CallMoves
<1>8. CASE ReadLine
  <2> DEFINE lines == IF buffer # <<>> THEN buffer ELSE child.pipe
             l == Head(lines)
  <2>1. /\ call.pc = "read" /\ lines # <<>> /\ Take(l) /\ buffer' = Tail(lines) /\ UNCHANGED served
        /\ child' = child \/ child' = [child EXCEPT !.pipe = <<>>]
    BY <1>8 DEF ReadLine
  <2>2. lines \in Seq(Lines) /\ Sent(lines)
    BY <1>1 DEF HubInv, Types, ChildType
  <2> HIDE DEF lines
  <2>3. l \in Lines /\ Tail(lines) \in Seq(Lines) /\ 1 \in 1..Len(lines) /\ l = lines[1]
    BY <2>1, <2>2
  <2>4. \A i \in 1..Len(Tail(lines)) : Tail(lines)[i] = lines[i + 1] /\ i + 1 \in 1..Len(lines)
    BY <2>1, <2>2
  <2>5. Sent(buffer)' /\ buffer' \in Seq(Lines)
    BY <2>1, <2>2, <2>3, <2>4 DEF Sent
  <2>6. l.what = "result" /\ l.id # 0 => l.id \in served
    BY <2>2, <2>3 DEF Sent
  <2>7. CallType' /\ CallInv'
    <3>1. /\ DOMAIN call = {"pc", "method", "id", "result"}
          /\ call.method \in Methods /\ call.id \in Nat /\ call.id # 0
      BY <1>1, <2>1 DEF HubInv, Types, CallType, CallInv
    <3>2. l.what \in {"result", "error", "garbage"}
      BY <2>3 DEF Lines
    <3> HIDE DEF l
    <3> QED BY <2>1, <2>6, <3>1, <3>2 DEF Take, CallType, CallInv
  <2>8. ChildType' /\ Sent(child.pipe)'
    <3>1. <<>> \in Seq(Lines) /\ Len(<<>>) = 0
      OBVIOUS
    <3>2. CASE child' = child
      BY <1>1, <2>1, <3>2 DEF HubInv, Types, ChildType, Sent
    <3>3. CASE child' = [child EXCEPT !.pipe = <<>>]
      BY <1>1, <3>1, <3>3 DEF Types, ChildType, Sent
    <3> QED BY <2>1, <3>2, <3>3
  <2> QED BY <1>1, <1>2, <2>5, <2>7, <2>8 DEF HubInv, Types, LookInv
<1> QED BY <1>3, <1>4, <1>5, <1>6, <1>7, <1>8 DEF Exchange

\* The server writes a line; a result is an answer it gave.
LEMMA ServerWrites ==
  ASSUME HubInv, NEW l \in Lines, child.alive,
         DOMAIN child' = DOMAIN child, child'.inbox \in Seq(Requests), child'.pipe = Append(child.pipe, l),
         served \subseteq served', l.what = "result" /\ l.id # 0 => l.id \in served',
         UNCHANGED <<buffer, call, look>>
  PROVE  HubInv'
<1>1. ChildType /\ ~(look.pc \in {"idle", "open"})
  BY DEF HubInv, Types, LookInv
<1>2. child'.pipe \in Seq(Lines)
  BY <1>1 DEF ChildType
<1>3. \A i \in 1..Len(child'.pipe) :
        child'.pipe[i] = IF i \in 1..Len(child.pipe) THEN child.pipe[i] ELSE l
  BY <1>1 DEF ChildType
<1>4. Sent(child.pipe)'
  BY <1>3 DEF HubInv, Sent
<1>5. Sent(buffer)'
  BY DEF HubInv, Sent
<1> QED BY <1>1, <1>2, <1>4, <1>5 DEF HubInv, Types, ChildType, CallType, CallInv, LookInv

LEMMA ServerStep ==
  ASSUME HubInv, Server, UNCHANGED hub
  PROVE  HubInv'
<1>1. ChildType /\ look' = look
  BY DEF HubInv, Types, hub
<1>2. CASE Respond
  <2> DEFINE r == Head(child.inbox)
             good == child.ready \/ r.method = "initialize"
  <2>1. child.alive /\ child.inbox # <<>> /\ UNCHANGED <<buffer, call>>
    BY <1>2 DEF Respond
  <2>2. r.id \in Nat /\ Tail(child.inbox) \in Seq(Requests)
    <3>1. r \in Requests /\ Tail(child.inbox) \in Seq(Requests)
      BY <1>1, <2>1 DEF ChildType
    <3> QED BY <3>1 DEF Requests
  <2>3. PICK what \in {"result", "error"} :
          /\ child' = [child EXCEPT !.inbox = Tail(@), !.half = FALSE, !.pipe = Append(@, Line(r.id, what)),
                                    !.ready = @ \/ (r.method = "initialize" /\ what = "result")]
          /\ served' = IF what = "result" THEN served \cup {r.id} ELSE served
    BY <1>2 DEF Respond
  <2> DEFINE l == Line(r.id, what)
  <2>4. l \in Lines /\ l.id = r.id /\ l.what = what
    BY <2>2, <2>3 DEF Line, Lines
  <2>5. DOMAIN child' = DOMAIN child /\ child'.inbox = Tail(child.inbox) /\ child'.pipe = Append(child.pipe, l)
    BY <1>1, <2>3 DEF ChildType
  <2>6. served \subseteq served' /\ (l.what = "result" => l.id \in served')
    BY <2>3, <2>4
  <2> HIDE DEF l
  <2> QED BY <1>1, <2>1, <2>2, <2>4, <2>5, <2>6, ServerWrites
<1>3. CASE Chatter
  <2>1. child.alive /\ UNCHANGED <<buffer, call, served>>
    BY <1>3 DEF Chatter
  <2>2. PICK what \in {"result", "garbage"} :
          child' = [child EXCEPT !.half = FALSE, !.pipe = Append(@, Line(0, what))]
    BY <1>3 DEF Chatter
  <2> DEFINE l == Line(0, what)
  <2>3. l \in Lines /\ l.id = 0
    BY <2>2 DEF Line, Lines
  <2>4. DOMAIN child' = DOMAIN child /\ child'.inbox = child.inbox /\ child'.pipe = Append(child.pipe, l)
    BY <1>1, <2>2 DEF ChildType
  <2> HIDE DEF l
  <2> QED BY <1>1, <2>1, <2>3, <2>4, ServerWrites DEF ChildType
<1>4. CASE Begin \/ Exit
  <2>1. child.alive /\ UNCHANGED <<buffer, call, served>>
    BY <1>4 DEF Begin, Exit
  <2>2. ChildType' /\ child'.pipe = child.pipe
    BY <1>1, <1>4 DEF Begin, Exit, ChildType
  <2>3. look.pc \notin {"idle", "open"}
    BY <2>1 DEF HubInv, LookInv
  <2> QED BY <1>1, <2>1, <2>2, <2>3 DEF HubInv, Types, Sent, CallType, CallInv, LookInv
<1> QED BY <1>2, <1>3, <1>4 DEF Server

\* An inspection that ends without a transport, or goes on.
LEMMA LookMoves ==
  ASSUME HubInv, UNCHANGED codex, DOMAIN look' = DOMAIN look, LookInv'
  PROVE  HubInv'
BY DEF HubInv, Types, ChildType, CallType, Sent, CallInv, codex

LEMMA InspectionStep ==
  ASSUME HubInv, Inspection
  PROVE  HubInv'
<1>1. Types
  BY DEF HubInv
<1>2. CASE NotInstalled \/ AskReadOnly \/ RefusesAtOnce \/ AskFacade
  <2>1. PICK what : look.pc = "open" /\ look' = [look EXCEPT !.pc = "idle", !.answer = what] /\ UNCHANGED codex
    BY <1>2 DEF NotInstalled, AskReadOnly, RefusesAtOnce, AskFacade, Answers
  <2>2. DOMAIN look' = DOMAIN look /\ LookInv'
    BY <1>1, <2>1 DEF HubInv, Types, LookInv, codex
  <2> QED BY <2>1, <2>2, LookMoves
<1>3. CASE OpenCodex
  <2>1. /\ look' = [look EXCEPT !.pc = "initialize"] /\ UNCHANGED <<child, buffer, served>>
        /\ call' = [call EXCEPT !.pc = "request", !.method = "initialize"]
    BY <1>3 DEF OpenCodex, Calls
  <2>2. CallType' /\ CallInv'
    BY <1>1, <2>1 DEF Types, CallType, CallInv, Methods
  <2>3. DOMAIN look' = DOMAIN look /\ LookInv'
    BY <1>1, <2>1 DEF Types, LookInv
  <2> QED BY <2>1, <2>2, <2>3 DEF HubInv, Types, ChildType, Sent
<1>4. CASE Initialized
  <2>1. call.pc = "over" /\ call.result = "ok" /\ call.id \in served /\ UNCHANGED <<child, buffer, served>>
    BY <1>4 DEF Initialized, HubInv, CallInv
  <2>2. \/ look' = [look EXCEPT !.pc = "notify"] /\ call' = [call EXCEPT !.pc = "notify"]
        \/ look' = [look EXCEPT !.pc = "close", !.answer = "ok"] /\ UNCHANGED call
        \/ look' = [look EXCEPT !.pc = "ask"] /\ call' = [call EXCEPT !.pc = "request", !.method = "thread"]
    BY <1>4 DEF Initialized, Calls
  <2>3. CallType' /\ CallInv'
    BY <1>1, <2>1, <2>2 DEF HubInv, Types, CallType, CallInv, Methods
  <2>4. DOMAIN look' = DOMAIN look /\ LookInv'
    BY <1>1, <2>1, <2>2 DEF Types, LookInv
  <2> QED BY <2>1, <2>3, <2>4 DEF HubInv, Types, ChildType, Sent
<1>5. CASE Asked
  <2>1. call.pc = "over" /\ UNCHANGED codex /\ UNCHANGED <<call, child, served>>
    BY <1>5 DEF Asked, codex
  <2>2. \/ call.result = "ok" /\ look' = [look EXCEPT !.pc = "close", !.answer = "ok"]
        \/ look' = [look EXCEPT !.pc = "close", !.answer = IF look.op = "capabilities" THEN "empty" ELSE "failed"]
    BY <1>5 DEF Asked
  <2>3. DOMAIN look' = DOMAIN look /\ LookInv'
    BY <1>1, <2>1, <2>2 DEF HubInv, Types, CallInv, LookInv
  <2> QED BY <2>1, <2>3, LookMoves
<1>6. CASE CloseTransport
  <2>1. /\ look' = [look EXCEPT !.pc = "idle"] /\ child' = NoChild /\ buffer' = <<>> /\ call' = NoCall
    BY <1>6 DEF CloseTransport, Close
  <2>2. <<>> \in Seq(Requests) /\ <<>> \in Seq(Lines) /\ Len(<<>>) = 0
    OBVIOUS
  <2>3. ChildType' /\ CallType' /\ (Sent(child.pipe) /\ Sent(buffer))'
    BY <2>1, <2>2 DEF ChildType, CallType, Sent, NoChild, NoCall, Methods
  <2>4. CallInv' /\ LookInv' /\ DOMAIN look' = DOMAIN look
    BY <1>1, <2>1 DEF Types, CallInv, LookInv, NoChild, NoCall
  <2> QED BY <2>1, <2>2, <2>3, <2>4 DEF HubInv, Types
<1> QED BY <1>2, <1>3, <1>4, <1>5, <1>6 DEF Inspection

LEMMA HubStep ==
  ASSUME HubInv, [HubNext]_hubVars
  PROVE  HubInv'
<1>1. CASE UNCHANGED codex /\ look' = look
  BY <1>1, LookMoves DEF HubInv, LookInv, codex
<1>2. CASE UNCHANGED hubVars
  BY <1>1, <1>2 DEF hubVars, hub
<1>3. CASE (\E e \in Editors : Check(e) \/ Put(e)) \/ RemoveDefinition
  BY <1>1, <1>3 DEF Check, Put, RemoveDefinition
<1>4. CASE Inspect
  <2>1. look.pc = "idle" /\ UNCHANGED codex
    BY <1>4 DEF Inspect
  <2>2. PICK a \in Agents, op \in Ops :
          look' = [pc |-> "open", op |-> op, kind |-> definitions[a], answer |-> "none"]
    BY <1>4 DEF Inspect
  <2>3. DOMAIN look' = DOMAIN look /\ LookInv'
    BY <2>1, <2>2 DEF HubInv, Types, LookInv, codex
  <2> QED BY <2>1, <2>3, LookMoves
<1>5. CASE Transport
  BY <1>5, ExchangeStep DEF Transport
<1>6. CASE Runtime
  BY <1>6, ServerStep DEF Runtime
<1>7. CASE Inspection
  BY <1>7, InspectionStep
<1> QED BY <1>2, <1>3, <1>4, <1>5, <1>6, <1>7 DEF HubNext

LEMMA HubAlways == HubSpec => []HubInv
<1>1. HubInv /\ [HubNext]_hubVars => HubInv'
  BY HubStep
<1> QED BY HubStart, <1>1, PTL DEF HubSpec

\* No App Server process is left when an inspection is over
\* (codex_app_server.py: close in a finally).
THEOREM EveryTransportIsClosed == HubSpec => []NoChildLeft
<1>1. HubInv => NoChildLeft
  BY DEF HubInv, LookInv, NoChildLeft
<1> QED BY HubAlways, <1>1, PTL

\* An answer that is reported was given by the server to that request
\* (codex_app_server.py:207).
THEOREM AnswersAreServed == HubSpec => []ReportedIsServed
<1>1. HubInv => ReportedIsServed
  BY DEF HubInv, LookInv, ReportedIsServed
<1> QED BY HubAlways, <1>1, PTL
=============================================================================
