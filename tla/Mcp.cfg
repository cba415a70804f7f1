\* Three calls of two Agents on one bridge; two builders and two edits of two servers.
SPECIFICATION FairSpec
CONSTANTS
  c1 = c1
  c2 = c2
  c3 = c3
  srv = srv
  Calls = {c1, c2, c3}
  Servers = {srv}
  Agents = {"main", "worker"}
  CallOf <- MCCallOf
  MaxFailures = 1
  Ids = {"a", "b"}
  Stored = {"a"}
  Editors = {e1}
  Changes = {"create", "replace", "remove", "probe", "credentials", "bind"}
  Bindings <- MCBindings
  MaxEdits = 1
  Builders = {u1, u2}
  MaxBuilds = 2
CHECK_DEADLOCK FALSE
INVARIANTS
  OneClientAtATime
  BridgesAreOwned
PROPERTY
  TrackedCallsReturn
