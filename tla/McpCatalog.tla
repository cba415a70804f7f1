-------------------------------- MODULE McpCatalog --------------------------------
(***************************************************************************)
(* The documents of MCPStore: the catalog of servers, their credentials    *)
(* and one Session's bindings, edited by requests that read, change and    *)
(* write them without a lock.  Each document is replaced as a whole.       *)
(***************************************************************************)
EXTENDS Integers, FiniteSets

CONSTANTS
  Ids,         \* servers, also their names
  Stored,      \* those a first start finds, for both roles
  Editors,     \* request threads that edit
  Changes,     \* the kinds of edit that are tried
  Bindings,    \* the sets of bindings that are tried
  MaxEdits

Roles == {"coordinator", "worker"}
Kinds == {"create", "replace", "remove", "probe", "credentials", "bind"}
ASSUME CatalogConstants ==
  Changes \subseteq Kinds /\ Bindings \subseteq [Ids -> SUBSET Roles] /\ MaxEdits \in Nat

VARIABLES
  catalog,   \* server -> its record; the stamp is updated_at, 0 for no record
  secret,    \* server -> the edit its credentials are from, 0 for no document
  bound,     \* server -> the roles it is bound to
  edit,      \* editor -> the edit it is at
  edits

documents == <<catalog, secret, bound>>
store == <<documents, edit, edits>>

NoRecord == [name |-> "", ok |-> FALSE, stamp |-> 0]
Records == [name : Ids \cup {""}, ok : BOOLEAN, stamp : 0..MaxEdits + 1]
Present(cat) == {s \in Ids : cat[s].stamp > 0}

\* _records raises for a catalog that holds a name twice.
Readable(cat) == \A s, t \in Present(cat) : cat[s].name = cat[t].name => s = t

NoEdit == [pc |-> "idle", kind |-> "bind", id |-> 0, server |-> CHOOSE s \in Ids : TRUE,
           name |-> "", roles |-> [s \in Ids |-> {}], read |-> [s \in Ids |-> NoRecord]]

StoreTypeOK ==
  /\ catalog \in [Ids -> Records] /\ secret \in [Ids -> 0..MaxEdits + 1]
  /\ bound \in [Ids -> SUBSET Roles] /\ edits \in 0..MaxEdits
  /\ \A e \in Editors :
       /\ edit[e].pc \in {"idle", "pop", "close", "drain", "shut", "read", "catalog", "secret", "bindings"}
       /\ edit[e].kind \in Kinds /\ edit[e].id \in 0..MaxEdits + 1 /\ edit[e].server \in Ids
       /\ edit[e].name \in Ids \cup {""} /\ edit[e].roles \in [Ids -> SUBSET Roles]
       /\ edit[e].read \in [Ids -> Records]

StoreInit ==
  /\ catalog = [s \in Ids |-> IF s \in Stored THEN [name |-> s, ok |-> TRUE, stamp |-> 1] ELSE NoRecord]
  /\ secret = [s \in Ids |-> IF s \in Stored THEN 1 ELSE 0]
  /\ bound = [s \in Ids |-> IF s \in Stored THEN Roles ELSE {}]
  /\ edit = [e \in Editors |-> NoEdit] /\ edits = 0

At(e, pc) == edit[e].pc = pc
Goes(e, pc) == edit' = [edit EXCEPT ![e].pc = pc]
Ends(e) == edit' = [edit EXCEPT ![e] = NoEdit]

Unused(s) == catalog[s] = NoRecord /\ secret[s] = 0
             /\ \A e \in Editors : edit[e].pc = "idle" \/ edit[e].server # s

\* The edit of a request, numbered behind what a first start finds.
Requested(kind, s, name, roles) ==
  [NoEdit EXCEPT !.pc = "pop", !.kind = kind, !.id = edits + 2, !.server = s, !.name = name, !.roles = roles]

\* A request arrives: create makes a fresh id, bind carries the whole set.
Ask(e) ==
  /\ At(e, "idle") /\ edits < MaxEdits /\ edits' = edits + 1
  /\ \E kind \in Changes, s \in Ids, name \in Ids, roles \in Bindings \cup {NoEdit.roles} :
       /\ kind = "create" => Unused(s)
       /\ kind \notin {"create", "replace"} => name = s
       /\ kind = "bind" \/ roles = NoEdit.roles
       /\ edit' = [edit EXCEPT ![e] = Requested(kind, s, name, roles)]
  /\ UNCHANGED documents

\* What the request refuses after it has read the catalog; only create looks
\* for the name.
Refused(x) ==
  \/ ~Readable(catalog)
  \/ x.kind = "create" /\ \E s \in Present(catalog) : catalog[s].name = x.name
  \/ x.kind # "create" /\ x.server \notin Present(catalog)

Read(e) ==
  /\ At(e, "read")
  /\ IF Refused(edit[e]) THEN Ends(e)
     ELSE edit' = [edit EXCEPT ![e].read = catalog, ![e].pc = "catalog"]
  /\ UNCHANGED <<documents, edits>>

\* The records as they were read, with the change.
Edited(x) ==
  CASE x.kind = "remove" -> [x.read EXCEPT ![x.server] = NoRecord]
    [] x.kind \in {"create", "replace"} -> [x.read EXCEPT ![x.server] = [name |-> x.name, ok |-> FALSE, stamp |-> x.id]]
    [] x.kind = "probe" -> [x.read EXCEPT ![x.server] = [@ EXCEPT !.ok = TRUE, !.stamp = x.id]]
    [] OTHER -> [x.read EXCEPT ![x.server].stamp = x.id]

WriteCatalog(e) ==
  /\ At(e, "catalog") /\ catalog' = Edited(edit[e])
  /\ IF edit[e].kind = "probe" THEN Ends(e) ELSE Goes(e, "secret")
  /\ UNCHANGED <<secret, bound, edits>>

\* The credentials document: written after the catalog, or unlinked.
WriteSecret(e) ==
  /\ At(e, "secret")
  /\ secret' = [secret EXCEPT ![edit[e].server] = IF edit[e].kind = "remove" THEN 0 ELSE edit[e].id]
  /\ IF edit[e].kind = "remove" THEN Goes(e, "bindings") ELSE Ends(e)
  /\ UNCHANGED <<catalog, bound, edits>>

\* write_bindings: refused when any binding names a server the catalog lacks.
WriteBindings(e) ==
  LET x == edit[e]
      new == IF x.kind = "remove" THEN [bound EXCEPT ![x.server] = {}] ELSE x.roles
  IN /\ At(e, "bindings") /\ Ends(e)
     /\ bound' = IF Readable(catalog) /\ \A s \in Ids : new[s] # {} => s \in Present(catalog) THEN new ELSE bound
     /\ UNCHANGED <<catalog, secret, edits>>

Editing == \E e \in Editors : Ask(e) \/ Read(e) \/ WriteCatalog(e) \/ WriteSecret(e) \/ WriteBindings(e)
=============================================================================
