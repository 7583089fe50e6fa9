------------------------------ MODULE OrgTree ------------------------------
(***************************************************************************)
(* The organisation: SystemConfigService's nodes and their types, and the  *)
(* CacheService that keeps what was read of them.  Every check of a node   *)
(* is a query of its own before the write; every read of the tree is       *)
(* cache-aside, every write deletes the keys it knows of when it is done.  *)
(***************************************************************************)
EXTENDS Naturals, FiniteSets

CONSTANTS
  Nodes, None,
  Begun,      \* the parents of the nodes there are already
  Slots,      \* calls that may be under way at a time
  Ops,        \* the operations in use, "deaf" when Redis may not answer
  MaxWrites   \* bound: calls that write

\* The nodes there are already are finitely many and hang on roots.
ASSUME OrgAssumption ==
  /\ None \notin Nodes /\ MaxWrites \in Nat
  /\ IsFiniteSet(Nodes) /\ Nodes # {}
  /\ \E held \in SUBSET Nodes : Begun \in [held -> held \cup {None}]
  /\ \A S \in SUBSET DOMAIN Begun : S # {} => \E n \in S : Begun[n] \notin S
  /\ Ops \subseteq {"create", "move", "activate", "delete", "type", "read", "deaf"}

VARIABLES
  created, parent, active, \* org.nodes
  label,                   \* what org.structure_types says of the nodes' types
  cache,                   \* CacheService, by key
  call,                    \* the calls under way
  writes,                  \* writing calls begun
  together                 \* history: a move was begun beside another

table == <<created, parent, active, label>>
vars  == <<table, cache, call, writes, together>>

Keys == {"org:tree", "org:structure-types"}
Nothing == [none |-> TRUE]
Tree == [active : SUBSET Nodes, parent : [Nodes -> Nodes \cup {None}], label : BOOLEAN]
Call == [op : {"none", "create", "move", "activate", "delete", "type", "read"},
         pc : {"idle", "check", "write", "clear", "miss", "fill"},
         node : Nodes, to : Nodes \cup {None}, key : Keys,
         got : Tree \cup {Nothing}]
Idle == [op |-> "none", pc |-> "idle", node |-> CHOOSE n \in Nodes : TRUE, to |-> None,
         key |-> "org:tree", got |-> Nothing]

TypeOK ==
  /\ created \subseteq Nodes /\ active \subseteq created
  /\ parent \in [Nodes -> created \cup {None}]
  /\ label \in BOOLEAN
  /\ cache \in [Keys -> Tree \cup {Nothing}]
  /\ call \in [Slots -> Call]
  /\ writes \in 0 .. MaxWrites
  /\ together \in BOOLEAN

At(s, op, pc) == call[s].op = op /\ call[s].pc = pc
Goto(s, pc) == call' = [call EXCEPT ![s].pc = pc]
Ends(s) == call' = [call EXCEPT ![s] = Idle]

Children(n) == {m \in created : parent[m] = n}
\* WITH RECURSIVE descendants: the rounds of the query, which ends when a round
\* finds no row.  Along a cycle it never does.
Round(n) ==
  LET round[k \in 0 .. Cardinality(Nodes)] ==
        IF k = 0 THEN Children(n) ELSE UNION {Children(m) : m \in round[k - 1]}
  IN round
Descendants(n) == UNION {Round(n)[k] : k \in 0 .. Cardinality(Nodes)}
Terminates(n) == Round(n)[Cardinality(Nodes)] = {}

\* The organisation there is when the calls begin, all of it active.
Init ==
  /\ created = DOMAIN Begun /\ active = created
  /\ parent = [n \in Nodes |-> IF n \in created THEN Begun[n] ELSE None]
  /\ label = FALSE
  /\ cache = [k \in Keys |-> Nothing]
  /\ call = [s \in Slots |-> Idle]
  /\ writes = 0 /\ together = FALSE
(***************************************************************************)
(* Writing calls                                                           *)
(***************************************************************************)
Starts(s, op, pc, n, p, k) ==
  /\ op \in Ops /\ At(s, "none", "idle") /\ writes < MaxWrites
  /\ call' = [call EXCEPT ![s] = [Idle EXCEPT !.op = op, !.pc = pc, !.node = n,
                                              !.to = p, !.key = k]]
  /\ writes' = writes + 1
  /\ together' = (together \/ (op = "move" /\ \E r \in Slots : call[r].op = "move"))
  /\ UNCHANGED <<table, cache>>

\* A node may be put below any row there is, active or not.
Parents == created \cup {None}
StartCreate(s, n, p) ==
  /\ n \notin created /\ p \in Parents
  /\ \A r \in Slots : At(r, "create", "write") => call[r].node # n
  /\ Starts(s, "create", "write", n, p, "org:tree")
StartMove(s, n, p) ==
  /\ n \in created /\ p \in Parents \ {n}
  /\ Starts(s, "move", IF p = None THEN "write" ELSE "check", n, p, "org:tree")
StartActivate(s, n) == n \in created /\ Starts(s, "activate", "write", n, None, "org:tree")
StartDelete(s, n) == n \in created /\ Starts(s, "delete", "check", n, None, "org:tree")
StartType(s, n) == Starts(s, "type", "write", n, None, "org:structure-types")

\* A plausible bug: only the nodes right below it are looked at.
CircularNear(n, p) == p \in Children(n)
Circular(n, p) == p \in Descendants(n)
ChecksMove(s) ==
  /\ At(s, "move", "check") /\ Terminates(call[s].node)
  /\ IF Circular(call[s].node, call[s].to) THEN Ends(s) ELSE Goto(s, "write")
  /\ UNCHANGED <<table, cache, writes, together>>

ChecksDelete(s) ==
  /\ At(s, "delete", "check")
  /\ IF Children(call[s].node) \cap active # {} THEN Ends(s) ELSE Goto(s, "write")
  /\ UNCHANGED <<table, cache, writes, together>>

\* INSERT or UPDATE; the update of a node may set is_active to either value.
Writes(s) ==
  LET c == call[s] IN
  /\ c.pc = "write"
  /\ created' = IF c.op = "create" THEN created \cup {c.node} ELSE created
  /\ parent' = IF c.op \in {"create", "move"} THEN [parent EXCEPT ![c.node] = c.to] ELSE parent
  /\ active' \in CASE c.op = "create"   -> {active \cup {c.node}}
                   [] c.op = "activate" -> {active \cup {c.node}, active \ {c.node}}
                   [] c.op = "delete"   -> {active \ {c.node}}
                   [] OTHER             -> {active}
  /\ label' = IF c.op = "type" THEN ~label ELSE label
  /\ Goto(s, "clear")
  /\ UNCHANGED <<cache, writes, together>>
(***************************************************************************)
(* CacheService                                                            *)
(***************************************************************************)
Deaf == IF "deaf" \in Ops THEN BOOLEAN ELSE {FALSE}

ClearedKeys(k) == {k}
\* del and delByPrefix: an error of Redis is swallowed.
Clears(s) ==
  /\ call[s].pc = "clear"
  /\ \E deaf \in Deaf :
       cache' = [k \in Keys |->
                   IF ~deaf /\ k \in ClearedKeys(call[s].key) THEN Nothing ELSE cache[k]]
  /\ Ends(s)
  /\ UNCHANGED <<table, writes, together>>

\* wrap: get, then the query, then set; a call that hits is over at once.
Misses(s, k) ==
  /\ "read" \in Ops /\ At(s, "none", "idle")
  /\ cache[k] = Nothing \/ "deaf" \in Ops
  /\ call' = [call EXCEPT ![s] = [Idle EXCEPT !.op = "read", !.pc = "miss", !.key = k]]
  /\ UNCHANGED <<table, cache, writes, together>>

Current == [active |-> active, parent |-> [n \in Nodes |-> IF n \in active THEN parent[n] ELSE None],
            label |-> label]
Of(k) == IF k = "org:tree" THEN Current
         ELSE [active |-> {}, parent |-> [n \in Nodes |-> None], label |-> label]
Queries(s) ==
  /\ At(s, "read", "miss")
  /\ call' = [call EXCEPT ![s].pc = "fill", ![s].got = Of(call[s].key)]
  /\ UNCHANGED <<table, cache, writes, together>>

Fills(s) ==
  /\ At(s, "read", "fill")
  /\ \E deaf \in Deaf :
       cache' = IF deaf THEN cache ELSE [cache EXCEPT ![call[s].key] = call[s].got]
  /\ Ends(s)
  /\ UNCHANGED <<table, writes, together>>

\* A plausible bug: an entry whose time has passed is served all the same.
LastsForever(k) == FALSE
Lapses(k) == cache[k] # Nothing
\* The TTL of an entry passes.
Expires(k) ==
  /\ Lapses(k)
  /\ cache' = [cache EXCEPT ![k] = Nothing]
  /\ UNCHANGED <<table, call, writes, together>>

Steps(s) == \/ ChecksMove(s) \/ ChecksDelete(s) \/ Writes(s) \/ Clears(s)
            \/ Queries(s) \/ Fills(s)
Next ==
  \/ \E s \in Slots, n \in Nodes :
       \/ \E p \in Nodes \cup {None} : StartCreate(s, n, p) \/ StartMove(s, n, p)
       \/ StartActivate(s, n) \/ StartDelete(s, n) \/ StartType(s, n)
  \/ \E s \in Slots : Steps(s) \/ \E k \in Keys : Misses(s, k)
  \/ \E k \in Keys : Expires(k)

Spec == Init /\ [][Next]_vars
\* A call is answered, an entry grows old.
LiveSpec == Spec /\ \A s \in Slots : WF_vars(Steps(s))
                 /\ \A k \in Keys : WF_vars(Expires(k))
(***************************************************************************)
(* getOrgNodeTree, as it builds the tree of the rows it has read           *)
(***************************************************************************)
\* A plausible bug: only a node without a parent is a root.
RootsTop(t) == {n \in t.active : t.parent[n] = None}
Roots(t) == {n \in t.active : t.parent[n] \notin t.active}
Hangs(t) ==
  LET below[k \in 0 .. Cardinality(Nodes)] ==
        IF k = 0 THEN Roots(t)
        ELSE below[k - 1] \cup {n \in t.active : t.parent[n] \in below[k - 1]}
  IN below[Cardinality(Nodes)]
(***************************************************************************)
(* Properties                                                              *)
(***************************************************************************)
\* No node is its own ancestor: "Referencia circular" is refused, whatever is
\* created, deactivated or deleted beside the move; only a second move that is
\* checked before the first is written gets past it.
NoCycle == ~together => \A n \in created : n \notin Descendants(n)

\* Every active node hangs somewhere in the tree that is shown, whatever was
\* deactivated above it.
NobodyMissing == ~together => Hangs(Current) = active

\* When the writing is over the cache comes to agree with the tables and stays
\* so, although a reader may put back what a writer has just deleted and Redis
\* may not answer.
CacheSettles == \A k \in Keys : <>[](cache[k] \in {Nothing, Of(k)})
=============================================================================
