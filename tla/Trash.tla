------------------------------- MODULE Trash -------------------------------
(***************************************************************************)
(* The trash: AdminService and UsersService put rows into it, take them    *)
(* out and delete them for good, statement by statement and in no          *)
(* transaction; CleanupService purges what has lain there for 90 days,     *)
(* table by table.  Users alone have a second row, in auth.credentials.    *)
(*                                                                         *)
(* PostgreSQL refuses to delete a row that others refer to: a profile by   *)
(* its requests (as requester, reviewer, escalator), a global role by its  *)
(* profiles; and for as long as rows stay that no trash deletes, a profile *)
(* with ticket assignments (SET NULL on a NOT NULL column), an asset with  *)
(* assignments or history, a structure type with nodes, a module whose     *)
(* roles were given out.                                                   *)
(***************************************************************************)
EXTENDS Naturals, Sequences

CONSTANTS
  Items, None,
  Table,      \* the table of each row
  Refers,     \* the rows of the trash's tables a row refers to
  Held,       \* rows that rows outside of these tables refer to
  Slots,      \* calls of the administrators that may be under way at a time
  Ops         \* the operations in use; "time" when rows may lapse, "fail" a query

\* The tables in the order of the purge.
Order == <<"modules", "users", "roles", "requests", "structure_types", "tickets", "assets">>
Users == {i \in Items : Table[i] = "users"}

ASSUME TrashAssumption ==
  /\ Table \in [Items -> {Order[n] : n \in DOMAIN Order}]
  /\ Refers \in [Items -> SUBSET Items] /\ Held \subseteq Items /\ None \notin Items
  /\ Ops \subseteq {"delete", "remove", "restore", "permanent", "time", "fail"}

VARIABLES
  row,      \* each row: live, in the trash, due for the purge, gone
  cred,     \* auth.credentials of each user
  assigned, \* users with an active ticket assignment
  roles,    \* users with an active role in a module
  stale,    \* whether refresh tokens lie expired in their table
  purge,    \* the step purgeExpired is at
  call,     \* the calls under way
  torn      \* history: users of whom a call or the purge did one half

vars == <<row, cred, assigned, roles, stale, purge, call, torn>>

\* A plausible bug: a table is left out.
StepsWithoutRequests == <<"modules", "credentials", "users", "roles",
                          "structure_types", "tickets", "assets", "tokens">>
\* A plausible bug: the run ends with the last table.
StepsWithoutTokens == <<"modules", "credentials", "users", "roles", "requests",
                        "structure_types", "tickets", "assets">>
Steps == <<"modules", "credentials", "users", "roles", "requests",
           "structure_types", "tickets", "assets", "tokens">>

Call == [op : {"none", "delete", "remove", "restore", "permanent"},
         pc : {"idle", "credentials", "assignments", "assets", "profile"},
         user : Users \cup {None}]
Idle == [op |-> "none", pc |-> "idle", user |-> None]

TypeOK ==
  /\ row \in [Items -> {"live", "trash", "due", "gone"}]
  /\ cred \in [Users -> {"active", "inactive", "none"}]
  /\ assigned \subseteq Users /\ roles \subseteq Users /\ torn \subseteq Users
  /\ stale \in BOOLEAN
  /\ purge \in 0 .. Len(Steps)
  /\ call \in [Slots -> Call]

Init ==
  /\ row = [i \in Items |-> "live"]
  /\ cred = [u \in Users |-> "active"]
  /\ assigned = Users \cap Held /\ roles = Users /\ torn = {}
  /\ stale = FALSE /\ purge = 0
  /\ call = [s \in Slots |-> Idle]

InTrash(i) == row[i] \in {"trash", "due"}
Referred(i) ==
  i \in Held \/ \E j \in Items : i \in Refers[j] /\ row[j] # "gone"

\* Between the DELETE of the credentials and that of the profiles.
Halfway == purge # 0 /\ Steps[purge] = "users"
Becomes(i, to) == row' = [row EXCEPT ![i] = to]
Switch(u, to) == cred' = [cred EXCEPT ![u] = IF @ = "none" THEN "none" ELSE to]
At(s, op, pc) == call[s].op = op /\ call[s].pc = pc
Goto(s, op, pc, u) == call' = [call EXCEPT ![s] = [op |-> op, pc |-> pc, user |-> u]]
Ends(s) == call' = [call EXCEPT ![s] = Idle]
Free(s, op) == op \in Ops /\ At(s, "none", "idle")
OnUser(u) == \E s \in Slots : call[s].user = u
Tears(S) == torn' = torn \cup S
\* A call on a user that begins beside another, or beside the purge of users.
Begins(s, op, pc, u) ==
  /\ Free(s, op) /\ Goto(s, op, pc, u)
  /\ IF OnUser(u) \/ Halfway THEN Tears({u}) ELSE UNCHANGED torn
KeepsRest == UNCHANGED <<stale, purge>>
(***************************************************************************)
(* softDeleteOne, restoreOne, permanentDeleteOne of what is no user        *)
(***************************************************************************)
DeleteRow(i) ==
  /\ "delete" \in Ops /\ row[i] = "live"
  /\ Becomes(i, "trash")
  /\ UNCHANGED <<cred, assigned, roles, call, torn>> /\ KeepsRest

RestoreRow(i) ==
  /\ "restore" \in Ops /\ InTrash(i)
  /\ Becomes(i, "live")
  /\ UNCHANGED <<cred, assigned, roles, call, torn>> /\ KeepsRest

PermanentRow(i) ==
  /\ "permanent" \in Ops /\ InTrash(i) /\ ~Referred(i)
  /\ Becomes(i, "gone")
  /\ UNCHANGED <<cred, assigned, roles, call, torn>> /\ KeepsRest
(***************************************************************************)
(* The same of a user: a statement for the profile, one for the credentials*)
(***************************************************************************)
DeleteUser(s, u) ==
  /\ Begins(s, "delete", "credentials", u)
  /\ IF row[u] = "live" THEN Becomes(u, "trash") ELSE UNCHANGED row
  /\ UNCHANGED <<cred, assigned, roles>> /\ KeepsRest

DeleteCredentials(s) ==
  /\ At(s, "delete", "credentials")
  /\ Switch(call[s].user, "inactive") /\ Ends(s)
  /\ UNCHANGED <<row, assigned, roles, torn>> /\ KeepsRest

\* A plausible bug: the credentials stay switched off.
RestoredOff == "inactive"
Restored == "active"
RestoreUser(s, u) ==
  /\ Begins(s, "restore", "credentials", u)
  /\ IF InTrash(u) THEN Becomes(u, "live") ELSE UNCHANGED row
  /\ UNCHANGED <<cred, assigned, roles>> /\ KeepsRest

RestoreCredentials(s) ==
  /\ At(s, "restore", "credentials")
  /\ Switch(call[s].user, Restored) /\ Ends(s)
  /\ UNCHANGED <<row, assigned, roles, torn>> /\ KeepsRest

\* The credentials of a user go whether or not the profile is in the trash.
PermanentCredentials(s, u) ==
  /\ Begins(s, "permanent", "profile", u)
  /\ cred' = [cred EXCEPT ![u] = "none"]
  /\ UNCHANGED <<row, assigned, roles>> /\ KeepsRest

PermanentProfile(s) ==
  LET u == call[s].user IN
  /\ At(s, "permanent", "profile") /\ Ends(s)
  /\ IF InTrash(u) /\ ~Referred(u)
       THEN Becomes(u, "gone") /\ UNCHANGED torn
       ELSE Tears({u}) /\ UNCHANGED row
  /\ UNCHANGED <<cred, assigned, roles>> /\ KeepsRest
(***************************************************************************)
(* UsersService.deleteUser                                                 *)
(***************************************************************************)
RemoveReads(s, u) ==
  /\ row[u] = "live"
  /\ Begins(s, "remove", "profile", u)
  /\ UNCHANGED <<row, cred, assigned, roles>> /\ KeepsRest

RemoveProfile(s) ==
  LET u == call[s].user IN
  /\ At(s, "remove", "profile")
  /\ IF row[u] # "gone" THEN Becomes(u, "trash") ELSE UNCHANGED row
  /\ Goto(s, "remove", "credentials", u)
  /\ UNCHANGED <<cred, assigned, roles, torn>> /\ KeepsRest

RemoveCredentials(s) ==
  /\ At(s, "remove", "credentials")
  /\ Switch(call[s].user, "inactive")
  /\ Goto(s, "remove", "assignments", call[s].user)
  /\ UNCHANGED <<row, assigned, roles, torn>> /\ KeepsRest

\* The rows stay, and refer to the profile as before.
RemoveAssignments(s) ==
  /\ At(s, "remove", "assignments")
  /\ assigned' = assigned \ {call[s].user}
  /\ Goto(s, "remove", "assets", call[s].user)
  /\ UNCHANGED <<row, cred, roles, torn>> /\ KeepsRest

\* UPDATE inventory.asset_assignments SET returned_at: there is no such column,
\* the statement throws and what follows it, the roles above all, is not done.
RemoveAssets(s) ==
  /\ At(s, "remove", "assets")
  /\ Ends(s)
  /\ UNCHANGED <<row, cred, assigned, roles, torn>> /\ KeepsRest

\* A query fails: what the call has written stays written.
CallFails(s) ==
  /\ "fail" \in Ops /\ call[s].op # "none"
  /\ Ends(s) /\ Tears({call[s].user})
  /\ UNCHANGED <<row, cred, assigned, roles>> /\ KeepsRest
(***************************************************************************)
(* Time, and the purge of every night                                      *)
(***************************************************************************)
\* A user who lapses halfway through a purge loses the profile alone.
Lapses(i) ==
  /\ "time" \in Ops /\ row[i] = "trash"
  /\ Becomes(i, "due")
  /\ IF Halfway THEN Tears({i} \cap Users) ELSE UNCHANGED torn
  /\ UNCHANGED <<cred, assigned, roles, call>> /\ KeepsRest

TokensExpire ==
  /\ "time" \in Ops /\ ~stale
  /\ stale' = TRUE
  /\ UNCHANGED <<row, cred, assigned, roles, purge, call, torn>>

\* A plausible bug: the trash is emptied of everything, the date not asked for.
DueInTrash(i) == row[i] # "gone"
Due(i) == row[i] = "due"

AtStep(step) == purge # 0 /\ Steps[purge] = step
GoesOn == purge' = IF purge = Len(Steps) THEN 0 ELSE purge + 1

PurgeBegins ==
  /\ "time" \in Ops /\ purge = 0
  /\ purge' = 1
  /\ UNCHANGED <<row, cred, assigned, roles, stale, call, torn>>

PurgeCredentials ==
  /\ AtStep("credentials") /\ GoesOn
  /\ cred' = [u \in Users |-> IF Due(u) THEN "none" ELSE cred[u]]
  /\ Tears({u \in Users : Due(u) /\ OnUser(u)})
  /\ UNCHANGED <<row, assigned, roles, stale, call>>

\* One DELETE for the table: a single row that is referred to makes it throw,
\* and everything that would follow waits for another night.
PurgeTable ==
  LET due == {i \in Items : AtStep(Table[i]) /\ Due(i)} IN
  /\ purge # 0 /\ Steps[purge] \notin {"credentials", "tokens"}
  /\ IF \E i \in due : Referred(i)
       THEN UNCHANGED row /\ purge' = 0 /\ Tears(due \cap Users)
       ELSE /\ row' = [i \in Items |-> IF i \in due THEN "gone" ELSE row[i]]
            /\ GoesOn /\ UNCHANGED torn
  /\ UNCHANGED <<cred, assigned, roles, stale, call>>

PurgeTokens ==
  /\ AtStep("tokens") /\ GoesOn
  /\ stale' = FALSE
  /\ UNCHANGED <<row, cred, assigned, roles, call, torn>>

Purge == PurgeBegins \/ PurgeCredentials \/ PurgeTable \/ PurgeTokens
Serve(s) ==
  \/ DeleteCredentials(s) \/ RestoreCredentials(s) \/ PermanentProfile(s)
  \/ RemoveProfile(s) \/ RemoveCredentials(s) \/ RemoveAssignments(s) \/ RemoveAssets(s)
Next ==
  \/ \E i \in Items \ Users : DeleteRow(i) \/ RestoreRow(i) \/ PermanentRow(i)
  \/ \E s \in Slots, u \in Users :
       DeleteUser(s, u) \/ RestoreUser(s, u) \/ PermanentCredentials(s, u) \/ RemoveReads(s, u)
  \/ \E s \in Slots : Serve(s) \/ CallFails(s)
  \/ \E i \in Items : Lapses(i)
  \/ TokensExpire \/ Purge

Spec == Init /\ [][Next]_vars
\* The purge runs every night and a call is answered.
LiveSpec == Spec /\ WF_vars(Purge) /\ \A s \in Slots : WF_vars(Serve(s))
(***************************************************************************)
(* Properties                                                              *)
(***************************************************************************)
\* A row that was live is never deleted for good in one step, also when it was
\* restored in the middle of a purge.
OnlyTrashGoes == [][\A i \in Items : row[i] = "live" => row'[i] # "gone"]_vars

\* A user's credentials go the way of the profile: who is live can log in, who
\* is in the trash cannot, and neither row outlives the other.  Only calls that
\* overlap on a user or fail, a user restored or lapsing in the middle of a
\* purge, and a DELETE of the profile that does nothing come between the two.
AccessFollowsProfile ==
  \A u \in Users \ torn : ~OnUser(u) /\ ~Halfway =>
    cred[u] = CASE row[u] = "live" -> "active"
                [] InTrash(u)      -> "inactive"
                [] row[u] = "gone" -> "none"

\* Something that is due in a table the purge reaches no later than i's, and
\* that PostgreSQL does not delete.
Stuck(n) == \E j \in Items : Table[j] = Order[n] /\ Due(j) /\ Referred(j)
Blocked(i) == \E n, m \in DOMAIN Order : Table[i] = Order[n] /\ m <= n /\ Stuck(m)

\* What is due is purged, some night: no table is skipped and no failure of one
\* night lasts, once nothing due before it, or with it, is referred to.
DueIsPurged ==
  \A i \in Items : <>[]~Blocked(i) => (row[i] = "due" ~> row[i] # "due")

\* The expired tokens are cleaned up once nothing that is due is referred to.
StaleIsCleaned == <>[](\A n \in DOMAIN Order : ~Stuck(n)) => (stale ~> ~stale)

\* admin.service.ts: the rows of the tokens "accumulate indefinitely, no other
\* service purges them".  Violated: a row nobody can delete ends every run.
TokensAreCleaned == stale ~> ~stale

\* The warning of the trash says that a user can be restored until the term is
\* over; violated: a DELETE that was refused has taken the credentials.
TrashKeepsUsers ==
  (\A s \in Slots : call[s] = Idle) =>
    \A u \in Users : row[u] = "trash" => cred[u] # "none"

\* When deleteUser has returned, the user holds no role in a module.
RemovedHoldsNoRole ==
  [][\A s \in Slots : (call[s].op = "remove" /\ call'[s].op = "none") => call[s].user \notin roles']_vars
=============================================================================
