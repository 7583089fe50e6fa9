# Formal model of the ticket management system

This directory specifies in TLA+ the parts of the system in which several actors
work on the same rows — tickets, administrative requests, assets, the organisation,
the trash, meetings and their reminders, a browser's session and its queue of
configuration changes — checks them with TLC on small instances and proves their
main safety properties with TLAPS for every instance. Paths below are relative to
the repository; `modules/` stands for `src/apps/backend/src/modules/` and `web/` for
`src/apps/frontend/src/`.

    tlc -workers 2 -config Races.cfg MCTicketLifecycle     # one run per .cfg
    tlapm OrgTreeProofs.tla                                # the proofs of one module

## 1. Inventory

One NestJS backend over PostgreSQL, with Redis (cache) and RabbitMQ (events), and a
Next.js frontend. Several HTTP requests are in progress at once; between two awaited
queries of one, another runs. Scheduled jobs (`@Cron`) run in the same process. Most
handlers issue their queries through `db.query`, each committing on its own; a few open
a `QueryRunner` transaction. Only `forceReopenTicket` and the choice of a technician
lock the rows they read (`FOR UPDATE`, with SKIP LOCKED in the latter).

| Component | State it keeps | Operations | Talks to | What is hard | What makes it correct |
|---|---|---|---|---|---|
| Ticket lifecycle (`modules/tickets/tickets.service.ts`) | `tickets`, `ticket_sla_tracking`, `ticket_approvals`, `ticket_assignments` | create, transition, bulkClose, approveTicket, rejectTicket, forceReopenTicket, addAssignment | everything below | validation outside the transaction; five-statement approvals; a failure half way | moves follow the workflow; the clock agrees with the state; reopenings bounded; one owner |
| Approval expiry, auto-close, waiting timeout, SLA breach (`modules/tickets/sla/*.service.ts`) | the rows their SELECT returned | one query, then one transaction or statement per row | same tables | a sweep acts on a snapshot while people act on the ticket | every ticket in validation leaves it; overdue clocks are found; nothing is lost |
| SLA evaluator (`modules/tickets/sla/sla-evaluator.service.ts`) | calendars, holidays, the cursor of its loop | rule matching, business time | create | opening and closing hours, holidays, the 400 step limit | the deadline leaves exactly the business hours promised |
| Automatic assignment, priority engine (`modules/tickets/assignment`, `priority`) | `ticket_assignments`, loads | assign, score, escalatePriority | create, reopenings | concurrent creations see the same load | one owner; a priority is not lowered |
| Administrative requests (`modules/requests`) | `requests.admin_requests` and its timeline | create, take, untake, progress, review, cancel, complete, escalate, sweep | notifications, trash | read, check, then UPDATE without the condition | one taker; finished is final; the timeline tells the status |
| Authentication and the browser's session (`modules/auth`, `web/services/api.ts`, `web/lib/tokens.ts`) | refresh tokens; the pair in localStorage; `isRefreshing` and its queue | login, refresh, logout; interceptors | every call | rotation in three statements; two tabs with one pair; a flag that stays set | a good session is kept; every call settles |
| Inventory custody (`modules/inventory`) | `assets`, `asset_assignments` | assign, unassign, transition, deleteAsset, PATCH status | trash | status and rows written separately; a transaction that never commits | status says whether somebody holds the asset; nobody holds it twice |
| Organisation and cache (`modules/system-config`, `shared/redis`) | `org.nodes`, structure types, cached copies | create, move, activate, delete, read tree; wrap, del | every reader | check before write; a reader racing an invalidation; Redis down | a tree without cycles that shows every node; the cache recovers |
| Trash and purge (`modules/admin`, `deleteUser` in `modules/users`) | `deleted_at`, credentials, assignments, roles | soft delete, restore, permanent delete, nightly purge | every table | many statements, foreign keys that make a DELETE throw, restorations in between | only what lies in the trash goes, credentials with their profile; what is due goes |
| Meetings, calendar, reminders, notifyUser (`modules/tickets/meetings.service.ts`, `modules/calendar`, `modules/notifications`) | meetings, events, participants, inbox rows | schedule, copy, cancel, remind, mail | mail | two firings meet each window; failures in between; a copy nobody awaits | each reminder once; nobody forgotten |
| Queue of configuration changes (`web/stores/configPending.store.ts`, `web/components/config`) | staged items, results, the dialog | stage, discard, apply | configuration endpoints | edits while the queue is applied; requests given up that land late; a code that lapses | no change dropped, none undone by an older one |
| Relations, knowledge base, permissions, files, reporting, modules, HTTP layer, the rest of the frontend | their own rows | CRUD, refusals, rendering | — | see section 7 | nothing of the above depends on them |

`PROJECT.json` lists each component with its status and every hazard with
the line where it bites.

## 2. Plan

Everything the plan held is done, in this order:

1. **TicketLifecycle**: lifecycle, SLA clock, approvals, assignments, four sweeps.
2. **TicketContract**: what the helpdesk promises of a ticket, and **TicketRefinement**:
   the lifecycle implements it.
3. **Requests**: read-then-write handlers of several people, and the sweep.
4. **BrowserSession**: the server's rotation of tokens and the browser's interceptor together.
5. **Custody**: asset status against assignment rows.
6. **OrgTree**: the checked moves of a tree, under a cache-aside reader.
7. **Trash**: deletion in several statements, restoration and purge.
8. **PendingConfig**, **Reminders**: the queue of the browser; the job that must not repeat itself.
9. **SlaDeadline**: the loop over working hours against a count of working hours.
10. Proofs of every safety invariant and action property of 1 to 6, 8 and 9 that a run checks, the
    refinement of 2 included.

Ticket relations were planned as well, and turned out not to be reachable (section 7). What is
left is listed there with the reason.

## 3. Modules

| Module | What it is |
|---|---|
| `HelpdeskWorkflow` | states, flags and transitions that bootstrapping a helpdesk module inserts (`src/database/SCHEMA_MASTER.sql:288-310`) |
| `TicketLifecycle` | tickets; the workflow, the limits and the number of requests in progress are CONSTANTS |
| `TicketContract`, `TicketRefinement` | the abstract ticket, and the mapping from rows to it |
| `Requests`, `BrowserSession`, `Custody`, `OrgTree`, `Trash`, `PendingConfig`, `Reminders`, `SlaDeadline` | one per component |
| `MC*` | the instances for TLC: the workflow, the owners, the symmetry of slots and people |
| `*Proofs` | lemmas and theorems about the module of that name; `TicketLifecycleProofs` has three parts: tickets and workflow; clock, approvals and assignments; the refinement of `TicketContract` |

In all of them the grain is what the database or the JavaScript engine does in one go. A
statement is an action; a transaction is one action, because other connections see it whole
and it ends by updating rows by id; the read that opens a handler, with all guards evaluated
on it, is one action. In the browser an action runs to the next await.

### TicketLifecycle: state

| Variable | In the code |
|---|---|
| `st`, `deleted`, `reprocess`, `priority` | `tickets.current_state_id`, `deleted_at IS NOT NULL`, `reprocess_count`, `priority` |
| `clock` | the row of `ticket_sla_tracking`: `status`; `late` is `deadline_at < now()`; `heldLate` is its value when the clock was paused, which is what it is again after `deadline_at + (now() - paused_at)` |
| `approvals` | rows of `ticket_approvals`; `lapsed` is *pending and past expires_at* |
| `assigned` | rows of `ticket_assignments` with `is_active` |
| `req` | handlers in progress: `pc` is the next statement, the other fields the JavaScript variables read earlier and still used |
| `expiry`, `closing`, `waiting` | what is left of the array each sweep iterates over, with the columns it will use |
| `stale`, `overwritten`, `torn` | history: handlers whose ticket moved after they read it; tickets written by such a handler; tickets whose handler died between its write of the row and its write of the clock |

### TicketLifecycle: actions

`ReadX` opens a handler; each later statement that commits by itself is another action.

| Handler or job | Actions |
|---|---|
| create | `CreateTicket`, `CreateClock`, `CreateAssign` |
| transition | `ReadTransition`, `PassBlocksGuard` / `RefuseBlocked` for final targets, `CommitTransition` |
| bulkClose | `ReadBulkClose`, `RereadBulkClose`, then as transition |
| approveTicket | `ReadApprove`, `ApproveClose`, `ApproveRelease`, `ApproveSign`, `ApproveResume`, `ApproveVerdict` |
| rejectTicket | `ReadReject`, `RejectReopen` / `RejectFails`, `RejectRefuse`, `RejectResume` |
| forceReopenTicket | `ForceReopen` (one transaction that locks the row) |
| addAssignment | `ReadAssign`, `DemoteOwner`, `InsertAssignment` |
| admin softDelete / restore | `SetDeleted` |
| expireApprovals | `StartExpiry`, then `ExpiryCloses` / `ExpiryReopens` / `ExpirySkips` per row |
| closeExpiredResolved | `StartAutoClose`, `AutoClose` / `AutoCloseFails` per row |
| checkWaitingTimeouts | `StartWaiting`, `WaitingEscalates` / `WaitingFails` per row |
| runBreachCycle | `SlaBreach` (a single UPDATE) |
| time, errors | `DeadlinePasses`, `ApprovalLapses`, `RequestFails`, `Restart` |

### TicketLifecycle: abstractions

* Roles are projected away: a role check only refuses a caller, and every
  transition lists roles that someone may hold.
* The blocks guard refuses or passes freely: relations are not modelled (section 7), and a
  free choice covers every answer.
* Time is two booleans per clock and one per approval. Auto-close and the
  waiting timeout may find any subset of the tickets that are in a suitable state.
  Approvals of a ticket lapse oldest first, as all last equally long.
* A sweep of one kind starts when the previous one of that kind is through.
* Observers are collaborators; two identical active rows are one; `sla_deadline`,
  escalation flags, notes, reminders, events and audit rows are left out, since no
  guard of a modelled operation reads them. So is the LIMIT 100 of the
  expiry query.
* The workflow does not change while tickets exist: `updateTransition` edits roles,
  name and variant of a transition, never its ends. An approval state has at
  most one closing transition (`ClosingAssumption`): with two, the auto-close
  query would return a ticket twice.

### TicketContract and TicketRefinement

The contract knows `phase`, `reopened`, `sla` and `disputed` of a ticket, and four steps:
`Opens`, `Proceeds` along a route of the workflow, `Reopens` (counted, at most `Limit`),
`Errs` (a write on an old read: the phase is no longer promised, limit and verdict are).
The mapping takes a state to its kind (final, in validation, waiting, else open),
`reprocess_count` to `reopened`, the status of the clock to `sla`, and `overwritten` to
`disputed`. One statement may touch many tickets (`SlaBreach`), so that a step of the
contract lets each ticket take its own.

### Requests

| Variable | In the code |
|---|---|
| `status`, `deleted`, `requester`, `taker`, `escalated` | the columns of `requests.admin_requests` |
| `overdue` | `sla_due_at < now()` |
| `told` | the last `new_status` of the request's timeline |
| `req` | calls in progress with the status they read |
| `sweep` | what is left of the rows the escalation sweep selected |
| `stale`, `overwritten`, `torn` | history, as for tickets |

Every handler of `RequestsService` has one shape — find, check, UPDATE by id, INSERT into the
timeline — so that there is one action for each part and one operator for each handler's
conditions and effects: `Create`/`Recurs` (three of one kind in a month escalate the newest), `Read` (with the `AcceptsX` of the
operation), `Write`, `Log`; `CallFails` ends a call between two. The sweep is `SweepStarts`,
`SweepMarks`, `SweepLogs`, and `SweepAborts` when a row throws and ends the run. `SetDeleted` is the
trash, `SlaPasses` time.

### BrowserSession

| Variable | In the code |
|---|---|
| `live`, `issued`, `expired` | refresh tokens not revoked; pairs issued; access tokens older than 15 minutes |
| `store`, `forced` | the pair in localStorage; where `force_pw` is set (localStorage, cookie) |
| `page`, `refreshing` | the page of a tab; its module variable `isRefreshing` |
| `call` | the calls of a tab: the token they carry, `_retry`, and how far they are |

`Send`, `SendLogin`, `SendLogout` are the user's; `Served`, `LoginGranted` the server's answers;
`Rejected`, `Queued`, `NoRefreshToken`, `StartRefresh` the branches of the response interceptor for a 401;
`CheckRefresh`, `RevokeRefresh`, `IssueRefresh` the three statements of `refreshSession`; `Renewed`
and `Denied` what the interceptor does with the answer, the queue included; `EnterApp` the redirect
after a login; `Expire`, `Fails`, `Reload` time, the network and the browser.

### Custody

| Variable | In the code |
|---|---|
| `status`, `deleted` | columns of `assets` |
| `assignments` | rows of `asset_assignments` in the order of `assigned_at`, with how many history lines tell of their end |
| `call` | calls in progress and what they found |
| `upset` | history: whether `assign` or `unassign` ran beside another of them or a PATCH, a query failed, or a PATCH contradicted the assignments |

`assign` is four actions (`AssignReads`, `AssignFindsNone`, `AssignMarks`, `AssignInserts`), `unassign` six
(`UnassignReads`, `..Finds`, `..Closes`, `..Logs`, `..Counts`, `..Frees`), `transition` two (its reads; its
transaction), `deleteAsset` two; `Trash`/`Restore` and `UpdateStatus` (the PATCH that knows no FSM) one each.

`TransitionRollsBack` leaves everything as it was, because no transition of this code commits
(`modules/inventory/inventory.service.ts:278-354`). Out of `asignado`, `UPDATE ... RETURNING` through TypeORM's query
runner answers `[rows, count]` (`notifications.service.ts:76` relies on it), so that the loop of line 296 inserts
lines whose `user_id` is undefined; from any other status line 314 inserts `NULL`; the column is `NOT NULL`
(`src/database/SCHEMA_MASTER.sql:1688`). A transition to `dado_de_baja` would fail a third time at the children of the asset
(`:337`). The status of an asset is therefore changed by `assign`, `unassign` and the PATCH alone.

### OrgTree

| Variable | In the code |
|---|---|
| `created`, `parent`, `active`, `label` | `org.nodes`, and what `structure_types` says of them |
| `cache` | the entries of `org:tree` and `org:structure-types` |
| `call`, `writes` | calls in progress; how many wrote |
| `together` | history: a move was begun beside another |

A writing call is `StartX`, its check (`ChecksMove`, `ChecksDelete`), `Writes`, `Clears`; a reading one is
`Misses`, `Queries`, `Fills` (`CacheService.wrap`). `Deaf` is a Redis that does not answer, whose error
`del` swallows; `Expires` the TTL. `Hangs` is the tree `getOrgNodeTree` builds from its rows.

### Trash

| Variable | In the code |
|---|---|
| `row` | each row of the seven tables: live, in the trash, due (90 days), gone |
| `cred`, `assigned`, `roles` | `auth.credentials`; ticket assignments and module roles that are active |
| `stale` | expired refresh tokens lie in their table |
| `purge`, `call` | the step of `Steps` the nightly run is at; the administrators' calls |
| `torn` | history: users of whom a call or the purge did one half |

`DeleteRow`, `RestoreRow`, `PermanentRow` are the operations on whatever has one row; users have a
statement for the profile and one for the credentials (`DeleteUser`/`DeleteCredentials`, ...).
`RemoveReads` to `RemoveAssets` are `deleteUser`, which ends at the statement that always throws.
`PurgeBegins`, `PurgeCredentials`, `PurgeTable`, `PurgeTokens` are the night, a DELETE per table in the order of the code.

`Referred` says which rows PostgreSQL refuses to delete. `Refers` are the references between the tables of the trash, which
end when the referring row is gone; `Held` are the rows that others refer to which no trash deletes. In the schema these are:

| Deleted | Referred to by |
|---|---|
| profile | requests as `requester_id`, `reviewed_by`, `escalated_by` (`src/database/SCHEMA_MASTER.sql:2041-2047`); ticket assignments (migration 024, `:26-48`, makes it SET NULL, but the column is NOT NULL, `SCHEMA_MASTER.sql:1489`); likewise authors of relations, of articles and entries of the configuration's audit log |
| global role | profiles (`:1999`) |
| asset | assignments, their history, tickets it is linked to (RESTRICT, `:2084-2093`) |
| structure type | nodes, inactive ones too (migration 011, `:34`) |
| module | its roles that were given out (the cascade ends at RESTRICT, `:2036`) |
| ticket, request | nobody, or what goes with it |

### PendingConfig

`items`, `results` and `modal` are the fields of the Zustand store and of the bar; `run` is what `applyAll`
keeps in its closure (its snapshot, its results, and the request it awaits); `wire` the requests that the server has not
carried out; `edits` numbers what is staged, so that `server` tells which edit of a form it has.
`Stage`, `Unstage`, `ClearAll`, `ClearResults` are the store's, `OpenModal`,
`CloseModal`, `Confirm` the bar's and the dialog's. `Send` puts one change on a line; `Lands` is the server carrying a request out,
whether anybody still awaits it or not; `Answered`, `Refused` (a plain error, or a refusal of the authenticator's code,
which ends the run) and `GivesUp` (the timeout of 15 s, `web/services/api.ts:11`) are what `applyAll` sees of it. A request
given up stays on its line until it lands or `Vanishes`. `Finish` rebuilds the queue; `Reload` forgets everything in the page,
but not what is on its way.

### Reminders

| Variable | In the code |
|---|---|
| `meeting`, `event`, `invited`, `joined` | meetings, their copies in the calendar, and the participants of each |
| `left` | firings of the cron job until the meeting is out of the window |
| `making`, `unlinks` | how far `createMeeting` and the copying are; cancellations whose second statement is to come |
| `todo`, `letter` | whom each run has still to remind; mails still to be sent |
| `sent`, `unseen` | reminders gone by each channel; history: those whose inbox row was never written |

`Create`, `Invite`, `Copy`, `Join`, `UpdateMeeting`, `CancelMeeting`, `Unlink` are `MeetingsService`, one action
per statement; `ChangeEvent` is the calendar's own API. `Fire` is a firing with its two queries, `Remind` one
recipient (`wasReminderSent`, then `notifyUser`'s inbox row), `Send` its mail, `Abort` a run that ends early.
Time is counted in firings: a window of ten minutes meets two of them. A run ends before the next
firing. Moving an event in time and events of people's own are left out.

### SlaDeadline

`cursor`, `remaining` and `safeguard` are the variables of the loop in `advanceBusinessTime`; `start`, `hours`,
`dayMap` and `holidays` what it is given. One action is one way round the loop: `SkipsDay`, `AwaitsOpening`,
`ComesLate`, `EndsToday`, `UsesDay`. `Worked` counts working hours by set comprehension: the reference the loop
is compared with. Hours are whole, opening hours do not cross midnight, and the clocks are not changed (a day
always has `Day` hours).

## 4. Runs

| Run | Instance | Checks | Shows |
|---|---|---|---|
| `Races` | 1 ticket, 2 requests, limit 2, failures, expiry, auto-close and waiting sweeps; 929 000 states | `ClockFollowsState`, `ReopenBounded`, `FollowsWorkflow`, `OverrunStands`, `ImplementsContract` | what survives every interleaving of two handlers and the sweeps, and that each step is one of the contract |
| `Staffing` | 1 ticket, 2 requests, 2 technicians, restarts, forced reopenings, reprocess check 1 (so that the constraint refuses a rejection); 751 000 | `OneOwner`, `ClockFollowsState` | owners under racing reassignments, clock under restarts |
| `Patience` | 1 ticket, 1 request, limit 3, 2 priorities, 2 approvals, trash, expiry and waiting sweeps, fairness; 377 000 | `ValidationIsOpen`, `NothingForgotten`, `TrashIsInert`, `ValidationEnds`, `OverdueIsFound` | what must eventually happen, what is never lost |
| `Handling` | 1 administrative request, 2 calls that may fail, 2 people (one superadmin), trash, sweep, fairness; 289 000 | `TakerFollowsStatus`, `TimelineAgrees`, `FinishedIsFinal`, `HoldsUntilReleased`, `EscalatesOnlyActive`, `OverdueEscalates` | what read-then-write keeps and what it does not |
| `TwoTabs` | a tab with two calls and one with one, a login and a refresh, lost answers, reloads, wrong passwords, logouts, fairness; 138 000 | `FlagTellsRefresh`, `AppCallsSettle`, `SessionLasts` | the interceptor never waits for nobody, and when a session is lost |
| `CustodyTogether` | 1 asset, 2 people, 2 calls, 2 assignments, failing queries, trash, transitions, PATCH; 2 120 000 | `HeldIsMarked`, `CustodyAgrees`, `OneEach`, `ReturnsAreTold`, `RetiredStays` | which circumstances separate status, assignments and history |
| `Editing` | 3 nodes, 2 calls, 2 writes, a Redis that may be deaf, fairness; 54 000 | `NoCycle`, `NobodyMissing`, `CacheSettles` | checked moves under deletions and activations; the cache recovers |
| `TrashTogether` | a user with a request, an asset that was assigned, 2 calls that may fail, the purge, fairness; 111 000 | `AccessFollowsProfile`, `OnlyTrashGoes`, `DueIsPurged`, `StaleIsCleaned` | restorations in the middle of a purge; what comes between a profile and its credentials; nights that end at a DELETE that throws |
| `QueueDisturbed` | 2 forms, 4 edits, a request given up beside the one awaited, reloads; 339 000 | `NothingDropped`, `NewestWins` | edits, retries and late requests while the queue is applied |
| `Reminding` | 1 meeting, 2 people (one without inbox), one failure of any kind, fairness; 261 000 | `RemindedOnce`, `ScheduledAreReminded` | two firings, one dedup |
| `Deadlines` | every calendar of a week of 3 days of 3 hours, every start, holidays on days 0 to 2, up to 4 hours; 418 000 | `HoursAccounted`, `EndsAtWork`, `RoundsBounded` | the loop counts as the definition does |
| `StuckExpiry` | 1 ticket, 1 request, expiry sweep, fairness | `LapsedIsReopened`, violated | section 5 |

Properties that hold of the code only when nobody writes on an old read say
so: they exempt tickets and requests in `overwritten` (and `torn`), assets with something in `upset`, trees edited
`together`, users in `torn`, reminders in `unseen`. `transition` of a ticket, `rejectTicket`, `take`, `assign` and the sweeps update rows by id without a
condition on the state they read, so two handlers that decide on one read both win. The
exemption does not hide other causes — a history variable marks a handler only if the row
moved, or went to the trash, after its read, and an asset only if calls really overlapped on it — and
`ReopenBounded`, `OneOwner`, `OverrunStands`, `FlagTellsRefresh`, `OnlyTrashGoes` and the properties of
`SlaDeadline` take none. `NewestWins` excuses the landing of a request that was given up, and nothing else; `DueIsPurged` and
`StaleIsCleaned` ask nothing of a row while something that cannot be deleted is due in its table or in one purged before.

**Bounds.** One ticket, request, asset or meeting suffices because no modelled statement touches
two of them except the sweeps, whose steps are per row, and `SlaBreach`, which is
pointwise (`Unlink` may reach a neighbouring meeting, whose own copy is then deleted: `Near`); the proofs do
not depend on it. Two slots are enough for one handler
to overtake another; a third would repeat what the sweeps already do as third
actors. `MaxReopen` is at least 2, so that a limit is reached after it was
passed once; Patience has 3, the count from which priorities escalate.
`MaxApprovals` caps the entries into validation (2 where an older approval
must meet a newer one). `MaxIssued` 1 lets the user act while one pair is out, and a refresh issues the next; two
assignments are what one person or two need to hold an asset twice; two writes are what a cycle needs;
four edits let a form be staged, applied, staged anew and retried beside another; of two lines (`Lines`) one is awaited and one holds a
request given up, and what gives up when both are taken is as if it had never arrived; one failure may hit any
statement of either run, and the other run must make up for it. Three days of three hours have days off, half
days, nights and a week that comes round. `Workload`, `Ops` and `Events` name what a run lets happen.

**Fairness.** Nothing is assumed of people. For tickets `LiveSpec` adds weak fairness for the steps of a
handler in progress (Node resolves its awaits), for the steps of the expiry sweep and
its start and for the breach cycle (cron fires again and again), and for approvals
lapsing (time passes); nothing of deadlines, nor of
auto-close or the waiting sweep, whose conditions depend on configuration. Patience
leaves out `fail` and `restart`: a query that fails for ever keeps any promise from
being kept. For requests the sweep starts (weak) and gets through (strong fairness of its steps: a
query does not fail in every run). In the browser every call gets on (the network answers or fails);
in OrgTree the calls get on and cache entries grow old; the purge of the trash runs every night and calls are served; the reminders' cron
fires and works through its list.

**Deadlock.** `Reminding` and `QueueDisturbed` check it. The others set `CHECK_DEADLOCK FALSE`: a ticket closed
at its reopening limit, a decided request, a deadline found or a user without anything left in the bounds has nothing left to do.

## 5. Disagreements found

`StuckExpiry` is checked with the other runs: the schema's `CHECK (reprocess_count <= 1)` contradicts
`max_reopen_count` (default 10). From the second reopening on, the transaction is rolled back in every cycle
and the ticket stays in validation, although `approveTicket` tells the requester it will be reopened.

Each of these configurations ends in a counterexample, too (`tlc -config X.cfg Module`):

| Configuration, module | The code | Against |
|---|---|---|
| `LapseCloses`, MCTicketLifecycle | the sweep reopens an unanswered validation until its last reopening | the reminder says that the ticket is closed (`modules/tickets/sla/approval-expiry.service.ts:66`) |
| `TokenLasts`, MCTicketLifecycle | *Reabrir* leaves the approval pending; when it lapses, the sweep expires the next one with it | `approval_timeout_hours` |
| `LateEscalation`, MCRequests | the sweep's UPDATE is by id and escalates what was decided meanwhile (`modules/requests/requests.scheduler.ts:32`) | "still active" (`:16`) |
| `LoginHangs`, MCBrowserSession | a 401 to a login leaves `isRefreshing` set; the next login is queued for ever (`web/services/api.ts:83`) | the form tells how many attempts are left (`LoginForm.tsx:53`) |
| `ForcedLifted`, MCBrowserSession | renewing the pair drops the `force_pw` cookie (`web/services/api.ts:95`) | "must change password before continuing" (`web/middleware.ts:42`) |
| `TransitionLost`, MCCustody | no transition of an asset commits (section 3; `modules/inventory/inventory.service.ts:296`) | "Always close active assignments when leaving 'asignado' state" (`:285`) |
| `PurgeStuck`, MCTrash | a due row that others refer to (here a user with a ticket assignment) makes the DELETE of its table throw and ends the run before the tokens, every night (`modules/admin/admin.service.ts:249`) | "no other service purges them" (`:263`) |
| `HalfDeleted`, MCTrash | a permanent deletion takes the credentials first and for good (`:375`); a profile that is referred to stays in the trash, and restoring it gives nobody access | "Puedes restaurarlos" (`:213`) |
| `RolesKept`, MCTrash | `deleteUser` throws at a column that does not exist (`modules/users/users.service.ts:358`) | step 3 deactivates the roles (`:365`) |
| `FailuresHidden`, MCPendingConfig | results are drawn only when nothing is pending, but what failed stays pending (`PendingChangesBar.tsx:130`) | "Post-apply results" (`:129`) |
| `LateArrival`, MCPendingConfig | a request given up at the timeout or by a reload lands after a newer edit (`web/services/api.ts:11`) | the newest edit wins, which no line promises |
| `CopyLingers`, MCReminders | the copy is inserted by a call nobody awaits, perhaps after the cancellation (`modules/tickets/meetings.service.ts:111`) | "Cancel linked calendar event" (`:198`) |

Others show as the exceptions the properties make. A second tab whose refresh is refused clears the pair the first has just
stored (`web/services/api.ts:101`; `SessionLasts`). `assign` brings back an asset that a PATCH wrote off in between
(`modules/inventory/inventory.service.ts:193`; `RetiredStays`), and `unassign` frees one that was handed out after its count
(`:253`; `HeldIsMarked`). Two moves checked together close a cycle (`modules/system-config/system-config.service.ts:857`;
`NoCycle`). What is staged while the queue is applied is dropped (`web/stores/configPending.store.ts:68`; `NothingDropped`).
A user without inbox is mailed twice (`modules/calendar/reminders.service.ts:131`; `RemindedOnce`). A cancelled task
can still be completed (`modules/requests/requests.service.ts:104`; `FinishedIsFinal`).

## 6. Proofs

All theorems hold for any number of rows, people, slots and bounds and follow from the
named assumptions on constants; the modules have one lemma per group of actions, and each `TypeCorrect` is
`Spec => []TypeOK`, which is why no run spends an invariant on types. Few of the properties are inductive as they stand; what they need is this. The
strengthened invariants were model-checked on the instances of the runs before they were proved.

`TicketLifecycleProofs` — `WorkflowFollowed`, `TrashStaysInert`, `ReopeningsBounded`.
Whether a move is an edge depends on what the handler read. `Snapshots` says that every handler and sweep item
in progress either is in `stale`, or its ticket is exactly as it was read and the target chosen is a successor
of that state. It is preserved because whatever moves a ticket puts every
other reader into `stale` (`Moves`, `MovesAndEnds`, `ForceReopen`, `SetDeleted`).
For the limit, every count carried by a handler or a sweep item is within what its guard established, and the
count written comes from that value, stale or not. It assumes that every approval state has a closing transition:
without one the sweep falls through at the limit and reopens once more.

Its second part — `OwnersUnique`: the unique index. `OverrunForGood`: a paused clock that was late when it was
paused is late (`HeldIsLate`), so that no UPDATE forgives. `ClockTellsState` and `ApprovalStaysOpen`: per ticket
(`Fit`), either it is exempt, or its clock agrees with its state, or exactly one handler is between the
write of one and of the other, and what it will write is right; who reads a ticket meanwhile becomes stale or finds it
as that handler left it. `NothingIsForgotten`: a count or priority that a fresh reader will write back is still the ticket's
(`Memory`). The last three assume `WellShaped`: each state is of one kind, the first is one to work in and nothing
leads out of a final one. `MCTicketLifecycle` has TLC evaluate it for the bootstrapped workflow.

Its third part — `Refinement`, `Spec => ImplementsContract`. Each action maps to steps of the contract,
ticket by ticket; `Snapshots` gives the route, the counts the limit, and a stale writer disputes the ticket it
writes. The same assumption on closing transitions.

`RequestsProofs` — `TakerAgrees`, `TimelineTells`, `DecisionsStand`, `HoldersKeep`, `EscalationsAreCurrent`. What a call
read was accepted (`Checked`); unless it is stale the request still is so; and whoever moved a request without
having logged will tell its status next.

`CustodyProofs` — `HoldersAreMarked`, `TablesAgree`, `OnceEach`, `ReturnsTold`, `RetiredForGood`. For an asset on which `assign`
and `unassign` never overlapped there is at most one of them in progress, and what it has found and written so far determines
how status and rows stand to each other at each statement (`SlotInv`, `AssetInv`); transitions come and go beside it and leave
nothing.

`SlaDeadlineProofs` — `HoursAreAccounted`, `DeadlinesEndAtWork`, `RoundsAreBounded`, `NeverGivesUp`. The set of
working hours before the cursor is finite and grows by exactly the hours a round takes off `remaining`; between the end of a day and `NextDayStart` there is none
(`NothingBetween`). From the first round on the cursor stands at an opening (`Bounded`), since `nextDayStart` skips
every day of the week that is off; so each later round uses a working hour up or meets a holiday, and a holiday left
behind is not met again. Hence the 400 rounds end the loop early only when hours and holidays together reach them.

`BrowserSessionProofs` — `FlagIsTrue`, `SessionKept`. Every call in a refresh has the flag set (`Flagged`), and what it
carries was issued (`Sound`).

`RemindersProofs` — `NobodyTwice`. A reminder whose mail is still to be sent has not been mailed, and its inbox row
exists unless it is `unseen` (`Once`).

`OrgTreeProofs` — `TreeStaysATree`, `EveryoneIsShown`, `QueriesEnd`, unless a move is begun beside another. That no node
hangs below itself is stated without paths: no set of nodes holds the parent of each of its members (`Grounded`). What the
recursive query of a move has found out is that the new parent has a way up on which the moved node does not lie
(`Leads`), and that stays true until the UPDATE, whatever is created, deactivated or deleted meanwhile (`Checked`). `Descendants` and
`Hangs` are recursive functions; `Iterates` shows by least counterexample that such a function exists, and
counting shows that in a tree its rounds are over after as many as there are nodes (`NoReturn`, `FarBelow`, `HangsClosed`).
`OrgAssumption`: nodes are finitely many, and those there are at the start hang on roots.

`PendingConfigProofs` — `NewestEditWins`, `NothingIsDropped`. A form is in the queue once (`Unique`); what is queued is no older
than what the server holds and than any request on its way (`Numbered`), so that a late landing, which may take the server back,
never takes it ahead of the queue; the request that is awaited is for the change whose turn it is (`Awaits`), and what was staged since `applyAll` took its snapshot no older than what the snapshot has
(`Fresh`); results belong to the items they stand beside (`Aligned`). `AmongIs` says of `Among`, the model's
`Array.filter`, which elements it keeps and that what was distinct stays so.

Checked by TLC and not proved: every liveness property — `ValidationEnds`, `OverdueIsFound`, `OverdueEscalates`,
`AppCallsSettle`, `CacheSettles`, `DueIsPurged`, `StaleIsCleaned`, `ScheduledAreReminded` — because the prover
handles neither fairness nor ENABLED; and the safety properties of the trash, `OnlyTrashGoes` and
`AccessFollowsProfile`: their instance has every pair of calls beside the purge, and a third call only widens `torn`.

## 7. Not modelled

* **Ticket relations.** Unreachable: every relation type the code inserts
  (`modules/tickets/tickets.service.ts:1511-1541`, Spanish names) is refused by the `CHECK chk_tr_type` of migration 005,
  which knows `related`, `duplicate`, `blocks` and `caused_by`. The table stays empty and the blocks guard never refuses.
* **Assignments with hours** in the inventory: their conflict query compares a time with the varchar columns of migration 023,
  which PostgreSQL refuses before anything is written (`modules/inventory/inventory.service.ts:180`). What `deleteUser` does after
  the statement that throws is unreachable as well.
* **Counters of failed logins and codes** (`modules/auth/auth.service.ts:106`, `:283`): read, add and write of one row; two
  wrong passwords at a time count once.
* **Permissions**: they refuse a call before its handler starts. Their cache has the shape of OrgTree's; a
  reader racing an invalidation keeps a permission for up to 60 s more.
* **Which technician** is assigned (round robin, skills, SKIP LOCKED), **which SLA rule** matches and **which priority** a
  ticket starts with: one query or one sum each; the models let any come out.
* **LIMIT 100** of the expiry query, without an order: more than a hundred tickets that fail in every
  cycle could crowd out the others; it takes instances of that size to see it.
* **Knowledge base, comments, ratings, files, modules**: single rows that no modelled guard reads.
* **Reporting, HTTP layer, the rest of the frontend**: reading and rendering. Most of the lines of this repository are of this
  kind: React views that hold no state beyond a form.
