--------------------------- MODULE PendingConfig ---------------------------
(***************************************************************************)
(* The queue of configuration changes in the browser: the forms of the     *)
(* configuration page stage changes, PendingChangesBar applies them one    *)
(* after the other behind one confirmation (useConfigPending, a Zustand    *)
(* store), and CriticalChangeGuard may refuse the confirmation at any of   *)
(* them: the code of the authenticator lapses while the queue is applied.  *)
(* A request that the browser gives up, after the 15 s of api.ts:11 or as  *)
(* the page is loaded anew, is not called back: the server may still carry *)
(* it out, late, or it never arrives.                                      *)
(***************************************************************************)
EXTENDS Naturals, Sequences, SequencesExt

CONSTANTS
  Ids,      \* the changes that may be staged: the company, the priorities
  MaxEdits, \* bound: how many times a form is saved
  Lines,    \* bound: the requests under way at once, given up ones included
  None      \* no request

ASSUME PendingAssumption ==
  /\ MaxEdits \in Nat
  /\ None \notin Lines \cup [id : Ids, edit : 1..MaxEdits]

VARIABLES
  items,    \* the staged changes, in order
  run,      \* applyAll: its snapshot, its results so far, the line it awaits
  results,  \* what the last applyAll reported
  modal,    \* modalOpen
  edits,    \* how many changes were staged; numbers them
  wire,     \* the requests that the server has not carried out yet
  server    \* the number of the change the server holds for each id

vars == <<items, run, results, modal, edits, wire, server>>

Item == [id : Ids, edit : 1..MaxEdits]
Result == [item : Item, ok : BOOLEAN]
NoRun == [applying |-> FALSE, snapshot |-> <<>>, results |-> <<>>, line |-> None]

TypeOK ==
  /\ items \in Seq(Item) /\ results \in Seq(Result)
  /\ run \in [applying : BOOLEAN, snapshot : Seq(Item), results : Seq(Result),
              line : Lines \cup {None}]
  /\ Len(run.results) <= Len(run.snapshot)
  /\ modal \in BOOLEAN /\ edits \in 0..MaxEdits
  /\ wire \in [Lines -> Item \cup {None}]
  /\ server \in [Ids -> 0..MaxEdits]
  /\ \A i, j \in DOMAIN items : items[i].id = items[j].id => i = j

Init ==
  /\ items = <<>> /\ run = NoRun /\ results = <<>>
  /\ modal = FALSE /\ edits = 0
  /\ wire = [l \in Lines |-> None]
  /\ server = [id \in Ids |-> 0]

\* The bar is drawn, and with it the modal that covers the forms; the chips
\* of the bar lie above the modal.
BarShows == items # <<>> \/ results # <<>>
ModalShows == modal /\ BarShows
ResultsShow == results # <<>> /\ items = <<>>

\* Array.filter: what of a queue is in a set, in its order.
Among(queue, kept) ==
  LET taken[n \in 0..Len(queue)] ==
        IF n = 0 THEN <<>>
        ELSE IF queue[n] \in kept THEN Append(taken[n - 1], queue[n]) ELSE taken[n - 1]
  IN  taken[Len(queue)]

HasStaged(queue, id) == \E i \in DOMAIN queue : queue[i].id = id
StagedTwice(queue, item) == Append(queue, item)
Staged(queue, item) ==
  IF HasStaged(queue, item.id)
  THEN [i \in DOMAIN queue |-> IF queue[i].id = item.id THEN item ELSE queue[i]]
  ELSE Append(queue, item)

Stage(id) ==
  /\ edits < MaxEdits /\ ~ModalShows
  /\ edits' = edits + 1
  /\ items' = Staged(items, [id |-> id, edit |-> edits + 1])
  /\ UNCHANGED <<run, results, modal, wire, server>>

Unstage(id) ==
  /\ HasStaged(items, id)
  /\ items' = Among(items, {item \in ToSet(items) : item.id # id})
  /\ UNCHANGED <<run, results, modal, edits, wire, server>>

ClearAll ==
  /\ items # <<>>
  /\ items' = <<>> /\ results' = <<>>
  /\ UNCHANGED <<run, modal, edits, wire, server>>

ClearResults ==
  /\ ResultsShow
  /\ results' = <<>>
  /\ UNCHANGED <<items, run, modal, edits, wire, server>>

OpenModal ==
  /\ items # <<>> /\ ~run.applying /\ ~modal
  /\ modal' = TRUE
  /\ UNCHANGED <<items, run, results, edits, wire, server>>

CloseModal ==
  /\ ModalShows
  /\ modal' = FALSE
  /\ UNCHANGED <<items, run, results, edits, wire, server>>

\* handleConfirm: applyAll takes its snapshot of the queue.
Confirm ==
  /\ ModalShows /\ ~run.applying
  /\ run' = [NoRun EXCEPT !.applying = TRUE, !.snapshot = items]
  /\ results' = <<>>
  /\ UNCHANGED <<items, modal, edits, wire, server>>

\* The change of the snapshot whose turn it is.
Due == run.snapshot[Len(run.results) + 1]
Waiting == run.line # None
Served == wire[run.line] = None
Freed(l) == [wire EXCEPT ![l] = None]
Reported(ok) ==
  [run EXCEPT !.line = None, !.results = Append(@, [item |-> Due, ok |-> ok])]

Send(l) ==
  /\ run.applying /\ ~Waiting /\ Len(run.results) < Len(run.snapshot)
  /\ wire[l] = None
  /\ wire' = [wire EXCEPT ![l] = Due]
  /\ run' = [run EXCEPT !.line = l]
  /\ UNCHANGED <<items, results, modal, edits, server>>

\* The server carries a request out, whether it is still awaited or not.
Lands(l) ==
  /\ wire[l] # None
  /\ server' = [server EXCEPT ![wire[l].id] = wire[l].edit]
  /\ wire' = Freed(l)
  /\ UNCHANGED <<items, run, results, modal, edits>>

\* A request that nobody awaits never arrives, or is refused.
Vanishes(l) ==
  /\ wire[l] # None /\ l # run.line
  /\ wire' = Freed(l)
  /\ UNCHANGED <<items, run, results, modal, edits, server>>

Answered ==
  /\ Waiting /\ Served
  /\ run' = Reported(TRUE)
  /\ UNCHANGED <<items, results, modal, edits, wire, server>>

\* The server says no: the change failed, or the confirmation is refused
\* (critical_auth_failed) and applyAll ends where it is.
Refused ==
  /\ Waiting /\ ~Served
  /\ run' \in {Reported(FALSE), NoRun}
  /\ wire' = Freed(run.line)
  /\ UNCHANGED <<items, results, modal, edits, server>>

\* No answer within the timeout, or an error after the change was made.
GivesUp ==
  /\ Waiting
  /\ run' = Reported(FALSE)
  /\ UNCHANGED <<items, results, modal, edits, wire, server>>

KeepsNone(report) == <<>>
KeepsFailed(report) ==
  LET failed == Among(report, {r \in ToSet(report) : ~r.ok})
  IN  [i \in DOMAIN failed |-> failed[i].item]

Finish ==
  /\ run.applying /\ Len(run.results) = Len(run.snapshot)
  /\ items' = KeepsFailed(run.results)
  /\ results' = run.results
  /\ modal' = FALSE
  /\ run' = NoRun
  /\ UNCHANGED <<edits, wire, server>>

\* The page is loaded anew: the store lives in its memory alone.
Reload ==
  /\ items' = <<>> /\ results' = <<>> /\ run' = NoRun /\ modal' = FALSE
  /\ UNCHANGED <<edits, wire, server>>

Next ==
  \/ \E id \in Ids : Stage(id) \/ Unstage(id)
  \/ ClearAll \/ ClearResults \/ OpenModal \/ CloseModal \/ Confirm
  \/ \E l \in Lines : Send(l) \/ Lands(l) \/ Vanishes(l)
  \/ Answered \/ Refused \/ GivesUp
  \/ Finish
  \/ Reload

Spec == Init /\ [][Next]_vars

-----------------------------------------------------------------------------
\* The end of applyAll (configPending.store.ts:64-72) takes no change out of
\* the queue that it did not apply, whatever is staged, discarded and staged
\* again meanwhile, but for the changes staged after it took its snapshot.
NothingDropped ==
  [][Finish => \A i \in DOMAIN items :
       \/ items[i] \in ToSet(items')
       \/ [item |-> items[i], ok |-> TRUE] \in ToSet(run.results)
       \/ items[i] \notin ToSet(run.snapshot)]_vars

\* The server goes back to an earlier edit of a form only as it carries out
\* a request that the browser had given up, whatever is staged, discarded,
\* retried or refused meanwhile: the request that is awaited never puts an
\* older edit over a newer one (stage keeps one change for each id,
\* configPending.store.ts:28-33).
NewestWins ==
  [][\A id \in Ids : server'[id] < server[id] =>
       \E l \in Lines \ {run.line} : Lands(l) /\ wire[l].id = id]_vars

\* The same without the excuse, which the code does not keep: a request that
\* was given up lands after a newer edit (axios timeout, api.ts:11).
NeverBack == [][\A id \in Ids : server'[id] >= server[id]]_vars

\* "Post-apply results" (PendingChangesBar.tsx:129), which the code does not
\* keep: what failed is shown to the administrator once applying has ended.
FailuresShown ==
  (~run.applying /\ \E i \in DOMAIN results : ~results[i].ok) => ResultsShow
=============================================================================
