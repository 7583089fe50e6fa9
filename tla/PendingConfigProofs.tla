------------------------- MODULE PendingConfigProofs -------------------------
(***************************************************************************)
(* What holds of PendingConfig for every set of forms and every number of  *)
(* edits: the end of applyAll drops nothing it did not apply, and no form  *)
(* goes back to an earlier edit on the server.                             *)
(***************************************************************************)
EXTENDS PendingConfig, SequenceTheorems, WellFoundedInduction, TLAPS

-----------------------------------------------------------------------------
(* What Array.filter leaves of a queue.                                    *)

\* Every set of natural numbers that is not empty has a least element.
LEMMA Least ==
  ASSUME NEW S \in SUBSET Nat, S # {}
  PROVE  \E i \in S : \A j \in S : i <= j
<1> DEFINE R == OpToRel(<, Nat)
<1>1. IsWellFoundedOn(R, Nat)
  BY NatLessThanWellFounded
<1>2. PICK i \in S : \A j \in S : ~(<<j, i>> \in R)
  <2> HIDE DEF R
  <2> QED BY <1>1, WFMin, Zenon
<1>3. \A j \in S : i <= j
  <2> SUFFICES ASSUME NEW j \in S PROVE i <= j
    OBVIOUS
  <2>1. <<j, i>> \notin R
    BY <1>2
  <2>2. ~(j < i)
    BY <2>1 DEF OpToRel
  <2> QED BY <2>2
<1> QED BY <1>3

\* The filter, element by element: g[n] is what it leaves of the first n.
Next1(queue, kept, g, n) ==
  IF queue[n] \in kept THEN Append(g[n - 1], queue[n]) ELSE g[n - 1]
Filters(queue, kept, g, N) ==
  g = [n \in 0..N |-> IF n = 0 THEN <<>> ELSE Next1(queue, kept, g, n)]

\* There is such a function, so that the recursive definition means what it
\* says.
LEMMA FilterExists ==
  ASSUME NEW T, NEW queue \in Seq(T), NEW kept
  PROVE  \A N \in 0..Len(queue) : \E g \in [0..N -> Seq(T)] : Filters(queue, kept, g, N)
<1> DEFINE Works(N) == \E g \in [0..N -> Seq(T)] : Filters(queue, kept, g, N)
           Bad == {N \in 0..Len(queue) : ~Works(N)}
<1>0. Len(queue) \in Nat /\ \A i \in 1..Len(queue) : queue[i] \in T
  BY LenProperties, ElementOfSeq
<1>1. SUFFICES ASSUME Bad # {} PROVE FALSE
  OBVIOUS
<1>2. PICK n \in Bad : \A j \in Bad : n <= j
  <2>1. Bad \in SUBSET Nat
    BY <1>0
  <2> HIDE DEF Bad
  <2> QED BY <1>1, <2>1, Least
<1>3. CASE n = 0
  <2> DEFINE g == [k \in 0..0 |-> <<>>]
  <2>1. g \in [0..0 -> Seq(T)]
    BY EmptySeq
  <2>2. Filters(queue, kept, g, 0)
    <3>1. \A k \in 0..0 : k = 0
      OBVIOUS
    <3> QED BY <3>1 DEF Filters
  <2> HIDE DEF g
  <2> QED BY <1>2, <1>3, <2>1, <2>2
<1>4. CASE n # 0
  <2>1. n \in 1..Len(queue) /\ n - 1 \in 0..Len(queue) /\ n - 1 \notin Bad
    <3>1. n \in 1..Len(queue) /\ n - 1 \in 0..Len(queue) /\ ~(n <= n - 1)
      BY <1>0, <1>2, <1>4
    <3> HIDE DEF Bad
    <3> QED BY <3>1, <1>2
  <2>2. PICK g \in [0..n - 1 -> Seq(T)] : Filters(queue, kept, g, n - 1)
    BY <2>1
  <2> DEFINE h == [k \in 0..n |-> IF k = n THEN Next1(queue, kept, g, n) ELSE g[k]]
  <2>3. h \in [0..n -> Seq(T)]
    <3>1. n - 1 \in 0..n - 1
      BY <1>0, <2>1
    <3>2. g[n - 1] \in Seq(T) /\ queue[n] \in T
      BY <1>0, <2>1, <2>2, <3>1
    <3>3. Append(g[n - 1], queue[n]) \in Seq(T)
      BY <3>2, AppendProperties
    <3>4. Next1(queue, kept, g, n) \in Seq(T)
      BY <3>2, <3>3 DEF Next1
    <3>5. ASSUME NEW k \in 0..n, k # n PROVE g[k] \in Seq(T)
      <4>1. k \in 0..n - 1
        BY <1>0, <2>1, <3>5
      <4> QED BY <2>2, <4>1
    <3> QED BY <3>4, <3>5
  <2>4. ASSUME NEW k \in 0..n
        PROVE  h[k] = IF k = 0 THEN <<>> ELSE Next1(queue, kept, h, k)
    <3>1. CASE k = n
      <4>1. n - 1 \in 0..n /\ n - 1 # n
        BY <1>0, <2>1
      <4>2. h[n - 1] = g[n - 1] /\ h[k] = Next1(queue, kept, g, n)
        BY <3>1, <4>1
      <4>3. Next1(queue, kept, g, n) = Next1(queue, kept, h, n)
        BY <4>2 DEF Next1
      <4> HIDE DEF h
      <4> QED BY <4>2, <4>3, <3>1, <1>4
    <3>2. CASE k # n
      <4>1. k \in 0..n - 1 /\ (k # 0 => k - 1 \in 0..n /\ k - 1 # n)
        BY <3>2, <1>0, <2>1
      <4>2. h[k] = g[k] /\ (k # 0 => h[k - 1] = g[k - 1])
        BY <3>2, <4>1
      <4>3. g[k] = IF k = 0 THEN <<>> ELSE Next1(queue, kept, g, k)
        BY <4>1, <2>2 DEF Filters
      <4> HIDE DEF h
      <4> QED BY <4>2, <4>3 DEF Next1
    <3> QED BY <3>1, <3>2
  <2>5. Filters(queue, kept, h, n)
    <3>1. h = [k \in 0..n |-> h[k]]
      OBVIOUS
    <3> HIDE DEF h
    <3> QED BY <3>1, <2>4 DEF Filters
  <2> HIDE DEF h
  <2> QED BY <1>2, <2>3, <2>5
<1> QED BY <1>3, <1>4

\* What the filter leaves was in the queue, in the set, and no row of it
\* becomes two; and it leaves all of that.
LEMMA AmongIs ==
  ASSUME NEW T, NEW queue \in Seq(T), NEW kept
  PROVE  /\ Among(queue, kept) \in Seq(T)
         /\ ToSet(Among(queue, kept)) = ToSet(queue) \cap kept
         /\ \A f : (\A i, j \in DOMAIN queue : f[queue[i]] = f[queue[j]] => i = j)
              => LET left == Among(queue, kept) IN
                 \A i, j \in DOMAIN left : f[left[i]] = f[left[j]] => i = j
<1> DEFINE N == Len(queue)
<1>0. N \in Nat /\ DOMAIN queue = 1..N /\ \A i \in 1..N : queue[i] \in T
  BY LenProperties, ElementOfSeq
<1> DEFINE Is(g) == g = [n \in 0..N |->
             IF n = 0 THEN <<>>
             ELSE IF queue[n] \in kept THEN Append(g[n - 1], queue[n]) ELSE g[n - 1]]
           taken == CHOOSE g : Is(g)
<1>1. \E g : Is(g)
  <2>1. N \in 0..Len(queue)
    BY <1>0
  <2>2. PICK g \in [0..N -> Seq(T)] : Filters(queue, kept, g, N)
    <3>1. \A M \in 0..Len(queue) : \E g \in [0..M -> Seq(T)] : Filters(queue, kept, g, M)
      BY FilterExists
    <3> QED BY <2>1, <3>1
  <2> HIDE DEF N
  <2>3. Is(g)
    BY <2>2 DEF Filters, Next1
  <2> HIDE DEF Is
  <2> QED BY <2>3
<1>2. Is(taken)
  <2> HIDE DEF Is
  <2> QED BY <1>1
<1>3. Among(queue, kept) = taken[N]
  BY DEF Among
<1> HIDE DEF taken
<1>4. \A n \in 0..N : taken[n] =
        IF n = 0 THEN <<>>
        ELSE IF queue[n] \in kept THEN Append(taken[n - 1], queue[n]) ELSE taken[n - 1]
  <2> HIDE DEF N
  <2> QED BY <1>2, Zenon
<1> DEFINE First(n) == {queue[i] : i \in 1..n} \cap kept
           Apart(n) == \A f : (\A i, j \in 1..N : f[queue[i]] = f[queue[j]] => i = j)
                         => \A i, j \in DOMAIN taken[n] : f[taken[n][i]] = f[taken[n][j]] => i = j
           Good(n) == taken[n] \in Seq(T) /\ ToSet(taken[n]) = First(n) /\ Apart(n)
           Bad == {n \in 0..N : ~Good(n)}
<1> HIDE DEF N
<1>5. Good(0)
  <2>1. 0 \in 0..N
    BY <1>0
  <2>2. taken[0] = <<>>
    BY <1>4, <2>1
  <2>3. <<>> \in Seq(T) /\ DOMAIN <<>> = {}
    BY EmptySeq
  <2>4. ToSet(<<>>) = {}
    BY <2>3 DEF ToSet
  <2>5. First(0) = {}
    OBVIOUS
  <2> QED BY <2>2, <2>3, <2>4, <2>5
<1>6. ASSUME NEW n \in 1..N, Good(n - 1) PROVE Good(n)
  <2>0. n \in 0..N /\ n # 0 /\ n \in Nat /\ n - 1 \in Nat
    BY <1>0
  <2>1. taken[n] = IF queue[n] \in kept THEN Append(taken[n - 1], queue[n]) ELSE taken[n - 1]
    BY <1>4, <2>0
  <2>2. First(n) = First(n - 1) \cup ({queue[n]} \cap kept)
    <3>1. 1..n = (1..n - 1) \cup {n}
      BY <2>0
    <3> QED BY <3>1
  <2>3. CASE queue[n] \notin kept
    <3>1. taken[n] = taken[n - 1] /\ First(n) = First(n - 1)
      BY <2>1, <2>2, <2>3
    <3> HIDE DEF First
    <3> QED BY <3>1, <1>6
  <2>4. CASE queue[n] \in kept
    <3> DEFINE s == taken[n - 1]
               L == Len(s)
    <3>1. /\ taken[n] = Append(s, queue[n]) /\ s \in Seq(T) /\ ToSet(s) = First(n - 1)
          /\ queue[n] \in T
      BY <1>0, <1>6, <2>1, <2>4
    <3> HIDE DEF s, First
    <3>2. L \in Nat /\ DOMAIN s = 1..L
      BY <3>1, LenProperties
    <3>3. /\ taken[n] \in Seq(T) /\ DOMAIN taken[n] = 1..(L + 1)
          /\ \A i \in 1..L : taken[n][i] = s[i]
          /\ taken[n][L + 1] = queue[n]
      BY <3>1, <3>2, AppendProperties, LenProperties
    <3>4. 1..(L + 1) = (1..L) \cup {L + 1} /\ L + 1 \notin 1..L
      BY <3>2
    <3> HIDE DEF L
    <3>5. ToSet(taken[n]) = ToSet(s) \cup {queue[n]}
      BY <3>2, <3>3, <3>4 DEF ToSet
    <3>6. ToSet(taken[n]) = First(n)
      BY <3>1, <3>5, <2>2, <2>4
    <3>7. Apart(n)
      <4> SUFFICES ASSUME NEW f, \A i, j \in 1..N : f[queue[i]] = f[queue[j]] => i = j,
                          NEW i \in 1..(L + 1), NEW j \in 1..(L + 1),
                          f[taken[n][i]] = f[taken[n][j]]
                   PROVE  i = j
        BY <3>3
      <4>1. ASSUME NEW k \in 1..L PROVE f[s[k]] # f[queue[n]]
        <5>1. s[k] \in First(n - 1)
          BY <3>1, <3>2 DEF ToSet
        <5>2. PICK m \in 1..n - 1 : s[k] = queue[m]
          BY <5>1 DEF First
        <5>3. m \in 1..N /\ m # n
          BY <1>0, <2>0
        <5> QED BY <5>2, <5>3
      <4>2. CASE i \in 1..L /\ j \in 1..L
        <5>1. \A a, b \in 1..L : f[s[a]] = f[s[b]] => a = b
          BY <1>6, <3>2 DEF s
        <5> QED BY <4>2, <5>1, <3>3
      <4>3. CASE i = L + 1 \/ j = L + 1
        BY <4>1, <4>3, <3>3, <3>4
      <4> QED BY <4>2, <4>3, <3>4
    <3> QED BY <3>3, <3>6, <3>7
  <2> QED BY <2>3, <2>4
<1>7. Bad = {}
  <2>1. SUFFICES ASSUME Bad # {} PROVE FALSE
    OBVIOUS
  <2> HIDE DEF Good
  <2>2. Bad \in SUBSET Nat
    BY <1>0
  <2>3. PICK k \in Bad : \A j \in Bad : k <= j
    <3> HIDE DEF Bad
    <3> QED BY <2>1, <2>2, Least
  <2>4. k \in 1..N /\ k - 1 \in 0..N /\ ~(k <= k - 1)
    BY <1>0, <1>5, <2>3
  <2>5. Good(k - 1)
    BY <2>3, <2>4
  <2> QED BY <1>6, <2>3, <2>4, <2>5
<1>8. Good(N)
  <2>1. N \in 0..N
    BY <1>0
  <2> HIDE DEF Good
  <2> QED BY <1>7, <2>1
<1>9. First(N) = ToSet(queue) \cap kept
  BY <1>0 DEF ToSet
<1> HIDE DEF First
<1> QED BY <1>0, <1>3, <1>8, <1>9

-----------------------------------------------------------------------------
(* The inductive invariant.  A form is in a queue once; what is queued is  *)
(* no older than what the server holds and than the requests under way;    *)
(* what was staged while the queue is applied is no older than what is     *)
(* applied; and the request that is awaited is for the change whose turn   *)
(* it is.                                                                  *)

Runs == [applying : BOOLEAN, snapshot : Seq(Item), results : Seq(Result),
         line : Lines \cup {None}]

Unique(q) == \A i, j \in DOMAIN q : q[i].id = q[j].id => i = j
Numbered(q) ==
  \A i \in DOMAIN q :
    /\ server[q[i].id] <= q[i].edit /\ q[i].edit <= edits
    /\ \A l \in Lines :
         wire[l] # None /\ wire[l].id = q[i].id => wire[l].edit <= q[i].edit
Aligned == \A i \in DOMAIN run.results : run.results[i].item = run.snapshot[i]
Fresh ==
  \A i \in DOMAIN items, j \in DOMAIN run.snapshot :
    items[i].id = run.snapshot[j].id => run.snapshot[j].edit <= items[i].edit
Awaits ==
  Waiting => /\ Len(run.results) < Len(run.snapshot)
             /\ wire[run.line] # None => wire[run.line] = Due
Before == /\ \A id \in Ids : server[id] <= edits
          /\ \A l \in Lines : wire[l] # None => wire[l].edit <= edits

IInv ==
  /\ TypeOK
  /\ Unique(items) /\ Numbered(items)
  /\ Unique(run.snapshot) /\ Numbered(run.snapshot)
  /\ Aligned /\ Fresh /\ Awaits /\ Before

\* The elements of a queue of changes.
LEMMA QueueIs ==
  ASSUME NEW T, NEW q \in Seq(T)
  PROVE  /\ Len(q) \in Nat /\ DOMAIN q = 1..Len(q)
         /\ \A i \in DOMAIN q : q[i] \in T /\ q[i] \in ToSet(q)
         /\ \A x \in ToSet(q) : \E i \in DOMAIN q : q[i] = x
BY LenProperties, ElementOfSeq DEF ToSet

LEMMA EmptyQueue ==
  /\ \A T : <<>> \in Seq(T)
  /\ DOMAIN <<>> = {} /\ Len(<<>>) = 0 /\ Unique(<<>>) /\ Numbered(<<>>)
<1>1. <<>> \in Seq({}) /\ DOMAIN <<>> = {} /\ Len(<<>>) = 0
  BY EmptySeq
<1> QED BY <1>1, EmptySeq DEF Unique, Numbered

LEMMA NoRunIs ==
  /\ NoRun \in Runs /\ NoRun.line = None
  /\ ~NoRun.applying /\ NoRun.snapshot = <<>> /\ NoRun.results = <<>>
BY EmptyQueue DEF NoRun, Runs

\* No request is a change.
LEMMA NoneIs == None \notin Item /\ None \notin Lines
BY PendingAssumption DEF Item

\* Taking a change out of the queue.
LEMMA FilteredQueue ==
  ASSUME NEW T, NEW q \in Seq(T), \A x \in T : x = [id |-> x.id, edit |-> x.edit],
         Unique(q), NEW kept
  PROVE  /\ Among(q, kept) \in Seq(T) /\ Unique(Among(q, kept))
         /\ ToSet(Among(q, kept)) = ToSet(q) \cap kept
<1> DEFINE f == [x \in T |-> x.id]
           left == Among(q, kept)
<1>1. /\ left \in Seq(T) /\ ToSet(left) = ToSet(q) \cap kept
      /\ (\A i, j \in DOMAIN q : f[q[i]] = f[q[j]] => i = j)
           => \A i, j \in DOMAIN left : f[left[i]] = f[left[j]] => i = j
  <2> HIDE DEF f
  <2> QED BY AmongIs
<1>2. \A i \in DOMAIN q : f[q[i]] = q[i].id
  BY QueueIs
<1>3. \A i \in DOMAIN left : f[left[i]] = left[i].id
  BY <1>1, QueueIs
<1> HIDE DEF f, left
<1>4. Unique(left)
  BY <1>1, <1>2, <1>3 DEF Unique
<1> QED BY <1>1, <1>4 DEF left

\* A queue whose rows are all rows of another that is numbered and fresh.
LEMMA PartKeeps ==
  ASSUME NEW q \in Seq(Item), NEW r \in Seq(Item), ToSet(r) \subseteq ToSet(q),
         Numbered(q)
  PROVE  /\ Numbered(r)
         /\ \A i \in DOMAIN r : \E j \in DOMAIN q : r[i] = q[j]
<1>1. \A i \in DOMAIN r : \E j \in DOMAIN q : r[i] = q[j]
  BY QueueIs
<1> QED BY <1>1 DEF Numbered

-----------------------------------------------------------------------------
(* Every step.                                                             *)

LEMMA InitIInv == Init => IInv
<1> SUFFICES ASSUME Init PROVE IInv
  OBVIOUS
<1>1. MaxEdits \in Nat
  BY PendingAssumption
<1>2. /\ items = <<>> /\ run = NoRun /\ results = <<>> /\ modal = FALSE
      /\ edits = 0 /\ server = [id \in Ids |-> 0] /\ wire = [l \in Lines |-> None]
  BY DEF Init
<1>3. TypeOK
  <2>1. server \in [Ids -> 0..MaxEdits] /\ edits \in 0..MaxEdits
    BY <1>1, <1>2
  <2>2. run.snapshot = <<>> /\ run.results = <<>>
    BY <1>2, NoRunIs
  <2>3. items \in Seq(Item) /\ results \in Seq(Result) /\ DOMAIN items = {}
    BY <1>2, EmptyQueue
  <2>4. Len(run.results) <= Len(run.snapshot)
    BY <2>2, EmptyQueue
  <2>5. run \in Runs /\ wire \in [Lines -> Item \cup {None}]
    BY <1>2, NoRunIs
  <2> QED BY <1>2, <2>1, <2>3, <2>4, <2>5 DEF TypeOK, Runs
<1>4. Unique(items) /\ Numbered(items)
  BY <1>2, EmptyQueue
<1>5. Unique(run.snapshot) /\ Numbered(run.snapshot) /\ Aligned /\ Fresh
  BY <1>2, EmptyQueue, NoRunIs DEF Aligned, Fresh
<1>6. Awaits /\ Before
  BY <1>2, NoRunIs DEF Awaits, Waiting, Before
<1> QED BY <1>3, <1>4, <1>5, <1>6 DEF IInv

\* What a form saves replaces the change of this form or comes after the
\* others.
LEMMA StagedIs ==
  ASSUME NEW q \in Seq(Item), Unique(q), NEW item \in Item
  PROVE  LET s == Staged(q, item) IN
         /\ s \in Seq(Item) /\ Unique(s)
         /\ \A i \in DOMAIN s : s[i] = item \/ s[i] \in ToSet(q)
<1> DEFINE s == Staged(q, item)
<1>0. /\ Len(q) \in Nat /\ DOMAIN q = 1..Len(q)
      /\ \A i \in DOMAIN q : q[i] \in Item /\ q[i] \in ToSet(q)
  BY QueueIs
<1>1. CASE HasStaged(q, item.id)
  <2>1. s = [i \in DOMAIN q |-> IF q[i].id = item.id THEN item ELSE q[i]]
    BY <1>1 DEF Staged
  <2>2. s \in [1..Len(q) -> Item]
    BY <2>1, <1>0
  <2>3. s \in Seq(Item)
    BY <2>2, <1>0, SeqDef
  <2>4. DOMAIN s = DOMAIN q /\ \A i \in DOMAIN q : s[i].id = q[i].id
    BY <2>1
  <2>5. Unique(s)
    BY <2>4 DEF Unique
  <2>6. \A i \in DOMAIN s : s[i] = item \/ s[i] \in ToSet(q)
    BY <2>1, <1>0
  <2> QED BY <2>3, <2>5, <2>6
<1>2. CASE ~HasStaged(q, item.id)
  <2>1. s = Append(q, item)
    BY <1>2 DEF Staged
  <2>2. /\ s \in Seq(Item) /\ Len(s) = Len(q) + 1
        /\ \A i \in 1..Len(q) : s[i] = q[i]
        /\ s[Len(q) + 1] = item
    BY <2>1, AppendProperties
  <2>3. DOMAIN s = 1..(Len(q) + 1) /\ 1..(Len(q) + 1) = (1..Len(q)) \cup {Len(q) + 1}
        /\ Len(q) + 1 \notin 1..Len(q)
    BY <2>2, <1>0, QueueIs
  <2>4. \A i \in 1..Len(q) : s[i].id # item.id
    BY <1>0, <1>2, <2>2 DEF HasStaged
  <2>5. ASSUME NEW i \in DOMAIN s, NEW j \in DOMAIN s, s[i].id = s[j].id PROVE i = j
    <3>1. CASE i \in 1..Len(q) /\ j \in 1..Len(q)
      BY <3>1, <2>2, <2>5, <1>0 DEF Unique
    <3>2. CASE i = Len(q) + 1 \/ j = Len(q) + 1
      BY <3>2, <2>2, <2>3, <2>4, <2>5
    <3> QED BY <3>1, <3>2, <2>3
  <2>6. \A i \in DOMAIN s : s[i] = item \/ s[i] \in ToSet(q)
    BY <1>0, <2>2, <2>3
  <2> QED BY <2>2, <2>5, <2>6 DEF Unique
<1> QED BY <1>1, <1>2

LEMMA StageKeeps == ASSUME IInv, NEW id \in Ids, Stage(id) PROVE IInv'
<1> DEFINE item == [id |-> id, edit |-> edits + 1]
<1>0. /\ TypeOK /\ items \in Seq(Item) /\ Unique(items) /\ MaxEdits \in Nat
      /\ edits \in Nat /\ edits < MaxEdits /\ edits' = edits + 1
      /\ items' = Staged(items, item)
      /\ UNCHANGED <<run, results, modal, wire, server>>
  BY PendingAssumption DEF IInv, TypeOK, Stage
<1>1. item \in Item /\ item.id = id /\ item.edit = edits + 1
  BY <1>0 DEF Item
<1> HIDE DEF item
<1>2. /\ items' \in Seq(Item) /\ Unique(items)'
      /\ \A i \in DOMAIN items' : items'[i] = item \/ items'[i] \in ToSet(items)
  BY <1>0, <1>1, StagedIs DEF Unique
<1>3. /\ run.snapshot \in Seq(Item)
      /\ \A i \in DOMAIN run.snapshot : run.snapshot[i] \in Item
  BY <1>0, QueueIs DEF TypeOK
<1>4. TypeOK'
  BY <1>0, <1>2 DEF TypeOK, Unique
<1>5. \A x \in Item : x.edit \in Nat
  BY DEF Item
<1>6. /\ \A k \in Ids : server[k] \in Nat /\ server[k] <= edits
      /\ \A l \in Lines : wire[l] # None => wire[l].edit \in Nat /\ wire[l].edit <= edits
  <2>1. \A l \in Lines : wire[l] # None => wire[l] \in Item
    BY <1>0 DEF TypeOK
  <2> QED BY <1>0, <1>5, <2>1 DEF IInv, TypeOK, Before
<1>7. ASSUME NEW i \in DOMAIN items', items'[i] # item
      PROVE  \E j \in DOMAIN items : items'[i] = items[j]
  BY <1>0, <1>2, <1>7, QueueIs
<1>8. \A i \in DOMAIN items : items[i] \in Item /\ items[i].edit \in Nat
  BY <1>0, <1>5, QueueIs
<1>9. Numbered(items)'
  <2> SUFFICES ASSUME NEW i \in DOMAIN items'
               PROVE  /\ server[items'[i].id] <= items'[i].edit /\ items'[i].edit <= edits + 1
                      /\ \A l \in Lines : wire[l] # None /\ wire[l].id = items'[i].id
                                             => wire[l].edit <= items'[i].edit
    BY <1>0 DEF Numbered
  <2>1. CASE items'[i] = item
    BY <2>1, <1>0, <1>1, <1>6
  <2>2. CASE items'[i] # item
    <3>1. PICK j \in DOMAIN items : items'[i] = items[j]
      BY <2>2, <1>7
    <3>2. /\ server[items[j].id] <= items[j].edit /\ items[j].edit <= edits
          /\ \A l \in Lines : wire[l] # None /\ wire[l].id = items[j].id
                                 => wire[l].edit <= items[j].edit
      BY DEF IInv, Numbered
    <3> QED BY <3>1, <3>2, <1>0, <1>8
  <2> QED BY <2>1, <2>2
<1>10. Numbered(run.snapshot)'
  <2> SUFFICES ASSUME NEW i \in DOMAIN run.snapshot
               PROVE  /\ server[run.snapshot[i].id] <= run.snapshot[i].edit
                      /\ run.snapshot[i].edit <= edits + 1
                      /\ \A l \in Lines : wire[l] # None /\ wire[l].id = run.snapshot[i].id
                                             => wire[l].edit <= run.snapshot[i].edit
    BY <1>0 DEF Numbered
  <2>1. /\ server[run.snapshot[i].id] <= run.snapshot[i].edit
        /\ run.snapshot[i].edit <= edits
        /\ \A l \in Lines : wire[l] # None /\ wire[l].id = run.snapshot[i].id
                               => wire[l].edit <= run.snapshot[i].edit
    BY DEF IInv, Numbered
  <2> QED BY <2>1, <1>0, <1>3, <1>5
<1>11. Fresh'
  <2> SUFFICES ASSUME NEW i \in DOMAIN items', NEW j \in DOMAIN run.snapshot,
                      items'[i].id = run.snapshot[j].id
               PROVE  run.snapshot[j].edit <= items'[i].edit
    BY <1>0 DEF Fresh
  <2>1. CASE items'[i] = item
    <3>1. run.snapshot[j].edit <= edits /\ run.snapshot[j].edit \in Nat
      BY <1>3, <1>5 DEF IInv, Numbered
    <3> QED BY <2>1, <3>1, <1>0, <1>1
  <2>2. CASE items'[i] # item
    <3>1. PICK k \in DOMAIN items : items'[i] = items[k]
      BY <2>2, <1>7
    <3> QED BY <3>1 DEF IInv, Fresh
  <2> QED BY <2>1, <2>2
<1>12. Unique(run.snapshot)' /\ Aligned' /\ Awaits' /\ Before'
  BY <1>0, <1>6 DEF IInv, Unique, Aligned, Awaits, Before, Waiting, Due
<1> QED BY <1>2, <1>4, <1>9, <1>10, <1>11, <1>12 DEF IInv

\* Fewer requests are under way, and a queue stays numbered.
LEMMA FewerKeep ==
  ASSUME UNCHANGED <<edits, server>>,
         \A l \in Lines : wire'[l] \in {wire[l], None},
         NEW q, NEW r, Numbered(q),
         \A i \in DOMAIN r : \E j \in DOMAIN q : r[i] = q[j]
  PROVE  \A i \in DOMAIN r :
           /\ server'[r[i].id] <= r[i].edit /\ r[i].edit <= edits'
           /\ \A l \in Lines :
                wire'[l] # None /\ wire'[l].id = r[i].id => wire'[l].edit <= r[i].edit
<1> SUFFICES ASSUME NEW i \in DOMAIN r
             PROVE  /\ server[r[i].id] <= r[i].edit /\ r[i].edit <= edits
                    /\ \A l \in Lines :
                         wire'[l] # None /\ wire'[l].id = r[i].id => wire'[l].edit <= r[i].edit
  OBVIOUS
<1>1. PICK j \in DOMAIN q : r[i] = q[j]
  OBVIOUS
<1> QED BY <1>1 DEF Numbered

\* A step after which the queue and the requests under way are part of what
\* they were, and the rest is as before or no more.
LEMMA LessKeeps ==
  ASSUME IInv, UNCHANGED <<edits, server>>, modal' \in BOOLEAN, results' \in Seq(Result),
         items' \in Seq(Item), Unique(items)', ToSet(items') \subseteq ToSet(items),
         wire' \in [Lines -> Item \cup {None}],
         \A l \in Lines : wire'[l] \in {wire[l], None},
         run' = run \/ run' = NoRun
           \/ (items' = items /\ run' = [NoRun EXCEPT !.applying = TRUE, !.snapshot = items])
  PROVE  IInv'
<1>0. /\ TypeOK /\ items \in Seq(Item) /\ Numbered(items) /\ Unique(items)
      /\ run \in Runs
  BY DEF IInv, TypeOK, Runs
<1>1. /\ Numbered(items)'
      /\ \A i \in DOMAIN items' : \E j \in DOMAIN items : items'[i] = items[j]
  <2>1. \A i \in DOMAIN items' : \E j \in DOMAIN items : items'[i] = items[j]
    BY <1>0, QueueIs
  <2>2. \A i \in DOMAIN items' :
           /\ server'[items'[i].id] <= items'[i].edit /\ items'[i].edit <= edits'
           /\ \A l \in Lines :
                wire'[l] # None /\ wire'[l].id = items'[i].id => wire'[l].edit <= items'[i].edit
    BY <1>0, <2>1, FewerKeep
  <2> QED BY <2>1, <2>2 DEF Numbered
<1>2. Before'
  <2>1. \A l \in Lines : wire'[l] # None => wire'[l] = wire[l]
    OBVIOUS
  <2> QED BY <2>1 DEF IInv, Before
<1>3. CASE run' = run
  <2>1. TypeOK'
    BY <1>0, <1>3 DEF TypeOK, Unique
  <2>2. Numbered(run.snapshot)'
    <3>1. \A i \in DOMAIN run.snapshot :
             /\ server'[run.snapshot[i].id] <= run.snapshot[i].edit
             /\ run.snapshot[i].edit <= edits'
             /\ \A l \in Lines : wire'[l] # None /\ wire'[l].id = run.snapshot[i].id
                                   => wire'[l].edit <= run.snapshot[i].edit
      <4>1. Numbered(run.snapshot)
        BY DEF IInv
      <4> QED BY <4>1, FewerKeep
    <3> QED BY <3>1, <1>3 DEF Numbered
  <2>3. Unique(run.snapshot)' /\ Aligned'
    BY <1>3 DEF IInv, Unique, Aligned
  <2>4. Fresh'
    BY <1>1, <1>3 DEF IInv, Fresh
  <2>5. Awaits'
    <3>1. ASSUME run.line # None
          PROVE  /\ Len(run.results) < Len(run.snapshot)
                 /\ wire'[run.line] # None => wire'[run.line] = Due
      <4>1. run.line \in Lines
        BY <1>0, <3>1 DEF Runs
      <4>2. wire'[run.line] \in {wire[run.line], None}
        BY <4>1
      <4> QED BY <3>1, <4>2 DEF IInv, Awaits, Waiting
    <3> QED BY <3>1, <1>3 DEF Awaits, Waiting, Due
  <2> QED BY <1>1, <1>2, <2>1, <2>2, <2>3, <2>4, <2>5 DEF IInv
<1>4. CASE run' = NoRun
  <2>1. TypeOK'
    <3>1. Len(run'.results) <= Len(run'.snapshot)
      BY <1>4, NoRunIs, EmptyQueue
    <3>2. run' \in Runs
      BY <1>4, NoRunIs
    <3> QED BY <1>0, <3>1, <3>2 DEF TypeOK, Unique, Runs
  <2>2. DOMAIN run'.snapshot = {} /\ DOMAIN run'.results = {}
    BY <1>4, NoRunIs, EmptyQueue
  <2>3. Unique(run.snapshot)' /\ Numbered(run.snapshot)' /\ Aligned' /\ Fresh'
    BY <2>2 DEF Unique, Numbered, Aligned, Fresh
  <2>4. Awaits'
    BY <1>4, NoRunIs DEF Awaits, Waiting
  <2> QED BY <1>1, <1>2, <2>1, <2>3, <2>4 DEF IInv
<1>5. CASE items' = items /\ run' = [NoRun EXCEPT !.applying = TRUE, !.snapshot = items]
  <2>1. run'.snapshot = items /\ run'.results = <<>> /\ run'.line = None /\ run' \in Runs
    BY <1>0, <1>5, EmptyQueue DEF NoRun, Runs
  <2>2. TypeOK'
    <3>1. Len(run'.results) <= Len(run'.snapshot)
      BY <1>0, <2>1, EmptyQueue, QueueIs
    <3> QED BY <1>0, <2>1, <3>1 DEF TypeOK, Unique, Runs
  <2>3. Unique(run.snapshot)' /\ Aligned'
    BY <1>0, <2>1, EmptyQueue DEF Unique, Aligned
  <2>4. Numbered(run.snapshot)'
    <3>1. run'.snapshot = items'
      BY <1>5, <2>1
    <3> QED BY <1>1, <3>1 DEF Numbered
  <2>5. \A i \in DOMAIN items : items[i].edit <= items[i].edit
    <3>1. ASSUME NEW x \in Item PROVE x.edit <= x.edit
      BY PendingAssumption DEF Item
    <3> QED BY <3>1, <1>0, QueueIs
  <2>6. Fresh'
    BY <1>0, <1>5, <2>1, <2>5 DEF Unique, Fresh
  <2>7. Awaits'
    BY <2>1 DEF Awaits, Waiting
  <2> QED BY <1>1, <1>2, <2>2, <2>3, <2>4, <2>6, <2>7 DEF IInv
<1> QED BY <1>3, <1>4, <1>5

\* Where a run stands, and the change whose turn it is.
LEMMA RunIs ==
  ASSUME IInv
  PROVE  /\ run \in Runs /\ run.snapshot \in Seq(Item) /\ run.results \in Seq(Result)
         /\ Len(run.results) \in Nat /\ DOMAIN run.results = 1..Len(run.results)
         /\ Len(run.snapshot) \in Nat /\ DOMAIN run.snapshot = 1..Len(run.snapshot)
         /\ wire \in [Lines -> Item \cup {None}]
         /\ Len(run.results) < Len(run.snapshot) =>
              /\ Len(run.results) + 1 \in DOMAIN run.snapshot /\ Due \in Item
              /\ server[Due.id] <= Due.edit /\ Due.edit <= edits
              /\ \A l \in Lines : wire[l] # None /\ wire[l].id = Due.id
                                    => wire[l].edit <= Due.edit
<1>1. /\ run \in Runs /\ run.snapshot \in Seq(Item) /\ run.results \in Seq(Result)
      /\ wire \in [Lines -> Item \cup {None}]
  BY DEF IInv, TypeOK, Runs
<1>2. /\ Len(run.results) \in Nat /\ DOMAIN run.results = 1..Len(run.results)
      /\ Len(run.snapshot) \in Nat /\ DOMAIN run.snapshot = 1..Len(run.snapshot)
  BY <1>1, QueueIs
<1>3. ASSUME Len(run.results) < Len(run.snapshot)
      PROVE  Len(run.results) + 1 \in DOMAIN run.snapshot
  BY <1>2, <1>3
<1> QED BY <1>1, <1>2, <1>3, QueueIs DEF IInv, Numbered, Due

\* The next change of the snapshot is sent.
LEMMA SendKeeps == ASSUME IInv, NEW l \in Lines, Send(l) PROVE IInv'
<1>0. /\ run.applying /\ Len(run.results) < Len(run.snapshot)
      /\ wire' = [wire EXCEPT ![l] = Due] /\ run' = [run EXCEPT !.line = l]
      /\ UNCHANGED <<items, results, modal, edits, server>>
  BY DEF Send
<1>1. /\ run'.snapshot = run.snapshot /\ run'.results = run.results /\ run'.line = l
      /\ run' \in Runs
  BY <1>0, RunIs DEF Runs
<1>2. /\ wire' \in [Lines -> Item \cup {None}] /\ wire'[l] = Due
      /\ \A m \in Lines : m # l => wire'[m] = wire[m]
  BY <1>0, RunIs
<1>3. TypeOK'
  BY <1>0, <1>1, <1>2 DEF IInv, TypeOK, Runs
<1>4. Unique(items)' /\ Unique(run.snapshot)' /\ Aligned' /\ Fresh'
  BY <1>0, <1>1 DEF IInv, Unique, Aligned, Fresh
<1>5. Awaits' /\ Before'
  BY <1>0, <1>1, <1>2, RunIs DEF IInv, Awaits, Before, Due
<1>6. ASSUME NEW i \in DOMAIN items, items[i].id = Due.id PROVE Due.edit <= items[i].edit
  BY <1>0, <1>6, RunIs DEF IInv, Fresh, Due
<1>7. ASSUME NEW i \in DOMAIN run.snapshot, run.snapshot[i].id = Due.id
      PROVE  Due.edit <= run.snapshot[i].edit
  <2>1. i = Len(run.results) + 1
    BY <1>0, <1>7, RunIs DEF IInv, Unique, Due
  <2>2. Due \in Item
    BY <1>0, RunIs
  <2>3. Due.edit \in Nat
    BY <2>2, PendingAssumption DEF Item
  <2> QED BY <2>1, <2>3 DEF Due
<1>8. Numbered(items)'
  <2> SUFFICES ASSUME NEW i \in DOMAIN items
               PROVE  /\ server[items[i].id] <= items[i].edit /\ items[i].edit <= edits
                      /\ \A m \in Lines : wire'[m] # None /\ wire'[m].id = items[i].id
                                            => wire'[m].edit <= items[i].edit
    BY <1>0 DEF Numbered
  <2> QED BY <1>2, <1>6 DEF IInv, Numbered
<1>9. Numbered(run.snapshot)'
  <2> SUFFICES ASSUME NEW i \in DOMAIN run.snapshot
               PROVE  /\ server[run.snapshot[i].id] <= run.snapshot[i].edit
                      /\ run.snapshot[i].edit <= edits
                      /\ \A m \in Lines : wire'[m] # None /\ wire'[m].id = run.snapshot[i].id
                                            => wire'[m].edit <= run.snapshot[i].edit
    BY <1>0, <1>1 DEF Numbered
  <2> QED BY <1>2, <1>7 DEF IInv, Numbered
<1> QED BY <1>3, <1>4, <1>5, <1>8, <1>9 DEF IInv

\* The server carries out a request: what is queued for the same form is no
\* older.
LEMMA LandsKeeps == ASSUME IInv, NEW l \in Lines, Lands(l) PROVE IInv'
<1> DEFINE item == wire[l]
<1>0. /\ item # None /\ server' = [server EXCEPT ![item.id] = item.edit]
      /\ wire' = [wire EXCEPT ![l] = None]
      /\ UNCHANGED <<items, run, results, modal, edits>>
      /\ server \in [Ids -> 0..MaxEdits] /\ MaxEdits \in Nat
  BY PendingAssumption DEF Lands, Freed, IInv, TypeOK
<1>1. item \in Item
  BY <1>0, RunIs
<1>2. item.id \in Ids /\ item.edit \in 1..MaxEdits /\ item.edit <= edits
  BY <1>0, <1>1 DEF Item, IInv, Before
<1>3. /\ wire' \in [Lines -> Item \cup {None}]
      /\ \A m \in Lines : wire'[m] \in {wire[m], None}
  BY <1>0, RunIs
<1>4. ASSUME NEW q \in Seq(Item), Numbered(q)
      PROVE  \A i \in DOMAIN q :
               /\ server'[q[i].id] <= q[i].edit /\ q[i].edit <= edits
               /\ \A m \in Lines :
                    wire'[m] # None /\ wire'[m].id = q[i].id => wire'[m].edit <= q[i].edit
  <2> SUFFICES ASSUME NEW i \in DOMAIN q
               PROVE  /\ server'[q[i].id] <= q[i].edit /\ q[i].edit <= edits
                      /\ \A m \in Lines :
                           wire'[m] # None /\ wire'[m].id = q[i].id => wire'[m].edit <= q[i].edit
    OBVIOUS
  <2>1. q[i] \in Item
    BY QueueIs
  <2>2. q[i].id \in Ids
    BY <2>1 DEF Item
  <2>3. /\ server[q[i].id] <= q[i].edit /\ q[i].edit <= edits
        /\ item.id = q[i].id => item.edit <= q[i].edit
    BY <1>0, <1>4 DEF Numbered
  <2>4. server'[q[i].id] = IF q[i].id = item.id THEN item.edit ELSE server[q[i].id]
    BY <1>0, <2>2
  <2>5. \A m \in Lines :
          wire'[m] # None /\ wire'[m].id = q[i].id => wire'[m].edit <= q[i].edit
    <3> SUFFICES ASSUME NEW m \in Lines, wire'[m] # None, wire'[m].id = q[i].id
                 PROVE  wire'[m].edit <= q[i].edit
      OBVIOUS
    <3>1. wire'[m] = wire[m]
      BY <1>3
    <3> QED BY <3>1, <1>4 DEF Numbered
  <2> QED BY <2>3, <2>4, <2>5
<1>5. Numbered(items)' /\ Numbered(run.snapshot)'
  <2>1. /\ items \in Seq(Item) /\ run.snapshot \in Seq(Item)
        /\ Numbered(items) /\ Numbered(run.snapshot)
    BY RunIs DEF IInv, TypeOK
  <2>2. \A i \in DOMAIN items :
               /\ server'[items[i].id] <= items[i].edit /\ items[i].edit <= edits
               /\ \A m \in Lines : wire'[m] # None /\ wire'[m].id = items[i].id
                                     => wire'[m].edit <= items[i].edit
    BY <2>1, <1>4
  <2>3. \A i \in DOMAIN run.snapshot :
               /\ server'[run.snapshot[i].id] <= run.snapshot[i].edit
               /\ run.snapshot[i].edit <= edits
               /\ \A m \in Lines : wire'[m] # None /\ wire'[m].id = run.snapshot[i].id
                                     => wire'[m].edit <= run.snapshot[i].edit
    BY <2>1, <1>4
  <2> QED BY <1>0, <2>2, <2>3 DEF Numbered
<1> HIDE DEF item
<1>6. server' \in [Ids -> 0..MaxEdits]
  BY <1>0, <1>2
<1>7. TypeOK'
  BY <1>0, <1>3, <1>6 DEF IInv, TypeOK
<1>8. Unique(items)' /\ Unique(run.snapshot)' /\ Aligned' /\ Fresh'
  BY <1>0 DEF IInv, Unique, Aligned, Fresh
<1>9. Awaits'
  <2>1. run.line # None => wire'[run.line] \in {wire[run.line], None}
    BY <1>3, RunIs DEF Runs
  <2> QED BY <1>0, <2>1 DEF IInv, Awaits, Waiting, Due
<1>10. Before'
  <2>1. \A id \in Ids : server'[id] = server[id] \/ server'[id] = item.edit
    BY <1>0
  <2>2. \A m \in Lines : wire'[m] # None => wire'[m] = wire[m]
    BY <1>3
  <2> QED BY <1>0, <1>2, <2>1, <2>2 DEF IInv, Before
<1> QED BY <1>5, <1>7, <1>8, <1>9, <1>10 DEF IInv

\* What applyAll awaited was answered or given up: one result more.
LEMMA ReportedKeeps ==
  ASSUME IInv, Waiting, NEW ok \in BOOLEAN, run' = Reported(ok),
         UNCHANGED <<items, results, modal, edits, server>>,
         wire' \in [Lines -> Item \cup {None}],
         \A l \in Lines : wire'[l] \in {wire[l], None}
  PROVE  IInv'
<1> DEFINE k == Len(run.results) + 1
           result == [item |-> Due, ok |-> ok]
<1>0. Len(run.results) < Len(run.snapshot)
  BY DEF IInv, Awaits
<1>1. result \in Result /\ result.item = Due
  BY <1>0, RunIs DEF Result
<1>2. /\ run'.snapshot = run.snapshot /\ run'.results = Append(run.results, result)
      /\ run'.applying = run.applying /\ run'.line = None
  BY RunIs DEF Reported, Runs
<1>3. run' = [run EXCEPT !.line = None, !.results = Append(run.results, result)]
  BY DEF Reported
<1> HIDE DEF result
<1>4. /\ run'.results \in Seq(Result) /\ Len(run'.results) = k
      /\ \A i \in 1..Len(run.results) : run'.results[i] = run.results[i]
      /\ run'.results[k] = result
  BY <1>1, <1>2, RunIs, AppendProperties
<1>5. DOMAIN run'.results = 1..k /\ 1..k = (1..Len(run.results)) \cup {k}
  <2>1. DOMAIN run'.results = 1..k
    BY <1>4, QueueIs
  <2> QED BY <2>1, RunIs
<1>6. run' \in Runs
  BY <1>2, <1>3, <1>4, RunIs DEF Runs
<1>7. Len(run'.results) <= Len(run'.snapshot)
  BY <1>0, <1>2, <1>4, RunIs
<1>8. TypeOK'
  BY <1>6, <1>7 DEF IInv, TypeOK, Unique, Runs
<1>9. Aligned'
  <2> SUFFICES ASSUME NEW i \in DOMAIN run'.results
               PROVE  run'.results[i].item = run.snapshot[i]
    BY <1>2 DEF Aligned
  <2>1. CASE i = k
    BY <2>1, <1>1, <1>4 DEF Due
  <2>2. CASE i # k
    <3>1. i \in 1..Len(run.results)
      BY <2>2, <1>5
    <3> QED BY <3>1, <1>4, RunIs DEF IInv, Aligned
  <2> QED BY <2>1, <2>2
<1>10. Numbered(items)' /\ Numbered(run.snapshot)'
  <2>1. /\ Numbered(items) /\ Numbered(run.snapshot)
        /\ \A l \in Lines : wire'[l] # None => wire'[l] = wire[l]
    BY DEF IInv
  <2> QED BY <2>1, <1>2 DEF Numbered
<1>11. Unique(items)' /\ Unique(run.snapshot)' /\ Fresh'
  BY <1>2 DEF IInv, Unique, Fresh
<1>12. Awaits' /\ Before'
  <2>1. \A l \in Lines : wire'[l] # None => wire'[l] = wire[l]
    OBVIOUS
  <2> QED BY <1>2, <2>1 DEF IInv, Awaits, Waiting, Before
<1> QED BY <1>8, <1>9, <1>10, <1>11, <1>12 DEF IInv

\* What the end of applyAll leaves in the queue: the changes that failed.
LEMMA KeepsFailedIs ==
  ASSUME IInv, Len(run.results) = Len(run.snapshot)
  PROVE  LET kept == KeepsFailed(run.results) IN
         /\ kept \in Seq(Item) /\ Unique(kept) /\ ToSet(kept) \subseteq ToSet(run.snapshot)
         /\ \A i \in DOMAIN run.results :
              ~run.results[i].ok => run.results[i].item \in ToSet(kept)
<1> DEFINE report == run.results
           left == {r \in ToSet(report) : ~r.ok}
           failed == Among(report, left)
           kept == [i \in DOMAIN failed |-> failed[i].item]
           f == [r \in Result |-> r.item.id]
<1>0. /\ report \in Seq(Result) /\ run.snapshot \in Seq(Item)
      /\ DOMAIN report = DOMAIN run.snapshot
  <2>1. report \in Seq(Result) /\ run.snapshot \in Seq(Item)
    BY DEF IInv, TypeOK
  <2> QED BY <2>1, QueueIs
<1>1. /\ \A i \in DOMAIN report : report[i] \in Result /\ report[i] \in ToSet(report)
      /\ \A i \in DOMAIN report : f[report[i]] = run.snapshot[i].id
  BY <1>0, QueueIs DEF IInv, Aligned
<1>2. /\ failed \in Seq(Result) /\ ToSet(failed) = ToSet(report) \cap left
      /\ (\A i, j \in DOMAIN report : f[report[i]] = f[report[j]] => i = j)
           => \A i, j \in DOMAIN failed : f[failed[i]] = f[failed[j]] => i = j
  <2> HIDE DEF f, left, report
  <2> QED BY <1>0, AmongIs
<1>3. KeepsFailed(report) = kept
  BY DEF KeepsFailed
<1>4. /\ Len(failed) \in Nat /\ DOMAIN failed = 1..Len(failed)
      /\ \A i \in DOMAIN failed : failed[i] \in Result /\ failed[i] \in ToSet(failed)
      /\ \A x \in ToSet(failed) : \E i \in DOMAIN failed : failed[i] = x
  <2> HIDE DEF failed
  <2> QED BY <1>2, QueueIs
<1>5. \A i, j \in DOMAIN failed : f[failed[i]] = f[failed[j]] => i = j
  <2>1. \A i, j \in DOMAIN report : f[report[i]] = f[report[j]] => i = j
    <3>1. \A i, j \in DOMAIN run.snapshot :
            run.snapshot[i].id = run.snapshot[j].id => i = j
      BY DEF IInv, Unique
    <3> HIDE DEF f, report
    <3> QED BY <1>0, <1>1, <3>1
  <2> HIDE DEF f, failed
  <2> QED BY <1>2, <2>1
<1> HIDE DEF failed
<1>6. kept \in Seq(Item)
  <2>1. kept \in [1..Len(failed) -> Item]
    BY <1>4 DEF Result
  <2> QED BY <2>1, <1>4, SeqDef
<1>7. DOMAIN kept = DOMAIN failed /\ \A i \in DOMAIN failed : kept[i] = failed[i].item
  OBVIOUS
<1>8. Unique(kept)
  <2>1. \A i \in DOMAIN failed : f[failed[i]] = kept[i].id
    BY <1>4, <1>7
  <2> HIDE DEF f, kept
  <2> QED BY <1>5, <1>7, <2>1 DEF Unique
<1> HIDE DEF kept
<1>9. ToSet(kept) \subseteq ToSet(run.snapshot)
  <2> SUFFICES ASSUME NEW i \in DOMAIN kept PROVE kept[i] \in ToSet(run.snapshot)
    BY DEF ToSet
  <2>1. failed[i] \in ToSet(report)
    BY <1>2, <1>4, <1>7
  <2>2. PICK j \in DOMAIN report : failed[i] = report[j]
    BY <2>1, <1>0, QueueIs
  <2>3. report[j].item = run.snapshot[j]
    BY DEF IInv, Aligned
  <2> QED BY <2>2, <2>3, <1>0, <1>7, QueueIs
<1>10. ASSUME NEW i \in DOMAIN report, ~report[i].ok PROVE report[i].item \in ToSet(kept)
  <2>1. report[i] \in ToSet(failed)
    BY <1>1, <1>2, <1>10
  <2>2. PICK j \in DOMAIN failed : failed[j] = report[i]
    BY <2>1, <1>4
  <2>3. kept[j] = report[i].item /\ j \in DOMAIN kept
    BY <2>2, <1>7
  <2> QED BY <2>3, <1>6, QueueIs
<1> QED BY <1>3, <1>6, <1>8, <1>9, <1>10

LEMMA FinishKeeps == ASSUME IInv, Finish PROVE IInv'
<1>1. /\ Len(run.results) = Len(run.snapshot) /\ items' = KeepsFailed(run.results)
      /\ results' = run.results /\ modal' = FALSE /\ run' = NoRun
      /\ UNCHANGED <<edits, wire, server>>
  BY DEF Finish
<1>2. /\ items' \in Seq(Item) /\ Unique(items)' /\ ToSet(items') \subseteq ToSet(run.snapshot)
  BY <1>1, KeepsFailedIs DEF Unique
<1>3. /\ run.snapshot \in Seq(Item) /\ Numbered(run.snapshot) /\ run.results \in Seq(Result)
      /\ edits \in 0..MaxEdits /\ server \in [Ids -> 0..MaxEdits]
      /\ wire \in [Lines -> Item \cup {None}]
  BY DEF IInv, TypeOK
<1>4. Numbered(items)'
  <2>1. \A i \in DOMAIN items' : \E j \in DOMAIN run.snapshot : items'[i] = run.snapshot[j]
    BY <1>2, <1>3, QueueIs
  <2> QED BY <1>1, <1>3, <2>1 DEF Numbered
<1>5. DOMAIN run'.snapshot = {} /\ DOMAIN run'.results = {}
      /\ Len(run'.results) <= Len(run'.snapshot)
  BY <1>1, NoRunIs, EmptyQueue
<1>6. TypeOK'
  BY <1>1, <1>2, <1>3, <1>5, NoRunIs DEF TypeOK, Unique, Runs
<1>7. Unique(run.snapshot)' /\ Numbered(run.snapshot)' /\ Aligned' /\ Fresh'
  BY <1>5 DEF Unique, Numbered, Aligned, Fresh
<1>8. Awaits' /\ Before'
  BY <1>1, NoRunIs DEF IInv, Awaits, Waiting, Before
<1> QED BY <1>1, <1>2, <1>3, <1>4, <1>6, <1>7, <1>8 DEF IInv

LEMMA NextIInv == IInv /\ [Next]_vars => IInv'
<1> SUFFICES ASSUME IInv, [Next]_vars PROVE IInv'
  OBVIOUS
<1>0. /\ TypeOK /\ items \in Seq(Item) /\ results \in Seq(Result) /\ Unique(items)
      /\ modal \in BOOLEAN /\ <<>> \in Seq(Item) /\ <<>> \in Seq(Result)
      /\ wire \in [Lines -> Item \cup {None}]
  BY EmptyQueue DEF IInv, TypeOK
<1>00. ToSet(<<>>) = {}
  BY EmptyQueue DEF ToSet
<1>1. ASSUME NEW id \in Ids, Stage(id) PROVE IInv'
  BY <1>1, StageKeeps
<1>2. ASSUME NEW id \in Ids, Unstage(id) PROVE IInv'
  <2> DEFINE kept == {item \in ToSet(items) : item.id # id}
  <2>1. items' = Among(items, kept) /\ UNCHANGED <<run, results, modal, edits, wire, server>>
    BY <1>2 DEF Unstage
  <2> HIDE DEF kept
  <2>2. \A x \in Item : x = [id |-> x.id, edit |-> x.edit]
    BY DEF Item
  <2>3. /\ items' \in Seq(Item) /\ Unique(items') /\ ToSet(items') = ToSet(items) \cap kept
    BY <1>0, <2>1, <2>2, FilteredQueue
  <2> QED BY <1>0, <2>1, <2>3, LessKeeps DEF Unique
<1>3. CASE ClearAll
  <2>1. items' = <<>> /\ results' = <<>> /\ UNCHANGED <<run, modal, edits, wire, server>>
    BY <1>3 DEF ClearAll
  <2>2. Unique(items)'
    BY <2>1, EmptyQueue DEF Unique
  <2> QED BY <1>0, <1>00, <2>1, <2>2, LessKeeps
<1>4. CASE ClearResults \/ OpenModal \/ CloseModal
  <2>1. /\ UNCHANGED <<items, run, edits, wire, server>>
        /\ modal' \in BOOLEAN /\ results' \in {results, <<>>}
    BY <1>0, <1>4 DEF ClearResults, OpenModal, CloseModal
  <2> QED BY <1>0, <2>1, LessKeeps DEF Unique
<1>5. CASE Confirm
  <2>1. /\ run' = [NoRun EXCEPT !.applying = TRUE, !.snapshot = items]
        /\ results' = <<>> /\ UNCHANGED <<items, modal, edits, wire, server>>
    BY <1>5 DEF Confirm
  <2> QED BY <1>0, <2>1, LessKeeps DEF Unique
<1>6. ASSUME NEW l \in Lines, Send(l) \/ Lands(l) \/ Vanishes(l) PROVE IInv'
  <2>1. CASE Send(l)
    BY <2>1, SendKeeps
  <2>2. CASE Lands(l)
    BY <2>2, LandsKeeps
  <2>3. CASE Vanishes(l)
    <3>1. /\ wire' = [wire EXCEPT ![l] = None]
          /\ UNCHANGED <<items, run, results, modal, edits, server>>
      BY <2>3 DEF Vanishes, Freed
    <3>2. /\ wire' \in [Lines -> Item \cup {None}]
          /\ \A m \in Lines : wire'[m] \in {wire[m], None}
      BY <1>0, <3>1
    <3> QED BY <1>0, <3>1, <3>2, LessKeeps DEF Unique
  <2> QED BY <1>6, <2>1, <2>2, <2>3
<1>10. CASE Answered \/ GivesUp
  <2>1. /\ Waiting /\ UNCHANGED <<items, results, modal, edits, wire, server>>
        /\ \E ok \in BOOLEAN : run' = Reported(ok)
    BY <1>10 DEF Answered, GivesUp
  <2> QED BY <1>0, <2>1, ReportedKeeps
<1>11. CASE Refused
  <2>1. /\ Waiting /\ run' \in {Reported(FALSE), NoRun}
        /\ wire' = [wire EXCEPT ![run.line] = None]
        /\ UNCHANGED <<items, results, modal, edits, server>>
    BY <1>11 DEF Refused, Freed
  <2>2. /\ wire' \in [Lines -> Item \cup {None}]
        /\ \A m \in Lines : wire'[m] \in {wire[m], None}
    BY <1>0, <2>1
  <2>3. CASE run' = NoRun
    BY <1>0, <2>1, <2>2, <2>3, LessKeeps DEF Unique
  <2>4. CASE run' = Reported(FALSE)
    BY <2>1, <2>2, <2>4, ReportedKeeps
  <2> QED BY <2>1, <2>3, <2>4
<1>7. CASE Finish
  BY <1>7, FinishKeeps
<1>8. CASE Reload
  <2>1. /\ items' = <<>> /\ results' = <<>> /\ run' = NoRun /\ modal' = FALSE
        /\ UNCHANGED <<edits, wire, server>>
    BY <1>8 DEF Reload
  <2>2. Unique(items)'
    BY <2>1, EmptyQueue DEF Unique
  <2> QED BY <1>0, <1>00, <2>1, <2>2, LessKeeps
<1>9. CASE UNCHANGED vars
  <2>1. UNCHANGED <<items, run, results, modal, edits, wire, server>>
    BY <1>9 DEF vars
  <2> QED BY <1>0, <2>1, LessKeeps DEF Unique
<1> QED BY <1>1, <1>2, <1>3, <1>4, <1>5, <1>6, <1>7, <1>8, <1>9, <1>10, <1>11 DEF Next

LEMMA Always == Spec => []IInv
BY InitIInv, NextIInv, PTL DEF Spec

-----------------------------------------------------------------------------
\* The queue, applyAll's snapshot and results and what the server holds keep
\* their types, and a form is in the queue at most once.
THEOREM TypeCorrect == Spec => []TypeOK
<1>1. IInv => TypeOK
  BY DEF IInv
<1> QED BY <1>1, Always, PTL

\* The server goes back to an earlier edit of a form only by a request that
\* the browser had given up: the one that applyAll awaits never puts an older
\* edit over a newer one, though late requests land at any time.
THEOREM NewestEditWins == Spec => NewestWins
<1> DEFINE Late(id) == \E l \in Lines \ {run.line} : Lands(l) /\ wire[l].id = id
<1>1. IInv /\ [Next]_vars
        => [\A id \in Ids : server'[id] < server[id] => Late(id)]_vars
  <2> SUFFICES ASSUME IInv, [Next]_vars, NEW id \in Ids, server'[id] < server[id]
               PROVE  Late(id)
    OBVIOUS
  <2>1. server \in [Ids -> 0..MaxEdits] /\ MaxEdits \in Nat
    BY PendingAssumption DEF IInv, TypeOK
  <2>2. server # server'
    BY <2>1
  <2>3. PICK l \in Lines : Lands(l)
    BY <2>2 DEF Next, vars, Stage, Unstage, ClearAll, ClearResults, OpenModal, CloseModal,
                Confirm, Send, Vanishes, Answered, Refused, GivesUp, Finish, Reload
  <2>4. wire[l] # None /\ server' = [server EXCEPT ![wire[l].id] = wire[l].edit]
    BY <2>3 DEF Lands
  <2>5. wire[l].id = id /\ server'[id] = wire[l].edit
    BY <2>1, <2>4
  <2>6. ASSUME l = run.line PROVE FALSE
    <3>1. Waiting /\ wire[l] = Due
      BY <2>4, <2>6, NoneIs DEF IInv, Awaits, Waiting
    <3>2. server[Due.id] <= Due.edit /\ Due \in Item
      BY <3>1, RunIs DEF IInv, Awaits
    <3>3. Due.edit \in Nat
      BY <3>2, <2>1 DEF Item
    <3> QED BY <2>1, <2>5, <3>1, <3>2, <3>3
  <2> QED BY <2>3, <2>5, <2>6
<1> QED BY <1>1, Always, PTL DEF Spec, NewestWins

\* The end of applyAll drops no change it did not apply, but for those staged
\* after it took its snapshot.
THEOREM NothingIsDropped == Spec => NothingDropped
<1> DEFINE Kept == Finish => \A i \in DOMAIN items :
              \/ items[i] \in ToSet(items')
              \/ [item |-> items[i], ok |-> TRUE] \in ToSet(run.results)
              \/ items[i] \notin ToSet(run.snapshot)
<1>1. IInv /\ [Next]_vars => [Kept]_vars
  <2> SUFFICES ASSUME IInv, Finish, NEW i \in DOMAIN items, items[i] \in ToSet(run.snapshot)
               PROVE  \/ items[i] \in ToSet(items')
                      \/ [item |-> items[i], ok |-> TRUE] \in ToSet(run.results)
    OBVIOUS
  <2>1. /\ run.snapshot \in Seq(Item) /\ run.results \in Seq(Result)
        /\ Len(run.results) = Len(run.snapshot) /\ items' = KeepsFailed(run.results)
    BY DEF IInv, TypeOK, Finish
  <2>2. DOMAIN run.results = DOMAIN run.snapshot
    BY <2>1, QueueIs
  <2>3. PICK j \in DOMAIN run.snapshot : run.snapshot[j] = items[i]
    BY <2>1, QueueIs
  <2>4. run.results[j] \in Result /\ run.results[j] \in ToSet(run.results)
        /\ run.results[j].item = items[i]
    BY <2>1, <2>2, <2>3, QueueIs DEF IInv, Aligned
  <2>5. CASE run.results[j].ok
    <3>1. run.results[j].ok = TRUE
      BY <2>4, <2>5 DEF Result
    <3>2. run.results[j] = [item |-> items[i], ok |-> TRUE]
      BY <2>4, <3>1 DEF Result
    <3> QED BY <2>4, <3>2
  <2>6. CASE ~run.results[j].ok
    BY <2>1, <2>2, <2>4, <2>6, KeepsFailedIs
  <2> QED BY <2>5, <2>6
<1> QED BY <1>1, Always, PTL DEF Spec, NothingDropped
=============================================================================
