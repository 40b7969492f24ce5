--------------------------- MODULE SpoolerProofs ---------------------------
(***************************************************************************)
(* Proofs about Spooler, for every set of messages, paths and workers and  *)
(* every bound: the inductive invariant IndInv, and from it that a row     *)
(* shown as sent is of a message the provider accepted, that a resolved    *)
(* event never overtakes its open event, and that final rows stay final.   *)
(* Over time: however many workers lose a row to a crash, a timeout or a   *)
(* failure, its sends keep within the budget; and one worker on the        *)
(* database, the deployment the program supports, sends a message twice    *)
(* only after a send whose outcome nobody recorded, and keeps the distance *)
(* between its sends on one path.                                          *)
(***************************************************************************)
EXTENDS Spooler, FiniteSetTheorems, TLAPS

USE MessagesAssumption, SpoolerAssumption DEF Ids

-----------------------------------------------------------------------------
(* What the row operators do                                               *)

(* Within a row's life its message stays, a final row stays as it is, and  *)
(* an open one keeps within the budget: the effect of one change of a row. *)
Evolves(r, q, seen) ==
    /\ q \in Row
    /\ q.msg = r.msg
    /\ q.status = "none" <=> r.status = "none"
    /\ IsOpen(q) => IsOpen(r) /\ q.attempts <= MaxRetries
    /\ IsFinal(r) => q.status = r.status
    /\ q.status = "sent" => r.status = "sent" \/ r.msg \in seen

Within(r) == IsOpen(r) => r.attempts <= MaxRetries

LEMMA SameEvolves ==
    ASSUME NEW r \in Row, Within(r), NEW seen
    PROVE  Evolves(r, r, seen)
BY DEF Evolves, Within, IsOpen, IsFinal

LEMMA FinishEvolves ==
    ASSUME NEW r \in Row, IsOpen(r), NEW seen,
           NEW s \in {"sent", "failed"}, s = "sent" => r.msg \in seen
    PROVE  Evolves(r, Finish(r, s), seen) /\ Finish(r, s).status = s
BY DEF Evolves, Finish, IsOpen, IsFinal, Row, Statuses, Ages

LEMMA GiveBackEvolves ==
    ASSUME NEW r \in Row, IsOpen(r), Within(r), NEW seen
    PROVE  Evolves(r, GiveBack(r), seen) /\ GiveBack(r).status = "pending"
BY DEF Evolves, GiveBack, IsOpen, IsFinal, Row, Statuses, Ages, Within

LEMMA ClaimedEvolves ==
    ASSUME NEW r \in Row, IsOpen(r), Within(r), NEW seen, NEW w \in Workers
    PROVE  Evolves(r, Claimed(r, w), seen) /\ Claimed(r, w).status = "processing"
BY DEF Evolves, Claimed, IsOpen, IsFinal, Row, Statuses, Ages, Within

LEMMA SpendRow ==
    ASSUME NEW r \in Row, IsOpen(r), Within(r), NEW n \in {0, 1}
    PROVE  /\ Spend(r, n) \in Row
           /\ Spend(r, n).msg = r.msg
           /\ Spend(r, n).status = r.status
           /\ Spend(r, n).attempts = r.attempts + n
<1>1. /\ MaxRetries \in Nat /\ r.attempts \in Nat /\ r.attempts <= MaxRetries
  BY DEF Row, Within
<1>2. r.attempts + n \in 0..(MaxRetries + 1)
  BY <1>1
<1>3. Spend(r, n) = [r EXCEPT !.retried = TRUE, !.attempts = r.attempts + n]
  BY DEF Spend, Row
<1> QED BY <1>2, <1>3 DEF Row

LEMMA RetriedEvolves ==
    ASSUME NEW r \in Row, IsOpen(r), Within(r), NEW seen, NEW t \in BOOLEAN
    PROVE  Evolves(r, Retried(r, t), seen) /\ Retried(r, t).status # "processing"
<1> DEFINE c == Spend(r, IF t THEN 0 ELSE 1)
<1>1. c \in Row /\ c.msg = r.msg /\ c.status = r.status
  BY SpendRow
<1>2. IsOpen(c)
  BY <1>1 DEF IsOpen
<1>3. CASE c.attempts > MaxRetries \/ r.age = "expired"
  <2>1. Evolves(c, Finish(c, "failed"), seen) /\ Finish(c, "failed").status = "failed"
    BY <1>1, <1>2, FinishEvolves
  <2>2. Retried(r, t) = Finish(c, "failed")
    BY <1>3 DEF Retried
  <2> QED BY <1>1, <2>1, <2>2 DEF Evolves, IsOpen, IsFinal
<1>4. CASE ~(c.attempts > MaxRetries \/ r.age = "expired")
  <2> DEFINE d == [c EXCEPT !.due = FALSE]
  <2>1. /\ d \in Row /\ d.msg = r.msg /\ d.status = r.status
        /\ d.attempts = c.attempts
    BY <1>1 DEF Row
  <2>2. IsOpen(d) /\ Within(d)
    BY <1>1, <1>4, <2>1 DEF IsOpen, Within, Row
  <2>3. Evolves(d, GiveBack(d), seen) /\ GiveBack(d).status = "pending"
    BY <2>1, <2>2, GiveBackEvolves
  <2>4. Retried(r, t) = GiveBack(d)
    BY <1>4 DEF Retried
  <2> QED BY <2>1, <2>3, <2>4 DEF Evolves, IsOpen, IsFinal
<1> QED BY <1>3, <1>4

LEMMA RecoveredEvolves ==
    ASSUME NEW r \in Row, IsOpen(r), Within(r), NEW seen, NEW w \in Workers
    PROVE  Evolves(r, Recovered(r, w), seen)
<1> DEFINE c == Spend(r, 1)
<1>1. c \in Row /\ c.msg = r.msg /\ c.status = r.status
  BY SpendRow
<1>2. IsOpen(c)
  BY <1>1 DEF IsOpen
<1>3. CASE c.attempts > MaxRetries
  <2>1. Evolves(c, Finish(c, "failed"), seen)
    BY <1>1, <1>2, FinishEvolves
  <2> QED BY <1>1, <1>3, <2>1 DEF Evolves, IsOpen, IsFinal, Recovered
<1>4. CASE ~(c.attempts > MaxRetries)
  <2>1. Within(c)
    BY <1>1, <1>4 DEF Within, Row
  <2>2. Evolves(c, Claimed(c, w), seen)
    BY <1>1, <1>2, <2>1, ClaimedEvolves
  <2> QED BY <1>1, <1>4, <2>2 DEF Evolves, IsOpen, IsFinal, Recovered
<1> QED BY <1>3, <1>4

LEMMA SettledEvolves ==
    ASSUME NEW r \in Row, Within(r), NEW seen
    PROVE  /\ Evolves(r, Settled(r), seen)
           /\ IsOpen(Settled(r)) => Settled(r) = r
           /\ r.status = "processing" => Settled(r) = r
<1>1. CASE Settled(r) = r
  BY <1>1, SameEvolves DEF Settled
<1>2. CASE r.status = "pending" /\ Settled(r) = Finish(r, "failed")
  BY <1>2, FinishEvolves DEF IsOpen
<1> QED BY <1>1, <1>2 DEF Settled

LEMMA AppliedEvolves ==
    ASSUME NEW r \in Row, Within(r), NEW seen, NEW m, NEW outcome,
           outcome = "sent" => r.msg \in seen
    PROVE  /\ Evolves(r, Applied(r, m, outcome), seen)
           /\ Applied(r, m, outcome).status = "processing" =>
                Applied(r, m, outcome) = r
<1>1. CASE Applied(r, m, outcome) = r
  BY <1>1, SameEvolves
<1>2. CASE IsOpen(r) /\ outcome = "sent" /\ Applied(r, m, outcome) = Finish(r, "sent")
  BY <1>2, FinishEvolves
<1>3. CASE IsOpen(r) /\ Applied(r, m, outcome) = Finish(r, "failed")
  BY <1>3, FinishEvolves
<1>4. CASE IsOpen(r) /\ Applied(r, m, outcome) = GiveBack(r)
  BY <1>4, GiveBackEvolves
<1>5. CASE IsOpen(r) /\ Applied(r, m, outcome) = Retried(r, outcome # "limited")
  BY <1>5, RetriedEvolves, ZenonT(60)
<1> QED BY <1>1, <1>2, <1>3, <1>4, <1>5 DEF Applied, IsOpen

-----------------------------------------------------------------------------
(* What a step does to the table                                           *)

LEMMA BlankRowFacts ==
    /\ BlankRow \in Row
    /\ BlankRow.status = "none" /\ BlankRow.msg = NoMsg
BY DEF BlankRow, Row, Statuses, Ages

LEMMA NewRowFacts ==
    ASSUME NEW m \in Msgs, NEW immediate \in BOOLEAN
    PROVE  /\ NewRow(m, immediate) \in Row
           /\ NewRow(m, immediate).status = "pending"
           /\ NewRow(m, immediate).msg = m
           /\ NewRow(m, immediate).attempts = 0
<1> DEFINE a == IF IsLimited(m) THEN "new" ELSE "valid"
<1>1. a \in Ages
  BY DEF Ages
<1>2. NewRow(m, immediate) =
        [BlankRow EXCEPT !.msg = m, !.status = "pending", !.due = immediate, !.age = a]
  BY DEF NewRow
<1> HIDE DEF a
<1> QED BY <1>1, <1>2, BlankRowFacts, ZenonT(60) DEF BlankRow, Row, Statuses

(* Every row evolves or is deleted.                                        *)
TableEvolves(t, u, seen) ==
    \A i \in Ids : u[i] = BlankRow \/ Evolves(t[i], u[i], seen)

LEMMA ConsistentEvolves ==
    ASSUME NEW t \in [Ids -> Row], NEW u \in [Ids -> Row], NEW n \in Nat,
           NEW seen, TableConsistent(t, n, seen), TableEvolves(t, u, seen)
    PROVE  TableConsistent(u, n, seen)
<1> SUFFICES ASSUME NEW i \in Ids
             PROVE  /\ u[i].status = "none" <=> u[i].msg = NoMsg
                    /\ i >= n => u[i].status = "none"
                    /\ IsOpen(u[i]) => u[i].attempts <= MaxRetries
                    /\ u[i].status = "sent" => u[i].msg \in seen
  BY DEF TableConsistent
<1>1. CASE u[i] = BlankRow
  BY <1>1, BlankRowFacts DEF IsOpen
<1>2. CASE Evolves(t[i], u[i], seen)
  BY <1>2 DEF Evolves, TableConsistent
<1> QED BY <1>1, <1>2 DEF TableEvolves

LEMMA HeldEvolves ==
    ASSUME NEW t \in [Ids -> Row], NEW u \in [Ids -> Row], NEW seen,
           TableEvolves(t, u, seen), NEW i \in Ids, u[i].msg = t[i].msg,
           HeldBehindOpen(u, i)
    PROVE  HeldBehindOpen(t, i)
<1>1. PICK o \in Ids : /\ o < i /\ IsOpen(u[o])
                      /\ SameAlert(u[o].msg, u[i].msg)
                      /\ EventOf[u[o].msg] = "open"
  BY DEF HeldBehindOpen
<1>2. Evolves(t[o], u[o], seen)
  BY <1>1, BlankRowFacts DEF TableEvolves, IsOpen
<1>3. IsOpen(t[o]) /\ t[o].msg = u[o].msg
  BY <1>1, <1>2 DEF Evolves
<1> QED BY <1>1, <1>3 DEF HeldBehindOpen

(* Nothing is claimed: the order of what is being sent stays.              *)
LEMMA OrderedEvolves ==
    ASSUME NEW t \in [Ids -> Row], NEW u \in [Ids -> Row], NEW seen,
           TableEvolves(t, u, seen), TableOrdered(t),
           \A i \in Ids : u[i].status = "processing" => t[i].status = "processing"
    PROVE  TableOrdered(u)
<1> SUFFICES ASSUME NEW i \in Ids, u[i].status = "processing",
                    HeldBehindOpen(u, i)
             PROVE  FALSE
  BY DEF TableOrdered
<1>1. u[i].msg = t[i].msg
  BY BlankRowFacts DEF TableEvolves, Evolves
<1>2. HeldBehindOpen(t, i)
  BY <1>1, HeldEvolves
<1> QED BY <1>2 DEF TableOrdered

LEMMA SeenGrows ==
    ASSUME NEW t, NEW n, NEW seen, NEW more, seen \subseteq more,
           TableConsistent(t, n, seen)
    PROVE  TableConsistent(t, n, more)
BY DEF TableConsistent

-----------------------------------------------------------------------------
(* What a step does to the tables, live and saved, and to the workers      *)

TablesConsistent ==
    /\ TableConsistent(rows, nextId, accepted)
    /\ TableOrdered(rows)
    /\ \A table \in archives : /\ TableConsistent(table.rows, table.nextId, accepted)
                               /\ TableOrdered(table.rows)

WindowConsistent == maint = "draining" => gen < MaxRestores

LEMMA IndInvParts ==
    IndInv <=> TypeOK /\ WindowConsistent /\ WorkersConsistent /\ TablesConsistent
BY DEF IndInv, TablesConsistent, WindowConsistent

(* The live table evolves and nothing is claimed.                          *)
LEMMA TablesEvolve ==
    ASSUME TypeOK, TypeOK', TablesConsistent,
           TableEvolves(rows, rows', accepted'),
           \A i \in Ids : rows'[i].status = "processing" => rows[i].status = "processing",
           nextId' = nextId, accepted \subseteq accepted', archives' = archives
    PROVE  TablesConsistent'
<1>1. rows \in [Ids -> Row] /\ rows' \in [Ids -> Row] /\ nextId \in Nat
  BY DEF TypeOK
<1>2. TableConsistent(rows, nextId, accepted')
  BY SeenGrows DEF TablesConsistent
<1>3. TableConsistent(rows', nextId', accepted')
  BY <1>1, <1>2, ConsistentEvolves
<1>4. TableOrdered(rows')
  BY <1>1, OrderedEvolves DEF TablesConsistent
<1>5. \A table \in archives' : /\ TableConsistent(table.rows, table.nextId, accepted')
                               /\ TableOrdered(table.rows)
  BY SeenGrows DEF TablesConsistent
<1> QED BY <1>3, <1>4, <1>5 DEF TablesConsistent

(* The table stays as it is.                                               *)
LEMMA TablesSame ==
    ASSUME TablesConsistent, rows' = rows, nextId' = nextId,
           accepted \subseteq accepted', archives' = archives
    PROVE  TablesConsistent'
<1>1. TableConsistent(rows', nextId', accepted')
  BY SeenGrows DEF TablesConsistent
<1>2. TableOrdered(rows')
  BY DEF TablesConsistent
<1>3. \A table \in archives' : /\ TableConsistent(table.rows, table.nextId, accepted')
                               /\ TableOrdered(table.rows)
  BY SeenGrows DEF TablesConsistent
<1> QED BY <1>1, <1>2, <1>3 DEF TablesConsistent

(* The conditions of WorkersConsistent for one worker.                     *)
WorkerConsistent(w) ==
    /\ pc[w] \in Busy <=> cur[w] \in Item
    /\ pc[w] = "mark" => result[w] = "rate_limited"
    /\ pc[w] \in {"finalize", "mark"} /\ result[w] = "sent" =>
          cur[w].msg \in accepted
    /\ wgen[w] <= gen
    /\ wgen[w] = gen => \A it \in ItemsOf(w) :
          /\ it.id < nextId
          /\ rows[it.id].status # "none" => rows[it.id].msg = it.msg

(* A worker that does nothing stays consistent while the table evolves.    *)
LEMMA WorkerBystander ==
    ASSUME TypeOK, NEW w \in Workers, WorkerConsistent(w),
           TableEvolves(rows, rows', accepted'), nextId' = nextId,
           accepted \subseteq accepted', gen' = gen,
           pc'[w] = pc[w] \/ (pc[w] = "pacing" /\ pc'[w] = "reserved"),
           todo'[w] = todo[w], cur'[w] = cur[w],
           result'[w] = result[w], wgen'[w] = wgen[w]
    PROVE  WorkerConsistent(w)'
<1>1. ItemsOf(w)' = ItemsOf(w)
  BY DEF ItemsOf
<1>2. ASSUME NEW it \in ItemsOf(w), wgen[w] = gen
      PROVE  /\ it.id < nextId
             /\ rows'[it.id].status # "none" => rows'[it.id].msg = it.msg
  <2>1. it.id \in Ids
    BY <1>2 DEF TypeOK, ItemsOf, Item
  <2>2. /\ it.id < nextId
        /\ rows[it.id].status # "none" => rows[it.id].msg = it.msg
    BY <1>2 DEF WorkerConsistent
  <2> QED BY <2>1, <2>2, BlankRowFacts DEF TableEvolves, Evolves
<1> QED BY <1>1, <1>2 DEF WorkerConsistent, Busy, PCs

LEMMA SameTableEvolves ==
    ASSUME TypeOK, TablesConsistent, NEW seen
    PROVE  TableEvolves(rows, rows, seen)
BY SameEvolves DEF TypeOK, TablesConsistent, TableConsistent, TableEvolves, Within

LEMMA WorkersParts == WorkersConsistent <=> \A w \in Workers : WorkerConsistent(w)
BY DEF WorkersConsistent, WorkerConsistent

LEMMA NextInv ==
    ASSUME TypeOK', WindowConsistent', TablesConsistent',
           \A w \in Workers : WorkerConsistent(w)'
    PROVE  IndInv'
<1>1. WorkersConsistent'
  BY DEF WorkersConsistent, WorkerConsistent
<1> QED BY <1>1 DEF IndInv, TablesConsistent, WindowConsistent

(* The type of everything but the table of rows.                           *)
RestTypeOK ==
    /\ nextId \in 1..(MaxRows + 1)
    /\ cooldown \subseteq Paths
    /\ gap \in [Paths -> Gaps]
    /\ pc \in [Workers -> PCs]
    /\ todo \in [Workers -> SUBSET Item]
    /\ cur \in [Workers -> Item \cup {NoItem}]
    /\ result \in [Workers -> Outcomes \cup {"none"}]
    /\ cooled \in [Workers -> SUBSET Paths]
    /\ wgen \in [Workers -> 0..MaxRestores]
    /\ maint \in {"open", "draining", "replaced"}
    /\ gen \in 0..MaxRestores
    /\ archives \subseteq Tables
    /\ accepted \subseteq Msgs
    /\ delivered \in [Ids -> 0..2]
    /\ unconfirmed \subseteq Ids
    /\ burnt \in [Ids -> 0..(MaxRetries + 2)]

LEMMA TypeParts == TypeOK <=> rows \in [Ids -> Row] /\ RestTypeOK
BY DEF TypeOK, RestTypeOK

LEMMA NextType ==
    ASSUME rows' \in [Ids -> Row], RestTypeOK'
    PROVE  TypeOK'
BY DEF TypeOK, RestTypeOK

(* A step of the table alone that claims nothing.                          *)
LEMMA TableStep ==
    ASSUME IndInv, rows' \in [Ids -> Row], TableEvolves(rows, rows', accepted),
           \A i \in Ids : rows'[i].status = "processing" => rows[i].status = "processing",
           UNCHANGED <<nextId, cooldown, gap, workers, window,
                       accepted, delivered, burnt>>,
           unconfirmed' \subseteq Ids
    PROVE  IndInv'
<1> USE DEF workers, window
<1>1. TypeOK'
  BY NextType, TypeParts DEF IndInv, RestTypeOK
<1>2. TablesConsistent'
  BY <1>1, TablesEvolve, IndInvParts
<1>3. ASSUME NEW w \in Workers PROVE WorkerConsistent(w)'
  BY WorkerBystander, WorkersParts, IndInvParts
<1> QED BY <1>1, <1>2, <1>3, NextInv, IndInvParts DEF WindowConsistent

LEMMA InvRows ==
    ASSUME IndInv, NEW i \in Ids
    PROVE  rows[i] \in Row /\ Within(rows[i])
BY DEF IndInv, TypeOK, TableConsistent, Within

(* Deleting rows: the queue API and the retention.                         *)
LEMMA DeleteStep ==
    ASSUME IndInv, NEW S,
           rows' = [i \in Ids |-> IF i \in S THEN BlankRow ELSE rows[i]],
           UNCHANGED <<nextId, cooldown, gap, workers, window, history>>
    PROVE  IndInv'
<1>1. rows' \in [Ids -> Row]
  BY BlankRowFacts, InvRows
<1>2. TableEvolves(rows, rows', accepted)
  BY InvRows, SameEvolves DEF TableEvolves
<1> QED BY <1>1, <1>2, TableStep, BlankRowFacts, IndInvParts, TypeParts
        DEF history, RestTypeOK

-----------------------------------------------------------------------------
(* The queue API, the retention and time                                   *)

LEMMA EnqueueStep ==
    ASSUME IndInv, NEW m \in Msgs, NEW immediate \in BOOLEAN,
           Enqueue(m, immediate)
    PROVE  IndInv'
<1> USE DEF Enqueue, workers, window, history
<1>1. /\ nextId \in Ids /\ nextId \in Nat
      /\ rows \in [Ids -> Row]
  BY DEF IndInv, TypeOK
<1>2. \A i \in Ids : rows'[i] = IF i = nextId THEN NewRow(m, immediate) ELSE rows[i]
  BY <1>1
<1>3. rows' \in [Ids -> Row]
  BY <1>1, NewRowFacts
<1>4. TypeOK'
  BY <1>3, NextType, TypeParts DEF IndInv, RestTypeOK
<1>5. TableConsistent(rows', nextId', accepted')
  <2> SUFFICES ASSUME NEW i \in Ids
               PROVE  /\ rows'[i].status = "none" <=> rows'[i].msg = NoMsg
                      /\ i >= nextId + 1 => rows'[i].status = "none"
                      /\ IsOpen(rows'[i]) => rows'[i].attempts <= MaxRetries
                      /\ rows'[i].status = "sent" => rows'[i].msg \in accepted
    BY DEF TableConsistent
  <2>1. CASE i = nextId
    BY <1>1, <1>2, <2>1, NewRowFacts
  <2>2. CASE i # nextId
    BY <1>1, <1>2, <2>2 DEF IndInv, TableConsistent
  <2> QED BY <2>1, <2>2
<1>6. TableOrdered(rows')
  <2> SUFFICES ASSUME NEW i \in Ids, rows'[i].status = "processing"
               PROVE  ~HeldBehindOpen(rows', i)
    BY DEF TableOrdered
  <2>1. i < nextId /\ rows'[i] = rows[i]
    BY <1>1, <1>2, NewRowFacts DEF IndInv, TableConsistent
  <2>2. \A o \in Ids : o < i => rows'[o] = rows[o]
    BY <1>1, <1>2, <2>1
  <2>3. ~HeldBehindOpen(rows, i)
    BY <2>1 DEF IndInv, TableOrdered
  <2> QED BY <2>1, <2>2, <2>3 DEF HeldBehindOpen
<1>7. TablesConsistent'
  BY <1>5, <1>6 DEF TablesConsistent, IndInv
<1>8. ASSUME NEW w \in Workers PROVE WorkerConsistent(w)'
  <2>1. WorkerConsistent(w) /\ ItemsOf(w)' = ItemsOf(w)
    BY WorkersParts DEF IndInv, ItemsOf
  <2>2. \A it \in ItemsOf(w) : it.id \in Ids
    BY DEF IndInv, TypeOK, ItemsOf, Item
  <2> QED BY <1>1, <1>2, <2>1, <2>2 DEF WorkerConsistent
<1> QED BY <1>4, <1>7, <1>8, NextInv DEF WindowConsistent, IndInv

LEMMA EditStep ==
    ASSUME IndInv, FlushQueue \/ ClearLog \/ \E i \in Ids : Prune(i)
    PROVE  IndInv'
<1>1. ASSUME NEW status, Edit(status) PROVE IndInv'
  <2> DEFINE S == {i \in Ids : rows[i].status \in status}
  <2>1. rows' = [i \in Ids |-> IF i \in S THEN BlankRow ELSE rows[i]]
    BY <1>1 DEF Edit, Delete
  <2> HIDE DEF S
  <2> QED BY <1>1, <2>1, DeleteStep DEF Edit
<1>2. ASSUME NEW i \in Ids, Prune(i) PROVE IndInv'
  <2>1. rows' = [j \in Ids |-> IF j \in {i} THEN BlankRow ELSE rows[j]]
    BY <1>2 DEF Prune, IndInv, TypeOK
  <2> QED BY <1>2, <2>1, DeleteStep DEF Prune
<1> QED BY <1>1, <1>2 DEF FlushQueue, ClearLog

(* Time changes no more of a row than due, lapsed and age.                 *)
LEMMA ClockEvolves ==
    ASSUME NEW r \in Row, Within(r), NEW seen, NEW age \in Ages
    PROVE  /\ Evolves(r, [r EXCEPT !.due = TRUE], seen)
           /\ Evolves(r, [r EXCEPT !.lapsed = TRUE], seen)
           /\ Evolves(r, [r EXCEPT !.lapsed = FALSE], seen)
           /\ Evolves(r, [r EXCEPT !.age = age], seen)
BY DEF Evolves, Within, Row, IsOpen, IsFinal

(* One row evolves.                                                        *)
LEMMA RowStep ==
    ASSUME IndInv, NEW i \in Ids, NEW q, Evolves(rows[i], q, accepted),
           q.status = "processing" => rows[i].status = "processing",
           rows' = [rows EXCEPT ![i] = q]
    PROVE  /\ rows' \in [Ids -> Row]
           /\ TableEvolves(rows, rows', accepted)
           /\ \A j \in Ids : rows'[j].status = "processing" => rows[j].status = "processing"
<1>1. rows \in [Ids -> Row] /\ q \in Row
  BY DEF IndInv, TypeOK, Evolves
<1>2. \A j \in Ids : rows'[j] = IF j = i THEN q ELSE rows[j]
  BY <1>1
<1> QED BY <1>1, <1>2, InvRows, SameEvolves DEF TableEvolves

LEMMA ClockStep ==
    ASSUME IndInv, NEW i \in Ids, BecomesDue(i) \/ Lapses(i) \/ GrowsOld(i)
    PROVE  IndInv'
<1>1. rows \in [Ids -> Row] /\ unconfirmed \subseteq Ids
  BY DEF IndInv, TypeOK
<1>2. PICK q : /\ rows' = [rows EXCEPT ![i] = q]
               /\ q.status = rows[i].status
               /\ Evolves(rows[i], q, accepted)
  <2>1. CASE BecomesDue(i)
    BY <1>1, <2>1, InvRows, ClockEvolves DEF BecomesDue, Row, Ages
  <2>2. CASE Lapses(i)
    BY <1>1, <2>2, InvRows, ClockEvolves DEF Lapses, Row, Ages
  <2>3. CASE GrowsOld(i)
    BY <1>1, <2>3, InvRows, ClockEvolves DEF GrowsOld, Row, Ages
  <2> QED BY <2>1, <2>2, <2>3
<1>3. UNCHANGED <<nextId, cooldown, gap, workers, window, accepted, delivered, burnt>>
  BY DEF BecomesDue, Lapses, GrowsOld, history
<1>4. unconfirmed' \subseteq Ids
  BY <1>1 DEF BecomesDue, Lapses, GrowsOld, history
<1> QED BY <1>2, <1>3, <1>4, RowStep, TableStep

(* A step that leaves the table alone.                                     *)
LEMMA QuietStep ==
    ASSUME IndInv, RestTypeOK', WindowConsistent',
           UNCHANGED <<rows, nextId, gen, archives>>, accepted \subseteq accepted',
           \A w \in Workers :
                \/ WorkerConsistent(w)'
                \/ /\ UNCHANGED <<todo[w], cur[w], result[w], wgen[w]>>
                   /\ pc'[w] = pc[w] \/ (pc[w] = "pacing" /\ pc'[w] = "reserved")
    PROVE  IndInv'
<1>1. TypeOK'
  BY NextType, TypeParts DEF IndInv
<1>2. TablesConsistent'
  BY TablesSame, IndInvParts
<1>3. TableEvolves(rows, rows', accepted')
  BY SameTableEvolves, IndInvParts
<1>4. ASSUME NEW w \in Workers PROVE WorkerConsistent(w)'
  BY <1>3, WorkerBystander, WorkersParts, IndInvParts
<1> QED BY <1>1, <1>2, <1>4, NextInv

LEMMA PathStep ==
    ASSUME IndInv, NEW p \in Paths, GapElapses(p) \/ CooldownEnds(p)
    PROVE  IndInv'
<1>1. /\ pc \in [Workers -> PCs] /\ cooldown \subseteq Paths
      /\ gap \in [Paths -> Gaps]
  BY DEF IndInv, TypeOK
<1>2. /\ pc' \in [Workers -> PCs] /\ cooldown' \subseteq Paths
      /\ gap' \in [Paths -> Gaps]
      /\ \A w \in Workers : \/ pc'[w] = pc[w]
                            \/ pc[w] = "pacing" /\ pc'[w] = "reserved"
  <2>1. CASE GapElapses(p)
    BY <1>1, <2>1 DEF GapElapses, Gaps, PCs
  <2>2. CASE CooldownEnds(p)
    BY <1>1, <2>2 DEF CooldownEnds, workers
  <2> QED BY <2>1, <2>2
<1>3. UNCHANGED <<rows, nextId, todo, cur, result, cooled, wgen, window, history>>
  BY DEF GapElapses, CooldownEnds, workers
<1>4. RestTypeOK' /\ WindowConsistent'
  BY <1>2, <1>3, TypeParts, IndInvParts DEF RestTypeOK, WindowConsistent, window, history
<1> QED BY <1>2, <1>3, <1>4, QuietStep DEF window, history

-----------------------------------------------------------------------------
(* The worker                                                              *)

(* The variables of the workers keep their types when one worker moves.    *)
LEMMA EndRunStep ==
    ASSUME IndInv, NEW w \in Workers, EndRun(w)
    PROVE  IndInv'
<1> USE DEF EndRun, db, window, history
<1>1. RestTypeOK' /\ WindowConsistent'
  BY TypeParts, IndInvParts DEF RestTypeOK, WindowConsistent, PCs
<1>2. pc'[w] = "idle" /\ \A v \in Workers : v # w => pc'[v] = pc[v]
  BY DEF IndInv, TypeOK
<1>3. WorkerConsistent(w)'
  BY <1>2, WorkersParts, IndInvParts DEF WorkerConsistent, Busy, ItemsOf
<1> QED BY <1>1, <1>2, <1>3, QuietStep

LEMMA TakeItemStep ==
    ASSUME IndInv, NEW w \in Workers, TakeItem(w)
    PROVE  IndInv'
<1> USE DEF TakeItem, db, window, history
<1>1. PICK it \in todo[w] : /\ cur' = [cur EXCEPT ![w] = it]
                            /\ todo' = [todo EXCEPT ![w] = @ \ {it}]
  OBVIOUS
<1>2. /\ pc \in [Workers -> PCs] /\ result \in [Workers -> Outcomes \cup {"none"}]
      /\ todo \in [Workers -> SUBSET Item]
      /\ cur \in [Workers -> Item \cup {NoItem}]
  BY DEF IndInv, TypeOK
<1>3. /\ pc'[w] \in {"finalize", "reserve"}
      /\ pc'[w] = "finalize" => result'[w] = "deferred"
      /\ pc' \in [Workers -> PCs]
      /\ result' \in [Workers -> Outcomes \cup {"none"}]
  BY <1>2 DEF PCs, Outcomes
<1>4. it \in Item /\ cur'[w] = it /\ todo'[w] = todo[w] \ {it}
  BY <1>1, <1>2
<1>5. /\ todo' \in [Workers -> SUBSET Item]
      /\ cur' \in [Workers -> Item \cup {NoItem}]
  BY <1>1, <1>2, <1>4
<1>6. RestTypeOK' /\ WindowConsistent'
  BY <1>3, <1>5, TypeParts, IndInvParts DEF RestTypeOK, WindowConsistent
<1>7. WorkerConsistent(w)'
  <2>1. ItemsOf(w)' \subseteq ItemsOf(w)
    BY <1>4 DEF ItemsOf
  <2> QED BY <1>3, <1>4, <2>1, WorkersParts, IndInvParts DEF WorkerConsistent, Busy, PCs
<1>8. \A v \in Workers : v # w => UNCHANGED <<pc[v], todo[v], cur[v], result[v], wgen[v]>>
  BY <1>1, <1>2
<1> QED BY <1>6, <1>7, <1>8, QuietStep

(* A step of one worker that keeps its item and leaves the table alone.    *)
LEMMA PhaseStep ==
    ASSUME IndInv, NEW w \in Workers, NEW phase \in PCs, NEW outcome,
           pc' = [pc EXCEPT ![w] = phase], pc[w] \in Busy, phase \in Busy,
           result' = [result EXCEPT ![w] = outcome],
           outcome \in Outcomes \cup {"none"},
           phase = "mark" => outcome = "rate_limited",
           phase \in {"finalize", "mark"} /\ outcome = "sent" =>
              cur[w].msg \in accepted',
           UNCHANGED <<rows, nextId, gap, todo, cur, wgen, window>>,
           cooldown' \subseteq Paths, cooled' \in [Workers -> SUBSET Paths],
           accepted \subseteq accepted', accepted' \subseteq Msgs,
           delivered' \in [Ids -> 0..2], unconfirmed' \subseteq Ids, burnt' = burnt
    PROVE  IndInv'
<1>1. /\ pc \in [Workers -> PCs]
      /\ result \in [Workers -> Outcomes \cup {"none"}]
  BY DEF IndInv, TypeOK
<1>2. RestTypeOK' /\ WindowConsistent'
  BY <1>1, TypeParts, IndInvParts DEF RestTypeOK, WindowConsistent, window
<1>3. ItemsOf(w)' = ItemsOf(w)
  BY DEF ItemsOf
<1>4. WorkerConsistent(w)'
  BY <1>1, <1>3, WorkersParts, IndInvParts DEF WorkerConsistent, window
<1>5. \A v \in Workers : v # w => UNCHANGED <<pc[v], todo[v], cur[v], result[v], wgen[v]>>
  BY <1>1
<1> QED BY <1>2, <1>4, <1>5, QuietStep DEF window

LEMMA DeferStep ==
    ASSUME IndInv, NEW w \in Workers, PacingRefused(w) \/ LeaseRefused(w)
    PROVE  IndInv'
<1>1. /\ UNCHANGED <<db, todo, cur, cooled, wgen, window, history>>
      /\ pc' = [pc EXCEPT ![w] = "finalize"]
      /\ result' = [result EXCEPT ![w] = "deferred"]
      /\ pc[w] \in {"reserve", "reserved"}
  BY DEF PacingRefused, LeaseRefused, Defer
<1>2. "finalize" \in PCs /\ "finalize" \in Busy /\ pc[w] \in Busy
  BY <1>1 DEF PCs, Busy
<1>3. "deferred" \in Outcomes
  BY DEF Outcomes
<1>4. RestTypeOK
  BY TypeParts DEF IndInv
<1> QED BY <1>1, <1>2, <1>3, <1>4, PhaseStep DEF db, history, RestTypeOK

LEMMA ReadPacingStep ==
    ASSUME IndInv, NEW w \in Workers, ReadPacing(w)
    PROVE  IndInv'
<1> USE DEF ReadPacing, db, window, history
<1>1. /\ pc \in [Workers -> PCs]
      /\ result \in [Workers -> Outcomes \cup {"none"}]
  BY DEF IndInv, TypeOK
<1>2. pc'[w] \in {"reserved", "pacing"} /\ pc' \in [Workers -> PCs]
  BY <1>1 DEF PCs
<1>3. RestTypeOK' /\ WindowConsistent'
  BY <1>2, TypeParts, IndInvParts DEF RestTypeOK, WindowConsistent
<1>4. ItemsOf(w)' = ItemsOf(w)
  BY DEF ItemsOf
<1>5. WorkerConsistent(w)'
  BY <1>2, <1>4, WorkersParts, IndInvParts DEF WorkerConsistent, Busy, PCs
<1>6. \A v \in Workers : v # w => pc'[v] = pc[v]
  BY <1>1
<1> QED BY <1>3, <1>5, <1>6, QuietStep

LEMMA CappedRange ==
    ASSUME NEW top \in Nat, NEW n \in 0..top
    PROVE  Capped(n, top) \in 0..top
BY DEF Capped

LEMMA SendStep ==
    ASSUME IndInv, NEW w \in Workers, Send(w)
    PROVE  IndInv'
<1> DEFINE i == cur[w].id
           m == cur[w].msg
<1>1. PICK outcome \in {"sent", "deferred"} \cup Failures :
         /\ \/ /\ outcome \in {"sent", "uncertain"}
               /\ accepted' = accepted \cup {m}
               /\ delivered' = [delivered EXCEPT ![i] = Capped(@, 2)]
            \/ outcome # "sent" /\ UNCHANGED <<accepted, delivered>>
         /\ result' = [result EXCEPT ![w] = outcome]
         /\ unconfirmed' = IF outcome = "uncertain"
                           THEN unconfirmed \cup {i} ELSE unconfirmed
         /\ cooled' = [cooled EXCEPT ![w] = IF outcome = "rate_limited"
                                            THEN @ \cup {PathOf[m]} ELSE @]
  BY DEF Send
<1>2. /\ RestTypeOK
      /\ pc[w] = "sending" /\ pc[w] \in Busy
      /\ "finalize" \in PCs /\ "finalize" \in Busy
      /\ pc' = [pc EXCEPT ![w] = "finalize"]
      /\ UNCHANGED <<db, todo, cur, wgen, window, burnt>>
  BY TypeParts DEF IndInv, Send, PCs, Busy
<1>3. cur[w] \in Item
  BY <1>2, WorkersParts, IndInvParts DEF WorkerConsistent
<1>4. i \in Ids
  BY <1>3 DEF Item
<1>5. m \in Msgs
  BY <1>3 DEF Item
<1>6. outcome \in Outcomes
  BY <1>1 DEF Outcomes
<1>7. PathOf[m] \in Paths /\ cooled \in [Workers -> SUBSET Paths]
  BY <1>2, <1>5 DEF RestTypeOK
<1>8. cooled' \in [Workers -> SUBSET Paths]
  BY <1>1, <1>7
<1>9. /\ delivered \in [Ids -> 0..2] /\ delivered[i] \in 0..2
      /\ unconfirmed \subseteq Ids /\ accepted \subseteq Msgs
  BY <1>2, <1>4 DEF RestTypeOK
<1>10. delivered' \in [Ids -> 0..2]
  <2>1. Capped(delivered[i], 2) \in 0..2
    BY <1>9, CappedRange
  <2> HIDE DEF i, m
  <2> QED BY <1>1, <1>9, <2>1
<1>11. accepted' \subseteq Msgs /\ accepted \subseteq accepted' /\ unconfirmed' \subseteq Ids
  BY <1>1, <1>4, <1>5, <1>9
<1>12. outcome = "sent" => m \in accepted'
  BY <1>1
<1>13. cooldown' \subseteq Paths /\ burnt' = burnt
  BY <1>2 DEF RestTypeOK, db
<1>14. UNCHANGED <<rows, nextId, gap, todo, cur, wgen, window>>
  BY <1>2 DEF db
<1> HIDE DEF i, m
<1> QED BY <1>1, <1>2, <1>6, <1>8, <1>10, <1>11, <1>12, <1>13, <1>14, PhaseStep DEF m

LEMMA SetCooldownStep ==
    ASSUME IndInv, NEW w \in Workers, SetCooldown(w)
    PROVE  IndInv'
<1>1. /\ pc[w] = "finalize" /\ pc[w] \in Busy
      /\ "mark" \in PCs /\ "mark" \in Busy
      /\ pc' = [pc EXCEPT ![w] = "mark"]
      /\ cooldown' = cooldown \cup {PathOfCur(w)}
      /\ result[w] = "rate_limited"
      /\ UNCHANGED <<rows, nextId, gap, todo, cur, result, cooled, wgen, window, history>>
  BY DEF SetCooldown, PCs, Busy
<1>2. cur[w] \in Item
  BY <1>1, WorkersParts, IndInvParts DEF WorkerConsistent
<1>3. PathOfCur(w) \in Paths
  BY <1>2 DEF Item, PathOfCur
<1>4. RestTypeOK
  BY TypeParts DEF IndInv
<1>5. result' = [result EXCEPT ![w] = "rate_limited"]
  BY <1>1, <1>4 DEF RestTypeOK
<1>6. cooldown' \subseteq Paths
  BY <1>1, <1>3, <1>4 DEF RestTypeOK
<1>7. "rate_limited" \in Outcomes
  BY DEF Outcomes, FailureKinds
<1> QED BY <1>1, <1>4, <1>5, <1>6, <1>7, PhaseStep DEF RestTypeOK, history

(* A worker is done with its item.                                         *)
LEMMA DoneFacts ==
    ASSUME IndInv, NEW w \in Workers, ItemDone(w), todo' = todo, wgen' = wgen
    PROVE  /\ pc' \in [Workers -> PCs] /\ pc'[w] = "batch"
           /\ cur' \in [Workers -> Item \cup {NoItem}] /\ cur'[w] = NoItem
           /\ result' \in [Workers -> Outcomes \cup {"none"}]
           /\ ItemsOf(w)' \subseteq ItemsOf(w) /\ cur'[w] \notin Item
           /\ \A v \in Workers : v # w =>
                 UNCHANGED <<pc[v], todo[v], cur[v], result[v], wgen[v]>>
<1>1. /\ pc \in [Workers -> PCs] /\ cur \in [Workers -> Item \cup {NoItem}]
      /\ result \in [Workers -> Outcomes \cup {"none"}]
  BY DEF IndInv, TypeOK
<1>2. NoItem \notin Item
  BY DEF NoItem, Item
<1>3. cur'[w] = NoItem /\ pc'[w] = "batch"
  BY <1>1 DEF ItemDone
<1>4. ItemsOf(w)' \subseteq ItemsOf(w)
  BY <1>2, <1>3 DEF ItemsOf
<1>5. /\ pc' \in [Workers -> PCs] /\ cur' \in [Workers -> Item \cup {NoItem}]
      /\ result' \in [Workers -> Outcomes \cup {"none"}]
  BY <1>1 DEF ItemDone, PCs
<1>6. \A v \in Workers : v # w =>
         UNCHANGED <<pc[v], todo[v], cur[v], result[v], wgen[v]>>
  BY <1>1 DEF ItemDone
<1> QED BY <1>2, <1>3, <1>4, <1>5, <1>6

LEMMA DropResultStep ==
    ASSUME IndInv, NEW w \in Workers, DropResult(w)
    PROVE  IndInv'
<1>1. /\ ItemDone(w) /\ pc[w] = "finalize"
      /\ UNCHANGED <<db, todo, cooled, wgen, window, accepted, delivered, burnt>>
      /\ RestTypeOK
  BY TypeParts DEF DropResult, IndInv
<1>2. unconfirmed' \subseteq Ids
  <2>1. cur[w] \in Item
    BY <1>1, WorkersParts, IndInvParts DEF WorkerConsistent, Busy, PCs
  <2> QED BY <1>1, <2>1 DEF DropResult, RestTypeOK, Item
<1>3. RestTypeOK' /\ WindowConsistent'
  BY <1>1, <1>2, DoneFacts, IndInvParts DEF RestTypeOK, WindowConsistent, db, window
<1>4. WorkerConsistent(w)'
  BY <1>1, DoneFacts, WorkersParts, IndInvParts DEF WorkerConsistent, Busy, db, window
<1> QED BY <1>1, <1>3, <1>4, DoneFacts, QuietStep DEF db, window

(* A worker changes the table and itself.                                  *)
LEMMA WorkStep ==
    ASSUME IndInv, NEW w \in Workers, TypeOK', WorkerConsistent(w)',
           TableEvolves(rows, rows', accepted),
           \A i \in Ids : rows'[i].status = "processing" => rows[i].status = "processing",
           UNCHANGED <<nextId, wgen, window, accepted>>,
           \A v \in Workers : v # w =>
              /\ UNCHANGED <<todo[v], cur[v], result[v]>>
              /\ pc'[v] = pc[v] \/ (pc[v] = "pacing" /\ pc'[v] = "reserved")
    PROVE  IndInv'
<1>1. TablesConsistent'
  BY TablesEvolve, IndInvParts DEF window
<1>2. ASSUME NEW v \in Workers, v # w PROVE WorkerConsistent(v)'
  BY <1>2, WorkerBystander, WorkersParts, IndInvParts DEF window
<1>3. WindowConsistent'
  BY IndInvParts DEF WindowConsistent, window
<1> QED BY <1>1, <1>2, <1>3, NextInv

(* The rows of a worker's items, before and after the table evolved.       *)
LEMMA ItemsEvolve ==
    ASSUME IndInv, NEW w \in Workers, TableEvolves(rows, rows', accepted),
           nextId' = nextId, wgen[w] = gen, NEW it \in ItemsOf(w)
    PROVE  /\ it.id < nextId'
           /\ rows'[it.id].status # "none" => rows'[it.id].msg = it.msg
<1>1. it.id \in Ids
  BY DEF IndInv, TypeOK, ItemsOf, Item
<1>2. /\ it.id < nextId
      /\ rows[it.id].status # "none" => rows[it.id].msg = it.msg
  BY WorkersParts, IndInvParts DEF WorkerConsistent
<1> QED BY <1>1, <1>2, BlankRowFacts DEF TableEvolves, Evolves

LEMMA RenewLeaseStep ==
    ASSUME IndInv, NEW w \in Workers, RenewLease(w)
    PROVE  IndInv'
<1> DEFINE i == cur[w].id
           p == PathOfCur(w)
           held == rows[i].status = "processing" /\ rows[i].holder = w
<1>1. /\ RestTypeOK /\ pc[w] = "reserved"
      /\ UNCHANGED <<nextId, cooldown, todo, cooled, wgen, window, history>>
  BY TypeParts DEF IndInv, RenewLease
<1>2. cur[w] \in Item /\ i \in Ids /\ p \in Paths
  BY <1>1, WorkersParts, IndInvParts DEF WorkerConsistent, Busy, PCs, Item, PathOfCur
<1>3. CASE held
  <2>1. /\ rows' = [rows EXCEPT ![i].lapsed = FALSE]
        /\ gap' = [gap EXCEPT ![p] = IF p \in LongPaths THEN "far" ELSE "near"]
        /\ pc' = [v \in Workers |->
                    IF v = w THEN "sending"
                    ELSE IF pc[v] = "pacing" /\ PathOfCur(v) = p
                         THEN "reserved" ELSE pc[v]]
        /\ UNCHANGED <<cur, result>>
    BY <1>3 DEF RenewLease
  <2> DEFINE q == [rows[i] EXCEPT !.lapsed = FALSE]
  <2>2. Evolves(rows[i], q, accepted) /\ q.status = rows[i].status
    BY <1>2, InvRows, ClockEvolves, ZenonT(60) DEF Row, Ages
  <2>3. rows' = [rows EXCEPT ![i] = q]
    BY <2>1
  <2>4. /\ rows' \in [Ids -> Row]
        /\ TableEvolves(rows, rows', accepted)
        /\ \A j \in Ids : rows'[j].status = "processing" => rows[j].status = "processing"
    BY <1>2, <2>2, <2>3, RowStep
  <2>5. pc' \in [Workers -> PCs] /\ gap' \in [Paths -> Gaps]
    BY <1>1, <2>1 DEF RestTypeOK, PCs, Gaps
  <2>6. TypeOK'
    BY <1>1, <2>1, <2>4, <2>5, NextType DEF RestTypeOK, window, history
  <2>7. WorkerConsistent(w)'
    <3>1. ItemsOf(w)' = ItemsOf(w)
      BY <1>1, <2>1 DEF ItemsOf
    <3>2. WorkerConsistent(w)
      BY WorkersParts, IndInvParts
    <3>3. wgen[w] = gen => \A it \in ItemsOf(w) :
            /\ it.id < nextId'
            /\ rows'[it.id].status # "none" => rows'[it.id].msg = it.msg
      BY <1>1, <2>4, ItemsEvolve
    <3>4. pc'[w] = "sending" /\ UNCHANGED <<cur, wgen, gen>>
      BY <1>1, <2>1 DEF window
    <3>5. cur[w] \in Item /\ wgen[w] <= gen
      BY <1>2, <3>2 DEF WorkerConsistent
    <3> QED BY <3>1, <3>3, <3>4, <3>5 DEF WorkerConsistent, Busy, PCs
  <2> QED BY <1>1, <2>1, <2>4, <2>6, <2>7, WorkStep DEF window, history
<1>4. CASE ~held
  <2>1. ItemDone(w) /\ UNCHANGED <<rows, gap>>
    BY <1>4 DEF RenewLease
  <2>2. RestTypeOK' /\ WindowConsistent'
    BY <1>1, <2>1, DoneFacts, IndInvParts DEF RestTypeOK, WindowConsistent, window, history
  <2>3. WorkerConsistent(w)'
    BY <1>1, <2>1, DoneFacts, WorkersParts, IndInvParts
       DEF WorkerConsistent, Busy, window, history
  <2> QED BY <1>1, <2>1, <2>2, <2>3, DoneFacts, QuietStep DEF window, history
<1> QED BY <1>3, <1>4

LEMMA MarkResultStep ==
    ASSUME IndInv, NEW w \in Workers, MarkResult(w)
    PROVE  IndInv'
<1> DEFINE i == cur[w].id
           q == Applied(rows[i], cur[w].msg, result[w])
<1>1. /\ RestTypeOK /\ ItemDone(w)
      /\ pc[w] \in {"finalize", "mark"}
      /\ result[w] # "rate_limited" => pc[w] = "finalize" /\ wgen[w] = gen
      /\ rows' = [rows EXCEPT ![i] = q]
      /\ UNCHANGED <<nextId, cooldown, gap, todo, cooled, wgen, window,
                     accepted, delivered, unconfirmed>>
  BY TypeParts DEF IndInv, MarkResult, Admitted
<1>2. WorkerConsistent(w)
  BY WorkersParts, IndInvParts
<1>3. cur[w] \in Item /\ i \in Ids /\ cur[w] \in ItemsOf(w)
  BY <1>1, <1>2 DEF WorkerConsistent, Busy, PCs, Item, ItemsOf
<1>4. /\ Evolves(rows[i], q, accepted)
      /\ q.status = "processing" => q = rows[i]
  <2>1. CASE result[w] = "sent" /\ rows[i].status = "none"
    <3>1. q = rows[i]
      BY <2>1 DEF Applied, IsOpen
    <3> QED BY <1>3, <3>1, InvRows, SameEvolves
  <2>2. CASE ~(result[w] = "sent" /\ rows[i].status = "none")
    <3>1. result[w] = "sent" => rows[i].msg \in accepted
      BY <1>1, <1>2, <1>3, <2>2 DEF WorkerConsistent
    <3>2. rows[i] \in Row /\ Within(rows[i])
      BY <1>3, InvRows
    <3> HIDE DEF i
    <3> QED BY <3>1, <3>2, AppliedEvolves
  <2> QED BY <2>1, <2>2
<1>5. /\ rows' \in [Ids -> Row]
      /\ TableEvolves(rows, rows', accepted)
      /\ \A j \in Ids : rows'[j].status = "processing" => rows[j].status = "processing"
  <2> HIDE DEF q
  <2> QED BY <1>1, <1>3, <1>4, RowStep
<1>6. burnt' \in [Ids -> 0..(MaxRetries + 2)]
  <2>1. burnt \in [Ids -> 0..(MaxRetries + 2)] /\ MaxRetries + 2 \in Nat
    BY <1>1 DEF RestTypeOK
  <2>2. Capped(burnt[i], MaxRetries + 2) \in 0..(MaxRetries + 2)
    BY <1>3, <2>1, CappedRange
  <2> QED BY <1>3, <2>1, <2>2 DEF MarkResult
<1>7. TypeOK'
  BY <1>1, <1>5, <1>6, DoneFacts, NextType DEF RestTypeOK, window
<1>8. WorkerConsistent(w)'
  BY <1>1, <1>2, <1>5, DoneFacts, ItemsEvolve, ZenonT(60) DEF WorkerConsistent, Busy, window
<1> QED BY <1>1, <1>5, <1>7, <1>8, DoneFacts, WorkStep

(* The head of get_pending_items leaves open rows as they are.             *)
SettledRows == [i \in Ids |-> Settled(rows[i])]

LEMMA SettledFacts ==
    ASSUME IndInv
    PROVE  /\ SettledRows \in [Ids -> Row]
           /\ TableEvolves(rows, SettledRows, accepted)
           /\ \A i \in Ids : /\ Evolves(rows[i], SettledRows[i], accepted)
                             /\ IsOpen(SettledRows[i]) => SettledRows[i] = rows[i]
BY InvRows, SettledEvolves DEF SettledRows, TableEvolves, Evolves

LEMMA AfterClaimFacts ==
    ASSUME IndInv, NEW w \in Workers, NEW S \in SUBSET Candidates(SettledRows),
           NEW i \in Ids
    PROVE  LET q == AfterClaim(SettledRows, S, w)[i]
           IN  /\ Evolves(rows[i], q, accepted)
               /\ Evolves(SettledRows[i], q, accepted)
               /\ i \notin S => q = SettledRows[i]
               /\ i \in S => ~HeldBehindOpen(SettledRows, i) /\ IsOpen(rows[i])
<1> DEFINE r == SettledRows[i]
           q == AfterClaim(SettledRows, S, w)[i]
<1>1. /\ Evolves(rows[i], r, accepted) /\ r \in Row
      /\ IsOpen(r) => r = rows[i]
  BY SettledFacts
<1>2. Within(r)
  BY <1>1 DEF Evolves, Within
<1>3. CASE i \notin S
  <2>1. q = r
    BY <1>3 DEF AfterClaim
  <2>2. Evolves(r, r, accepted)
    BY <1>1, <1>2, SameEvolves
  <2> QED BY <1>1, <1>3, <2>1, <2>2
<1>4. CASE i \in S
  <2>1. /\ r.status \in {"pending", "processing"}
        /\ ~HeldBehindOpen(SettledRows, i)
    BY <1>4 DEF Candidates
  <2>2. IsOpen(r) /\ r = rows[i]
    BY <1>1, <2>1 DEF IsOpen
  <2>3. q = IF r.status = "processing" THEN Recovered(r, w) ELSE Claimed(r, w)
    BY <1>4 DEF AfterClaim
  <2>4. Evolves(r, q, accepted)
    <3> HIDE DEF r, q
    <3> QED BY <1>1, <1>2, <2>2, <2>3, RecoveredEvolves, ClaimedEvolves
  <2> QED BY <1>4, <2>1, <2>2, <2>4
<1> QED BY <1>3, <1>4

LEMMA ClaimStep ==
    ASSUME IndInv, NEW w \in Workers, Claim(w)
    PROVE  IndInv'
<1>1. PICK S \in SUBSET Candidates(SettledRows) :
         /\ rows' = AfterClaim(SettledRows, S, w)
         /\ todo' = [todo EXCEPT ![w] =
               {[id |-> i, msg |-> rows[i].msg] : i \in
                   {j \in S : AfterClaim(SettledRows, S, w)[j].status = "processing"}}]
  BY DEF Claim, SettledRows
<1>2. /\ RestTypeOK /\ pc[w] = "idle"
      /\ pc' = [pc EXCEPT ![w] = "batch"]
      /\ wgen' = [wgen EXCEPT ![w] = gen]
      /\ UNCHANGED <<nextId, cooldown, gap, cur, result, cooled, window, history>>
  BY TypeParts DEF IndInv, Claim
<1>3. S \subseteq Ids
  BY DEF Candidates
<1>4. \A i \in Ids : /\ Evolves(rows[i], rows'[i], accepted)
                     /\ Evolves(SettledRows[i], rows'[i], accepted)
                     /\ i \notin S => rows'[i] = SettledRows[i]
                     /\ i \in S => ~HeldBehindOpen(SettledRows, i) /\ IsOpen(rows[i])
  BY <1>1, AfterClaimFacts
<1>5. rows' \in [Ids -> Row]
  <2>1. rows' = [i \in Ids |-> rows'[i]]
    BY <1>1 DEF AfterClaim
  <2> QED BY <1>4, <2>1 DEF Evolves
<1>6. TableEvolves(rows, rows', accepted) /\ TableEvolves(SettledRows, rows', accepted)
  BY <1>4 DEF TableEvolves
<1>7. \A it \in todo'[w] :
         it.id \in S /\ it \in Item /\ it.msg = rows[it.id].msg
  <2>1. todo'[w] = {[id |-> i, msg |-> rows[i].msg] : i \in
                       {j \in S : AfterClaim(SettledRows, S, w)[j].status = "processing"}}
    BY <1>1, <1>2 DEF RestTypeOK
  <2>2. \A i \in S : rows[i].msg \in Msgs
    BY <1>3, <1>4, InvRows DEF IndInv, TableConsistent, IsOpen, Row
  <2> QED BY <1>3, <2>1, <2>2 DEF Item
<1>8. TypeOK'
  <2>1. todo' \in [Workers -> SUBSET Item]
    <3>1. \A v \in Workers : todo'[v] \subseteq Item
      BY <1>1, <1>2, <1>7 DEF RestTypeOK
    <3> QED BY <1>1, <1>2, <3>1 DEF RestTypeOK
  <2>2. pc' \in [Workers -> PCs] /\ wgen' \in [Workers -> 0..MaxRestores]
    BY <1>2 DEF RestTypeOK, PCs
  <2> QED BY <1>2, <1>5, <2>1, <2>2, NextType DEF RestTypeOK, window, history
<1>9. TableOrdered(rows')
  <2> SUFFICES ASSUME NEW i \in Ids, rows'[i].status = "processing",
                      HeldBehindOpen(rows', i)
               PROVE  FALSE
    BY DEF TableOrdered
  <2>1. CASE i \in S
    <3>1. rows'[i].msg = SettledRows[i].msg
      BY <1>4 DEF Evolves
    <3>2. HeldBehindOpen(SettledRows, i)
      BY <1>5, <1>6, <3>1, SettledFacts, HeldEvolves
    <3> QED BY <1>4, <2>1, <3>2
  <2>2. CASE i \notin S
    <3>1. rows'[i] = rows[i]
      BY <1>4, <2>2, SettledFacts DEF IsOpen
    <3>2. HeldBehindOpen(rows, i)
      BY <1>5, <1>6, <3>1, HeldEvolves DEF IndInv, TypeOK
    <3> QED BY <3>1, <3>2 DEF IndInv, TableOrdered
  <2> QED BY <2>1, <2>2
<1>10. TablesConsistent'
  <2>1. TableConsistent(rows', nextId, accepted)
    <3>1. rows \in [Ids -> Row] /\ nextId \in Nat /\ TableConsistent(rows, nextId, accepted)
      BY DEF IndInv, TypeOK
    <3> QED BY <1>5, <1>6, <3>1, ConsistentEvolves
  <2> QED BY <1>2, <1>9, <2>1, IndInvParts DEF TablesConsistent, window, history
<1>11. ASSUME NEW v \in Workers, v # w PROVE WorkerConsistent(v)'
  BY <1>1, <1>2, <1>6, <1>11, WorkerBystander, WorkersParts, IndInvParts
     DEF RestTypeOK, window, history
<1>12. WorkerConsistent(w)'
  <2>1. pc'[w] = "batch" /\ wgen'[w] = gen /\ gen' = gen
    BY <1>2 DEF RestTypeOK, window
  <2>2. cur'[w] \notin Item
    BY <1>2, WorkersParts, IndInvParts DEF WorkerConsistent, Busy
  <2>3. ASSUME NEW it \in todo'[w]
        PROVE  /\ it.id < nextId'
               /\ rows'[it.id].msg = it.msg
    <3>1. it.id \in Ids /\ IsOpen(rows[it.id]) /\ it.msg = rows[it.id].msg
      BY <1>3, <1>4, <1>7
    <3> QED BY <1>2, <1>4, <3>1 DEF IndInv, TableConsistent, IsOpen, Evolves, TypeOK
  <2> QED BY <1>2, <2>1, <2>2, <2>3 DEF WorkerConsistent, Busy, ItemsOf, RestTypeOK
<1>13. WindowConsistent'
  BY <1>2, IndInvParts DEF WindowConsistent, window
<1> QED BY <1>8, <1>10, <1>11, <1>12, <1>13, NextInv

(* The process of a worker dies.                                           *)
LEMMA CrashStep ==
    ASSUME IndInv, NEW w \in Workers, Crash(w)
    PROVE  IndInv'
<1> DEFINE i == cur[w].id
<1>1. /\ RestTypeOK
      /\ pc' = [pc EXCEPT ![w] = "idle"]
      /\ todo' = [todo EXCEPT ![w] = {}]
      /\ cooled' = [cooled EXCEPT ![w] = {}]
      /\ cur' = [cur EXCEPT ![w] = NoItem]
      /\ result' = [result EXCEPT ![w] = "none"]
      /\ wgen' = [wgen EXCEPT ![w] = gen]
      /\ maint' = "open"
      /\ UNCHANGED <<db, gen, archives>>
  BY TypeParts DEF IndInv, Crash
<1>2. NoItem \notin Item
  BY DEF NoItem, Item
<1>3. pc[w] \in {"sending", "finalize", "mark"} => cur[w] \in Item
  BY WorkersParts, IndInvParts DEF WorkerConsistent, Busy, PCs
<1>4. pc[w] \in {"sending", "finalize", "mark"} => i \in Ids /\ cur[w].msg \in Msgs
  BY <1>3 DEF Item
<1>5. accepted \subseteq accepted' /\ accepted' \subseteq Msgs
  BY <1>1, <1>4 DEF Crash, RestTypeOK
<1>6. delivered' \in [Ids -> 0..2]
  <2>1. CASE pc[w] = "sending"
    <3>1. Capped(delivered[i], 2) \in 0..2
      BY <1>1, <1>4, <2>1, CappedRange DEF RestTypeOK
    <3> QED BY <1>1, <2>1, <3>1, ZenonT(60) DEF Crash, RestTypeOK
  <2>2. CASE pc[w] # "sending"
    BY <1>1, <2>2 DEF Crash, RestTypeOK
  <2> QED BY <2>1, <2>2
<1>7. unconfirmed' \subseteq Ids
  BY <1>1, <1>4 DEF Crash, RestTypeOK
<1>8. burnt' \in [Ids -> 0..(MaxRetries + 2)]
  <2>1. burnt \in [Ids -> 0..(MaxRetries + 2)] /\ MaxRetries + 2 \in Nat
    BY <1>1 DEF RestTypeOK
  <2>2. CASE pc[w] = "sending"
    <3>1. Capped(burnt[i], MaxRetries + 2) \in 0..(MaxRetries + 2)
      BY <1>4, <2>1, <2>2, CappedRange
    <3> QED BY <2>1, <2>2, <3>1 DEF Crash
  <2>3. CASE pc[w] # "sending"
    BY <2>1, <2>3 DEF Crash
  <2> QED BY <2>2, <2>3
<1>9. RestTypeOK'
  <2>1. /\ pc' \in [Workers -> PCs]
        /\ todo' \in [Workers -> SUBSET Item]
        /\ cooled' \in [Workers -> SUBSET Paths]
        /\ cur' \in [Workers -> Item \cup {NoItem}]
        /\ result' \in [Workers -> Outcomes \cup {"none"}]
        /\ wgen' \in [Workers -> 0..MaxRestores]
    BY <1>1 DEF RestTypeOK, PCs
  <2> QED BY <1>1, <1>5, <1>6, <1>7, <1>8, <2>1 DEF RestTypeOK, db
<1>10. TypeOK'
  BY <1>1, <1>9, NextType DEF IndInv, TypeOK, db
<1>11. TablesConsistent'
  BY <1>1, <1>5, TablesSame, IndInvParts DEF db
<1>12. TableEvolves(rows, rows', accepted')
  BY <1>1, SameTableEvolves, IndInvParts DEF db
<1>13. ASSUME NEW v \in Workers, v # w PROVE WorkerConsistent(v)'
  BY <1>1, <1>5, <1>12, <1>13, WorkerBystander, WorkersParts, IndInvParts
     DEF RestTypeOK, db
<1>14. WorkerConsistent(w)'
  <2>1. /\ pc'[w] = "idle" /\ todo'[w] = {} /\ cur'[w] = NoItem
        /\ wgen'[w] = gen /\ gen' = gen /\ gen \in 0..MaxRestores
    BY <1>1 DEF RestTypeOK
  <2> QED BY <1>2, <2>1 DEF WorkerConsistent, Busy, ItemsOf
<1>15. WindowConsistent'
  BY <1>1 DEF WindowConsistent
<1> QED BY <1>10, <1>11, <1>13, <1>14, <1>15, NextInv

-----------------------------------------------------------------------------
(* Backup and restore                                                      *)

LEMMA TakeBackupStep ==
    ASSUME IndInv, TakeBackup
    PROVE  IndInv'
<1> DEFINE copy == [rows |-> rows, nextId |-> nextId, cooldown |-> cooldown, gap |-> gap]
<1>1. /\ archives' = archives \cup {copy}
      /\ UNCHANGED <<db, workers, maint, gen, history>>
      /\ RestTypeOK /\ rows \in [Ids -> Row]
  BY TypeParts DEF IndInv, TakeBackup
<1>2. copy \in Tables
  BY <1>1 DEF Tables, RestTypeOK
<1>3. TypeOK'
  BY <1>1, <1>2, NextType DEF RestTypeOK, db, workers, history
<1>4. TablesConsistent'
  BY <1>1, IndInvParts DEF TablesConsistent, db, history
<1>5. WorkersConsistent'
  BY <1>1 DEF IndInv, WorkersConsistent, ItemsOf, db, workers, history
<1>6. WindowConsistent'
  BY <1>1, IndInvParts DEF WindowConsistent
<1> QED BY <1>3, <1>4, <1>5, <1>6 DEF IndInv, TablesConsistent, WindowConsistent

LEMMA WindowStep ==
    ASSUME IndInv, BeginMaintenance \/ AbortRestore
    PROVE  IndInv'
<1>1. /\ UNCHANGED <<db, workers, gen, archives, history>>
      /\ RestTypeOK /\ WindowConsistent' /\ maint' \in {"open", "draining"}
  BY TypeParts DEF IndInv, BeginMaintenance, AbortRestore, WindowConsistent
<1>2. RestTypeOK'
  BY <1>1 DEF RestTypeOK, db, workers, history
<1> QED BY <1>1, <1>2, QuietStep DEF db, workers, history

LEMMA SwapDatabaseStep ==
    ASSUME IndInv, SwapDatabase
    PROVE  IndInv'
<1>1. PICK table \in archives : /\ rows' = table.rows
                                /\ nextId' = table.nextId
                                /\ cooldown' = table.cooldown
                                /\ gap' = table.gap
  BY DEF SwapDatabase
<1>2. /\ maint = "draining" /\ maint' = "replaced" /\ gen' = gen + 1
      /\ unconfirmed' = Ids
      /\ UNCHANGED <<workers, archives, accepted, delivered, burnt>>
      /\ RestTypeOK
  BY TypeParts DEF SwapDatabase, IndInv
<1>3. table \in Tables
  BY <1>2 DEF RestTypeOK
<1>4. gen \in 0..MaxRestores /\ gen' \in 0..MaxRestores
  BY <1>2, IndInvParts DEF WindowConsistent, RestTypeOK
<1>5. TypeOK'
  BY <1>1, <1>2, <1>3, <1>4, NextType DEF Tables, RestTypeOK, workers
<1>6. TablesConsistent'
  BY <1>1, <1>2, IndInvParts DEF TablesConsistent
<1>7. ASSUME NEW w \in Workers PROVE WorkerConsistent(w)'
  <2>1. WorkerConsistent(w)
    BY WorkersParts, IndInvParts
  <2>2. wgen[w] \in Int /\ wgen[w] <= gen /\ wgen[w] # gen' /\ wgen[w] <= gen'
    BY <1>2, <1>4, <2>1 DEF WorkerConsistent, RestTypeOK
  <2> QED BY <1>2, <2>1, <2>2 DEF WorkerConsistent, workers
<1> QED BY <1>2, <1>5, <1>6, <1>7, NextInv DEF WindowConsistent

-----------------------------------------------------------------------------
(* The inductive invariant                                                 *)

LEMMA InitInv == Init => IndInv
<1> SUFFICES ASSUME Init PROVE IndInv
  OBVIOUS
<1> USE DEF Init
<1>1. TypeOK
  BY BlankRowFacts DEF TypeOK, PCs, Gaps, Tables
<1>2. WorkersConsistent
  BY DEF WorkersConsistent, Busy, ItemsOf, NoItem, Item
<1>3. TableConsistent(rows, nextId, accepted) /\ TableOrdered(rows)
  BY BlankRowFacts DEF TableConsistent, TableOrdered, IsOpen
<1> QED BY <1>1, <1>2, <1>3 DEF IndInv

LEMMA WorkerStepInv ==
    ASSUME IndInv, NEW w \in Workers, WorkerStep(w)
    PROVE  IndInv'
<1>1. CASE Claim(w)
  BY <1>1, ClaimStep
<1>2. CASE EndRun(w)
  BY <1>2, EndRunStep
<1>3. CASE TakeItem(w)
  BY <1>3, TakeItemStep
<1>4. CASE ReadPacing(w)
  BY <1>4, ReadPacingStep
<1>5. CASE PacingRefused(w) \/ LeaseRefused(w)
  BY <1>5, DeferStep
<1>6. CASE RenewLease(w)
  BY <1>6, RenewLeaseStep
<1>7. CASE Send(w)
  BY <1>7, SendStep
<1>8. CASE SetCooldown(w)
  BY <1>8, SetCooldownStep
<1>9. CASE MarkResult(w)
  BY <1>9, MarkResultStep
<1>10. CASE DropResult(w)
  BY <1>10, DropResultStep
<1> QED BY <1>1, <1>2, <1>3, <1>4, <1>5, <1>6, <1>7, <1>8, <1>9, <1>10 DEF WorkerStep

LEMMA StutterStep ==
    ASSUME IndInv, UNCHANGED vars
    PROVE  IndInv'
<1> USE DEF vars, db, workers, window, history
<1>1. RestTypeOK' /\ WindowConsistent'
  BY TypeParts, IndInvParts DEF RestTypeOK, WindowConsistent
<1> QED BY <1>1, QuietStep

LEMMA NextStepInv == IndInv /\ [Next]_vars => IndInv'
<1> SUFFICES ASSUME IndInv, [Next]_vars PROVE IndInv'
  OBVIOUS
<1>1. ASSUME NEW m \in Msgs, NEW immediate \in BOOLEAN, Enqueue(m, immediate)
      PROVE  IndInv'
  BY <1>1, EnqueueStep
<1>2. ASSUME NEW w \in Workers, WorkerStep(w) \/ Crash(w) PROVE IndInv'
  BY <1>2, WorkerStepInv, CrashStep
<1>3. CASE FlushQueue \/ ClearLog \/ \E i \in Ids : Prune(i)
  BY <1>3, EditStep
<1>4. CASE Time
  BY <1>4, ClockStep, PathStep DEF Time
<1>5. CASE Restore
  BY <1>5, TakeBackupStep, WindowStep, SwapDatabaseStep DEF Restore
<1>6. CASE UNCHANGED vars
  BY <1>6, StutterStep
<1> QED BY <1>1, <1>2, <1>3, <1>4, <1>5, <1>6 DEF Next

(* The table, its backups and the workers are consistent with one another  *)
(* in every reachable state, also while a restore exchanges the database   *)
(* under the workers.                                                      *)
THEOREM AlwaysIndInv == Spec => []IndInv
BY InitInv, NextStepInv, PTL DEF Spec

(* Every variable keeps its type; among others a row's attempts never      *)
(* exceed MAX_RETRIES + 1, however often its worker crashes.               *)
THEOREM TypeCorrect == Spec => []TypeOK
<1>1. IndInv => TypeOK
  BY DEF IndInv
<1> QED BY <1>1, AlwaysIndInv, PTL

(* The queue shows "Accepted by server" only for messages the provider     *)
(* accepted: no late outcome reaches the row of another message.           *)
THEOREM SentWasAccepted == Spec => []NoFalseSent
<1>1. IndInv => NoFalseSent
  BY DEF IndInv, TableConsistent, NoFalseSent
<1> QED BY <1>1, AlwaysIndInv, PTL

(* _HELD_BEHIND_OPEN_SQL is checked at the claim only, and that is enough: *)
(* a resolved event is never on its way while an older open event of the   *)
(* same alert, recipient and channel is still queued or being sent.        *)
THEOREM ResolvedWaits == Spec => []ResolvedBehindOpen
<1>1. IndInv => ResolvedBehindOpen
  BY DEF IndInv, TableOrdered, HeldBehindOpen, ResolvedBehindOpen, SameAlert
<1> QED BY <1>1, AlwaysIndInv, PTL

LEMMA FinalKept ==
    ASSUME IndInv, [Next]_vars, NEW i \in Ids, IsFinal(rows[i]), gen' = gen
    PROVE  rows'[i].status \in {rows[i].status, "none"}
<1>1. rows \in [Ids -> Row] /\ gen \in Nat
  BY DEF IndInv, TypeOK
<1>2. ASSUME NEW m \in Msgs, NEW immediate \in BOOLEAN, Enqueue(m, immediate)
      PROVE  rows'[i] = rows[i]
  BY <1>1, <1>2, SMTT(60) DEF Enqueue, IndInv, TypeOK, TableConsistent, IsFinal
<1>3. ASSUME NEW w \in Workers, WorkerStep(w)
      PROVE  rows'[i].status = rows[i].status
  <2>1. CASE Claim(w)
    <3>1. PICK S \in SUBSET Candidates(SettledRows) :
             rows' = AfterClaim(SettledRows, S, w)
      BY <2>1 DEF Claim, SettledRows
    <3> QED BY <3>1, AfterClaimFacts DEF Evolves
  <2>2. CASE RenewLease(w)
    BY <1>1, <2>2, SMTT(60) DEF RenewLease, IsFinal
  <2>3. CASE MarkResult(w)
    BY <1>1, <2>3 DEF MarkResult, Applied, IsOpen, IsFinal
  <2>4. CASE rows' = rows
    BY <2>4
  <2> QED BY <1>3, <2>1, <2>2, <2>3, <2>4
          DEF WorkerStep, EndRun, TakeItem, ReadPacing, PacingRefused,
              LeaseRefused, Defer, Send, SetCooldown, DropResult, db
<1>4. ASSUME NEW w \in Workers, Crash(w) PROVE rows'[i] = rows[i]
  BY <1>4 DEF Crash, db
<1>5. CASE FlushQueue \/ ClearLog \/ \E j \in Ids : Prune(j)
  BY <1>1, <1>5, BlankRowFacts DEF FlushQueue, ClearLog, Edit, Delete, Prune
<1>6. CASE Time
  <2>1. ASSUME NEW j \in Ids, BecomesDue(j) \/ Lapses(j) \/ GrowsOld(j)
        PROVE  rows'[i].status = rows[i].status
    <3>1. \A k \in Ids : k # j => rows'[k] = rows[k]
      BY <1>1, <2>1 DEF BecomesDue, Lapses, GrowsOld
    <3>2. rows[j] \in Row
      BY <1>1
    <3>3. rows'[j].status = rows[j].status
      BY <1>1, <2>1, <3>2, SMTT(60) DEF BecomesDue, Lapses, GrowsOld, Row
    <3> QED BY <3>1, <3>3
  <2>2. ASSUME NEW p \in Paths, GapElapses(p) \/ CooldownEnds(p)
        PROVE  rows' = rows
    BY <2>2 DEF GapElapses, CooldownEnds
  <2> QED BY <1>6, <2>1, <2>2 DEF Time
<1>7. CASE Restore
  BY <1>1, <1>7 DEF Restore, TakeBackup, BeginMaintenance, AbortRestore, SwapDatabase, db
<1>8. CASE UNCHANGED vars
  BY <1>8 DEF vars, db
<1> QED BY <1>2, <1>3, <1>4, <1>5, <1>6, <1>7, <1>8 DEF Next

(* sent and failed are final, whatever retries, recoveries or late         *)
(* outcomes come after them.                                               *)
THEOREM FinalStays == Spec => FinalIsFinal
<1>1. IndInv /\ [Next]_vars =>
        [\A i \in Ids : IsFinal(rows[i]) /\ gen' = gen =>
           \/ rows'[i].status \in {rows[i].status, "none"}]_vars
  BY FinalKept
<1> QED BY <1>1, AlwaysIndInv, PTL DEF Spec, FinalIsFinal

-----------------------------------------------------------------------------
(* The refinement: every step of the spooler is a step of Delivery, or one *)
(* that Delivery does not see.                                             *)

(* What Delivery sees of a step: the phase and the message of every row,   *)
(* the messages accepted and the queues saved.                             *)
Phases(t) == [i \in Ids |-> PhaseOf(t[i])]
Texts(t) == [i \in Ids |-> t[i].msg]
Saved == {[phase |-> Phases(table.rows), message |-> Texts(table.rows)] : table \in archives}

PromiseStep == [Promise!Next]_(Promise!vars)

LEMMA QueueParts ==
    ASSUME NEW t
    PROVE  /\ QueueOf(t) = [phase |-> Phases(t), message |-> Texts(t)]
           /\ QueueOf(t).phase = Phases(t)
           /\ QueueOf(t).message = Texts(t)
BY DEF QueueOf, Phases, Texts

LEMMA SavedParts == {QueueOf(table.rows) : table \in archives} = Saved
BY QueueParts DEF Saved

LEMMA PhaseValues ==
    ASSUME NEW r \in Row
    PROVE  /\ IsOpen(r) <=> PhaseOf(r) = "waiting"
           /\ IsFinal(r) => PhaseOf(r) = r.status
           /\ r.status = "none" => PhaseOf(r) = "none"
           /\ IsOpen(r) \/ IsFinal(r) \/ r.status = "none"
BY DEF PhaseOf, IsOpen, IsFinal, Row, Statuses

(* The rows evolve and none of them is confirmed: those that end are given *)
(* up, the others keep their phase.                                        *)
LEMMA GivenUp ==
    ASSUME IndInv,
           \A i \in Ids : Evolves(rows[i], rows'[i], accepted),
           \A i \in Ids : rows'[i].status = "sent" => rows[i].status = "sent",
           archives' = archives, accepted' = accepted
    PROVE  PromiseStep
<1> DEFINE S == {i \in Ids : IsOpen(rows[i]) /\ ~IsOpen(rows'[i])}
<1>1. \A i \in Ids : rows[i] \in Row /\ rows'[i] \in Row
  BY InvRows DEF Evolves
<1>2. \A i \in S : Phases(rows)[i] = "waiting"
  BY <1>1, PhaseValues DEF Phases
<1>3. Phases(rows') = [i \in Ids |-> IF i \in S THEN "failed" ELSE Phases(rows)[i]]
  <2> SUFFICES ASSUME NEW i \in Ids
               PROVE  PhaseOf(rows'[i]) = IF i \in S THEN "failed" ELSE PhaseOf(rows[i])
    BY DEF Phases
  <2>1. CASE i \in S
    <3>1. rows'[i].status = "failed"
      BY <1>1, <2>1 DEF Evolves, IsOpen, IsFinal, Row, Statuses
    <3> QED BY <1>1, <2>1, <3>1, PhaseValues DEF IsFinal
  <2>2. CASE IsOpen(rows[i]) /\ IsOpen(rows'[i])
    BY <1>1, <2>2, PhaseValues
  <2>3. CASE ~IsOpen(rows[i])
    <3>1. rows'[i].status = rows[i].status
      BY <1>1, <2>3, PhaseValues DEF Evolves
    <3> QED BY <2>3, <3>1 DEF PhaseOf, IsOpen
  <2> QED BY <2>1, <2>2, <2>3
<1>4. Texts(rows') = Texts(rows)
  BY DEF Texts, Evolves
<1>5. Promise!GiveUp(S)
  <2> HIDE DEF S
  <2> QED BY <1>2, <1>3, <1>4, QueueParts, ZenonT(60) DEF Promise!GiveUp
<1>6. S \in SUBSET Ids
  OBVIOUS
<1> HIDE DEF S
<1> QED BY <1>5, <1>6 DEF PromiseStep, Promise!Next

(* The table stays as it is.                                               *)
LEMMA NotSeen ==
    ASSUME UNCHANGED <<rows, archives, accepted>>
    PROVE  PromiseStep
BY DEF PromiseStep, Promise!vars

LEMMA Forgotten ==
    ASSUME NEW S \in SUBSET Ids,
           rows' = [i \in Ids |-> IF i \in S THEN BlankRow ELSE rows[i]],
           archives' = archives, accepted' = accepted
    PROVE  PromiseStep
<1>1. Phases(rows') = [i \in Ids |-> IF i \in S THEN "none" ELSE Phases(rows)[i]]
  BY BlankRowFacts DEF Phases, PhaseOf, IsOpen
<1>2. Texts(rows') = [i \in Ids |-> IF i \in S THEN NoMsg ELSE Texts(rows)[i]]
  BY BlankRowFacts DEF Texts
<1>3. Promise!Forget(S)
  BY <1>1, <1>2, QueueParts, ZenonT(60) DEF Promise!Forget
<1> QED BY <1>3 DEF PromiseStep, Promise!Next

LEMMA Taken ==
    ASSUME NEW m \in Msgs, UNCHANGED <<rows, archives>>,
           accepted' = accepted \cup {m}
    PROVE  PromiseStep
<1>1. Promise!Accept(m)
  BY DEF Promise!Accept
<1> QED BY <1>1 DEF PromiseStep, Promise!Next

LEMMA Submitted ==
    ASSUME IndInv, NEW m \in Msgs, NEW immediate \in BOOLEAN, Enqueue(m, immediate)
    PROVE  PromiseStep
<1> DEFINE q == NewRow(m, immediate)
<1>1. nextId \in Ids /\ rows \in [Ids -> Row] /\ rows' = [rows EXCEPT ![nextId] = q]
  BY DEF Enqueue, IndInv, TypeOK
<1>2. q.msg = m /\ PhaseOf(q) = "waiting"
  BY NewRowFacts DEF PhaseOf, IsOpen
<1>3. UNCHANGED <<archives, accepted>>
  BY DEF Enqueue, window, history
<1>4. Phases(rows)[nextId] = "none"
  <2>1. rows[nextId].status = "none"
    BY <1>1 DEF IndInv, TableConsistent, TypeOK
  <2> QED BY <1>1, <2>1 DEF Phases, PhaseOf, IsOpen
<1> HIDE DEF q
<1>5. Phases(rows') = [Phases(rows) EXCEPT ![nextId] = "waiting"]
  BY <1>1, <1>2 DEF Phases
<1>6. Texts(rows') = [Texts(rows) EXCEPT ![nextId] = m]
  BY <1>1, <1>2 DEF Texts
<1>7. Promise!Submit(nextId, m)
  BY <1>3, <1>4, <1>5, <1>6, QueueParts DEF Promise!Submit
<1> QED BY <1>1, <1>7 DEF PromiseStep, Promise!Next

(* The outcome of a send: an acceptance confirms the row with the item's   *)
(* id, which is still of the item's message; any other one may give it up. *)
LEMMA Marked ==
    ASSUME IndInv, NEW w \in Workers, MarkResult(w)
    PROVE  PromiseStep
<1> DEFINE i == cur[w].id
           q == Applied(rows[i], cur[w].msg, result[w])
<1>1. /\ TypeOK
      /\ pc[w] \in {"finalize", "mark"}
      /\ result[w] # "rate_limited" => pc[w] = "finalize" /\ wgen[w] = gen
      /\ rows' = [rows EXCEPT ![i] = q]
      /\ UNCHANGED <<archives, accepted>>
  BY DEF IndInv, MarkResult, Admitted, window
<1>2. WorkerConsistent(w)
  BY WorkersParts, IndInvParts
<1>3. cur[w] \in Item /\ i \in Ids /\ cur[w] \in ItemsOf(w)
  BY <1>1, <1>2 DEF WorkerConsistent, Busy, PCs, Item, ItemsOf
<1>4. rows[i] \in Row /\ Within(rows[i]) /\ rows \in [Ids -> Row]
  BY <1>1, <1>3, InvRows DEF TypeOK
<1>5. CASE result[w] = "sent" /\ IsOpen(rows[i])
  <2>1. rows[i].msg \in accepted
    BY <1>1, <1>2, <1>3, <1>5 DEF WorkerConsistent, IsOpen
  <2>2. q = Finish(rows[i], "sent")
    BY <1>5 DEF Applied
  <2>3. q.msg = rows[i].msg /\ q.status = "sent"
    <3> HIDE DEF i, q
    <3> QED BY <1>4, <2>2 DEF Finish, Row
  <2>4. PhaseOf(q) = "sent"
    <3> HIDE DEF i, q
    <3> QED BY <2>3 DEF PhaseOf, IsOpen
  <2>5. Phases(rows)[i] = "waiting" /\ Texts(rows)[i] \in accepted
    BY <1>3, <1>5, <2>1 DEF Phases, Texts, PhaseOf
  <2> HIDE DEF i, q
  <2>6. Phases(rows') = [Phases(rows) EXCEPT ![i] = "sent"]
    BY <1>1, <1>3, <1>4, <2>4 DEF Phases
  <2>7. Texts(rows') = Texts(rows)
    BY <1>1, <1>3, <1>4, <2>3 DEF Texts
  <2>8. Promise!Confirm(i)
    BY <1>1, <2>5, <2>6, <2>7, QueueParts DEF Promise!Confirm
  <2> QED BY <1>3, <2>8 DEF PromiseStep, Promise!Next
<1>6. CASE ~(result[w] = "sent" /\ IsOpen(rows[i]))
  <2>1. /\ Evolves(rows[i], q, accepted)
        /\ q.status = "sent" => rows[i].status = "sent"
    <3>1. CASE q = rows[i]
      <4> HIDE DEF i, q
      <4> QED BY <1>4, <3>1, SameEvolves
    <3>2. CASE q # rows[i]
      <4>1. IsOpen(rows[i]) /\ result[w] # "sent"
        BY <1>6, <3>2 DEF Applied, IsOpen
      <4>2. Evolves(rows[i], q, {})
        <5> HIDE DEF i
        <5> QED BY <1>4, <4>1, AppliedEvolves
      <4> HIDE DEF i, q
      <4> QED BY <4>2 DEF Evolves
    <3> QED BY <3>1, <3>2
  <2> HIDE DEF i, q
  <2>2. \A j \in Ids : rows'[j] = IF j = i THEN q ELSE rows[j]
    BY <1>1, <1>3, <1>4
  <2>3. \A j \in Ids : Evolves(rows[j], rows'[j], accepted)
    BY <2>1, <2>2, InvRows, SameEvolves
  <2> QED BY <1>1, <2>1, <2>2, <2>3, GivenUp
<1> QED BY <1>5, <1>6

LEMMA ClaimSeen ==
    ASSUME IndInv, NEW w \in Workers, Claim(w)
    PROVE  PromiseStep
<1>1. PICK S \in SUBSET Candidates(SettledRows) :
         rows' = AfterClaim(SettledRows, S, w)
  BY DEF Claim, SettledRows
<1>2. \A i \in Ids : Evolves(rows[i], rows'[i], accepted)
  BY <1>1, AfterClaimFacts
<1>3. ASSUME NEW i \in Ids, rows'[i].status = "sent" PROVE rows[i].status = "sent"
  <2>1. rows[i] \in Row /\ Within(rows[i])
    BY InvRows
  <2>2. Evolves(rows[i], SettledRows[i], {})
    BY <2>1, SettledEvolves DEF SettledRows
  <2>3. CASE i \notin S
    <3>1. rows'[i] = SettledRows[i]
      BY <1>1, <2>3, AfterClaimFacts
    <3> QED BY <1>3, <2>2, <3>1 DEF Evolves
  <2>4. CASE i \in S
    <3> DEFINE r == SettledRows[i]
    <3>1. r.status \in {"pending", "processing"} /\ r \in Row
      BY <2>2, <2>4 DEF Candidates, Evolves
    <3>2. r = rows[i] /\ IsOpen(r)
      BY <3>1, SettledFacts DEF IsOpen
    <3>3. rows'[i] = IF r.status = "processing" THEN Recovered(r, w) ELSE Claimed(r, w)
      BY <1>1, <2>4 DEF AfterClaim
    <3>4. Evolves(r, rows'[i], {})
      <4> HIDE DEF r
      <4>1. Evolves(r, Recovered(r, w), {})
        BY <2>1, <3>2, RecoveredEvolves
      <4>2. Evolves(r, Claimed(r, w), {})
        BY <2>1, <3>2, ClaimedEvolves
      <4> QED BY <3>3, <4>1, <4>2
    <3> QED BY <1>3, <3>2, <3>4 DEF Evolves
  <2> QED BY <2>3, <2>4
<1> QED BY <1>2, <1>3, GivenUp DEF Claim, window, history

(* The other steps of a worker: a send the provider accepted, and steps    *)
(* that Delivery does not see.                                             *)
LEMMA WorkerSeen ==
    ASSUME IndInv, NEW w \in Workers, WorkerStep(w) \/ Crash(w)
    PROVE  PromiseStep
<1>1. /\ rows \in [Ids -> Row] /\ unconfirmed \subseteq Ids
      /\ pc[w] = "sending" => cur[w] \in Item
  BY WorkersParts, IndInvParts DEF IndInv, TypeOK, WorkerConsistent, Busy, PCs
<1>2. CASE Claim(w)
  BY <1>2, ClaimSeen
<1>3. CASE RenewLease(w)
  <2> DEFINE i == cur[w].id
             q == [rows[i] EXCEPT !.lapsed = FALSE]
  <2>1. CASE rows' = rows
    BY <1>3, <2>1, NotSeen DEF RenewLease, window, history
  <2>2. CASE rows' # rows
    <3>1. cur[w] \in Item
      BY <1>3, WorkersParts, IndInvParts DEF RenewLease, WorkerConsistent, Busy, PCs
    <3>2. i \in Ids
      BY <3>1 DEF Item
    <3>3. rows' = [rows EXCEPT ![i] = q]
      BY <1>3, <2>2 DEF RenewLease
    <3>4. Evolves(rows[i], q, accepted) /\ q.status = rows[i].status
      <4> HIDE DEF i
      <4> QED BY <3>2, InvRows, ClockEvolves DEF Row, Ages
    <3> HIDE DEF i, q
    <3>5. \A j \in Ids : rows'[j] = IF j = i THEN q ELSE rows[j]
      BY <1>1, <3>2, <3>3
    <3>6. \A j \in Ids : /\ Evolves(rows[j], rows'[j], accepted)
                         /\ rows'[j].status = rows[j].status
      BY <3>4, <3>5, InvRows, SameEvolves
    <3> QED BY <1>3, <3>6, GivenUp DEF RenewLease, window, history
  <2> QED BY <2>1, <2>2
<1>4. CASE MarkResult(w)
  BY <1>4, Marked
<1>5. CASE Send(w) \/ Crash(w)
  <2>1. UNCHANGED <<rows, archives>>
    BY <1>5 DEF Send, Crash, db, window
  <2>2. \/ accepted' = accepted
        \/ pc[w] = "sending" /\ accepted' = accepted \cup {cur[w].msg}
    BY <1>5 DEF Send, Crash
  <2>3. pc[w] = "sending" => cur[w].msg \in Msgs
    BY <1>1 DEF Item
  <2> QED BY <2>1, <2>2, <2>3, NotSeen, Taken
<1>6. CASE UNCHANGED <<rows, archives, accepted>>
  BY <1>6, NotSeen
<1> QED BY <1>2, <1>3, <1>4, <1>5, <1>6
        DEF WorkerStep, EndRun, TakeItem, ReadPacing, PacingRefused, LeaseRefused,
            Defer, SetCooldown, DropResult, db, window, history

LEMMA EditSeen ==
    ASSUME IndInv, FlushQueue \/ ClearLog \/ \E i \in Ids : Prune(i)
    PROVE  PromiseStep
<1>1. ASSUME NEW status, Edit(status) PROVE PromiseStep
  <2> DEFINE S == {i \in Ids : rows[i].status \in status}
  <2>1. rows' = [i \in Ids |-> IF i \in S THEN BlankRow ELSE rows[i]]
    BY <1>1 DEF Edit, Delete
  <2>2. S \in SUBSET Ids
    OBVIOUS
  <2> HIDE DEF S
  <2> QED BY <1>1, <2>1, <2>2, Forgotten DEF Edit, window, history
<1>2. ASSUME NEW i \in Ids, Prune(i) PROVE PromiseStep
  <2>1. rows' = [j \in Ids |-> IF j \in {i} THEN BlankRow ELSE rows[j]]
    BY <1>2 DEF Prune, IndInv, TypeOK
  <2>2. {i} \in SUBSET Ids
    OBVIOUS
  <2> QED BY <1>2, <2>1, <2>2, Forgotten DEF Prune, window, history
<1> QED BY <1>1, <1>2 DEF FlushQueue, ClearLog

LEMMA TimeSeen ==
    ASSUME IndInv, Time
    PROVE  PromiseStep
<1>1. ASSUME NEW i \in Ids, BecomesDue(i) \/ Lapses(i) \/ GrowsOld(i) PROVE PromiseStep
  <2>1. rows \in [Ids -> Row]
    BY DEF IndInv, TypeOK
  <2>2. PICK q : /\ rows' = [rows EXCEPT ![i] = q]
                 /\ q.status = rows[i].status
                 /\ Evolves(rows[i], q, accepted)
    <3>1. CASE BecomesDue(i)
      BY <2>1, <3>1, InvRows, ClockEvolves, ZenonT(60) DEF BecomesDue, Row, Ages
    <3>2. CASE Lapses(i)
      BY <2>1, <3>2, InvRows, ClockEvolves DEF Lapses, Row, Ages
    <3>3. CASE GrowsOld(i)
      BY <2>1, <3>3, InvRows, ClockEvolves DEF GrowsOld, Row, Ages
    <3> QED BY <1>1, <3>1, <3>2, <3>3
  <2>3. \A j \in Ids : rows'[j] = IF j = i THEN q ELSE rows[j]
    BY <2>1, <2>2
  <2>4. \A j \in Ids : /\ Evolves(rows[j], rows'[j], accepted)
                       /\ rows'[j].status = rows[j].status
    BY <2>2, <2>3, InvRows, SameEvolves
  <2>5. archives' = archives /\ accepted' = accepted
    BY <1>1 DEF BecomesDue, Lapses, GrowsOld, window, history
  <2> QED BY <2>4, <2>5, GivenUp
<1>2. ASSUME NEW p \in Paths, GapElapses(p) \/ CooldownEnds(p) PROVE PromiseStep
  BY <1>2, NotSeen DEF GapElapses, CooldownEnds, window, history
<1> QED BY <1>1, <1>2 DEF Time

LEMMA SavedSeen ==
    ASSUME TakeBackup
    PROVE  PromiseStep
<1> DEFINE copy == [rows |-> rows, nextId |-> nextId, cooldown |-> cooldown, gap |-> gap]
           queue == [phase |-> Phases(rows), message |-> Texts(rows)]
<1>1. archives' = archives \cup {copy} /\ UNCHANGED <<rows, accepted>>
  BY DEF TakeBackup, db, history
<1>2. copy.rows = rows
  OBVIOUS
<1> HIDE DEF copy
<1>3. Saved' = Saved \cup {queue}
  BY <1>1, <1>2 DEF Saved
<1>4. Promise!Save
  BY <1>1, <1>3, QueueParts, SavedParts, SMTT(60) DEF Promise!Save, Saved
<1> QED BY <1>4 DEF PromiseStep, Promise!Next

LEMMA SwapSeen ==
    ASSUME SwapDatabase
    PROVE  PromiseStep
<1>1. PICK table \in archives : rows' = table.rows
  BY DEF SwapDatabase
<1>2. archives' = archives /\ accepted' = accepted
  BY DEF SwapDatabase
<1>3. QueueOf(table.rows) \in {QueueOf(t.rows) : t \in archives}
  OBVIOUS
<1>4. /\ QueueOf(rows').phase = QueueOf(table.rows).phase
      /\ QueueOf(rows').message = QueueOf(table.rows).message
  BY <1>1
<1>5. Promise!Rewind
  BY <1>2, <1>3, <1>4 DEF Promise!Rewind
<1> QED BY <1>5 DEF PromiseStep, Promise!Next

LEMMA RestoreSeen ==
    ASSUME Restore
    PROVE  PromiseStep
<1>1. CASE BeginMaintenance \/ AbortRestore
  BY <1>1, NotSeen DEF BeginMaintenance, AbortRestore, db, history
<1> QED BY <1>1, SavedSeen, SwapSeen DEF Restore

LEMMA PromiseInit == Init => Promise!Init
<1> SUFFICES ASSUME Init PROVE Promise!Init
  OBVIOUS
<1>1. /\ Phases(rows) = [i \in Ids |-> "none"]
      /\ Texts(rows) = [i \in Ids |-> NoMsg]
      /\ Saved = {} /\ accepted = {}
  BY BlankRowFacts DEF Init, Phases, Texts, Saved, PhaseOf, IsOpen
<1> QED BY <1>1, QueueParts, SavedParts DEF Promise!Init

LEMMA PromiseNext == IndInv /\ [Next]_vars => PromiseStep
<1> SUFFICES ASSUME IndInv, [Next]_vars PROVE PromiseStep
  OBVIOUS
<1>1. ASSUME NEW m \in Msgs, NEW immediate \in BOOLEAN, Enqueue(m, immediate)
      PROVE  PromiseStep
  BY <1>1, Submitted
<1>2. ASSUME NEW w \in Workers, WorkerStep(w) \/ Crash(w) PROVE PromiseStep
  BY <1>2, WorkerSeen
<1>3. CASE FlushQueue \/ ClearLog \/ \E i \in Ids : Prune(i)
  BY <1>3, EditSeen
<1>4. CASE Time
  BY <1>4, TimeSeen
<1>5. CASE Restore
  BY <1>5, RestoreSeen
<1>6. CASE UNCHANGED vars
  BY <1>6, NotSeen DEF vars, db, window, history
<1> QED BY <1>1, <1>2, <1>3, <1>4, <1>5, <1>6 DEF Next

(* The queue keeps its promise: a message waits until the provider took it *)
(* or the queue gives it up, it is shown as sent only after the provider   *)
(* took that very message, a final state is final, and a restore brings    *)
(* back as a whole a queue that was saved; whatever claims, lapses, late   *)
(* outcomes, crashes and maintenance windows come in between.              *)
THEOREM PromiseIsKept == Spec => KeepsPromise
<1>1. IndInv /\ [Next]_vars => [Promise!Next]_(Promise!vars)
  BY PromiseNext DEF PromiseStep
<1> QED BY <1>1, PromiseInit, AlwaysIndInv, PTL DEF Spec, KeepsPromise, Promise!Spec

-----------------------------------------------------------------------------
(* The budget of a row                                                     *)

(* The workers that hold an item of row i, whether the row is theirs or    *)
(* was claimed by another since.                                           *)
Holders(i) == {w \in Workers : \E it \in ItemsOf(w) : it.id = i}

(* The sends a row may have cost, those under way included: a claim is     *)
(* entitled to one more than the attempts in the books.                    *)
Budget(r) ==
    IF r.status = "pending" THEN r.attempts
    ELSE IF r.status = "processing" THEN r.attempts + 1
    ELSE MaxRetries + 1

(* A worker has a row once in its batch.                                   *)
Distinct(w) ==
    /\ pc[w] = "idle" => todo[w] = {}
    /\ cur[w] \notin todo[w]
    /\ \A a, b \in ItemsOf(w) : a.id = b.id => a = b

WithinBudget(i) ==
    /\ IsFiniteSet(Holders(i))
    /\ burnt[i] + Cardinality(Holders(i)) <= Budget(rows[i])

BudgetInv ==
    /\ \A w \in Workers : Distinct(w)
    /\ gen = 0 =>
         \A i \in Ids : WithinBudget(i) /\ (i >= nextId => burnt[i] = 0)

-----------------------------------------------------------------------------
(* One worker                                                              *)

(* Worker w is sending row i or has sent it and not said so yet.           *)
Delivering(w, i) ==
    /\ cur[w].id = i
    /\ pc[w] = "sending" \/ (pc[w] = "finalize" /\ result[w] = "sent")

(* A row no send of which is unaccounted for: it is the worker's while it  *)
(* is being delivered, and delivered once it is final or about to be.      *)
DeliveredOnce(i) ==
    /\ gen = 0
    /\ delivered[i] <= 1
    /\ i >= nextId => delivered[i] = 0
    /\ delivered[i] = 1 =>
         \/ rows[i].status \in {"sent", "none"}
         \/ \E w \in Workers : Delivering(w, i) /\ pc[w] = "finalize"
    /\ \A w \in Workers : Delivering(w, i) =>
         /\ rows[i].status = "processing" /\ rows[i].holder = w
         /\ pc[w] = "sending" => delivered[i] = 0

OnceInv == \A i \in Ids \ unconfirmed : DeliveredOnce(i)

(* One process works on the database.                                      *)
OneWorker == \A v, w \in Workers : v = w

(* Nothing is delivered, and the worker's row stays with it.               *)
LEMMA OnceStays ==
    ASSUME NEW i \in Ids, DeliveredOnce(i), gen' = gen,
           delivered'[i] = delivered[i], i >= nextId' => i >= nextId,
           delivered[i] = 1 /\ rows[i].status \in {"sent", "none"} =>
              rows'[i].status \in {"sent", "none"},
           \A w \in Workers : Delivering(w, i)' =>
              /\ Delivering(w, i) /\ pc'[w] = pc[w]
              /\ rows'[i].status = "processing" /\ rows'[i].holder = w,
           \A w \in Workers : Delivering(w, i) /\ pc[w] = "finalize" =>
              Delivering(w, i)' /\ pc'[w] = "finalize"
    PROVE  DeliveredOnce(i)'
BY DEF DeliveredOnce

(* A step that neither sends nor moves a worker that is sending.           *)
LEMMA OnceBeside ==
    ASSUME NEW i \in Ids, DeliveredOnce(i), gen' = gen,
           delivered' = delivered, i >= nextId' => i >= nextId,
           delivered[i] = 1 /\ rows[i].status \in {"sent", "none"} =>
              rows'[i].status \in {"sent", "none"},
           \A w \in Workers : Delivering(w, i) =>
              rows'[i].status = rows[i].status /\ rows'[i].holder = rows[i].holder,
           \A w \in Workers :
              \/ UNCHANGED <<pc[w], cur[w], result[w]>>
              \/ /\ pc[w] \notin {"sending", "finalize"}
                 /\ pc'[w] \notin {"sending", "finalize"}
              \/ ~Delivering(w, i) /\ ~Delivering(w, i)'
    PROVE  DeliveredOnce(i)'
<1>1. \A w \in Workers : Delivering(w, i)' => Delivering(w, i) /\ pc'[w] = pc[w]
  BY DEF Delivering
<1>2. \A w \in Workers : Delivering(w, i) /\ pc[w] = "finalize" =>
         Delivering(w, i)' /\ pc'[w] = "finalize"
  BY DEF Delivering
<1>3. \A w \in Workers : Delivering(w, i) =>
         rows[i].status = "processing" /\ rows[i].holder = w
  BY DEF DeliveredOnce
<1> QED BY <1>1, <1>2, <1>3, OnceStays

LEMMA OnceTable ==
    ASSUME IndInv, NEW i \in Ids, DeliveredOnce(i), i \notin unconfirmed',
           \/ \E m \in Msgs, immediate \in BOOLEAN : Enqueue(m, immediate)
           \/ FlushQueue \/ ClearLog \/ \E j \in Ids : Prune(j)
           \/ Time
    PROVE  DeliveredOnce(i)'
<1> USE DEF db, workers, window, history
<1>1. /\ rows \in [Ids -> Row] /\ nextId \in Nat /\ rows[i] \in Row
      /\ \A j \in Ids : j >= nextId => rows[j].status = "none"
      /\ \A w \in Workers : Delivering(w, i) => rows[i].status = "processing"
  <2>1. rows \in [Ids -> Row] /\ nextId \in Nat
    BY DEF IndInv, TypeOK
  <2>2. \A j \in Ids : j >= nextId => rows[j].status = "none"
    BY DEF IndInv, TableConsistent
  <2> QED BY <2>1, <2>2 DEF DeliveredOnce
<1>2. ASSUME NEW m \in Msgs, NEW immediate \in BOOLEAN, Enqueue(m, immediate)
      PROVE  DeliveredOnce(i)'
  <2>1. /\ i # nextId => rows'[i] = rows[i]
        /\ i = nextId => delivered[i] = 0 /\ rows[i].status = "none"
        /\ nextId' = nextId + 1
        /\ UNCHANGED <<workers, window, history>>
    BY <1>1, <1>2 DEF Enqueue, DeliveredOnce
  <2>2. i >= nextId' => i >= nextId
    BY <1>1, <2>1
  <2>3. delivered[i] = 1 => i # nextId
    BY <2>1
  <2>4. \A w \in Workers : Delivering(w, i) => i # nextId
    BY <1>1, <2>1
  <2> QED BY <2>1, <2>2, <2>3, <2>4, OnceBeside
<1>3. CASE FlushQueue \/ ClearLog \/ \E j \in Ids : Prune(j)
  <2>1. /\ rows'[i] = rows[i] \/ (rows'[i] = BlankRow /\ rows[i].status # "processing")
        /\ UNCHANGED <<nextId, workers, window, history>>
    BY <1>1, <1>3 DEF FlushQueue, ClearLog, Edit, Delete, Prune, IsFinal
  <2> QED BY <1>1, <2>1, OnceBeside, BlankRowFacts
<1>4. ASSUME NEW j \in Ids, BecomesDue(j) \/ Lapses(j) \/ GrowsOld(j)
      PROVE  DeliveredOnce(i)'
  <2>1. /\ rows'[i].status = rows[i].status /\ rows'[i].holder = rows[i].holder
        /\ UNCHANGED <<nextId, workers, window, delivered>>
    BY <1>1, <1>4, SMTT(60) DEF BecomesDue, Lapses, GrowsOld, Row
  <2> QED BY <2>1, OnceBeside
<1>5. ASSUME NEW p \in Paths, GapElapses(p) \/ CooldownEnds(p)
      PROVE  DeliveredOnce(i)'
  <2>1. /\ UNCHANGED <<rows, nextId, cur, result, window, delivered>>
        /\ \A w \in Workers : \/ pc'[w] = pc[w]
                              \/ pc[w] = "pacing" /\ pc'[w] = "reserved"
    BY <1>5 DEF GapElapses, CooldownEnds
  <2> QED BY <2>1, OnceBeside
<1> QED BY <1>2, <1>3, <1>4, <1>5 DEF Time

(* The steps of a worker up to the send.                                   *)
LEMMA OncePrepares ==
    ASSUME OneWorker, IndInv, NEW i \in Ids, DeliveredOnce(i), NEW w \in Workers,
           \/ Claim(w) \/ EndRun(w) \/ TakeItem(w) \/ ReadPacing(w)
           \/ PacingRefused(w) \/ LeaseRefused(w) \/ SetCooldown(w)
    PROVE  DeliveredOnce(i)'
<1> USE DEF db, workers, window, history
<1>1. /\ pc \in [Workers -> PCs] /\ result \in [Workers -> Outcomes \cup {"none"}]
      /\ cur \in [Workers -> Item \cup {NoItem}]
  BY DEF IndInv, TypeOK
<1>2. CASE Claim(w)
  <2>1. PICK S \in SUBSET Candidates(SettledRows) :
           rows' = AfterClaim(SettledRows, S, w)
    BY <1>2 DEF Claim, SettledRows
  <2>2. Evolves(rows[i], rows'[i], accepted)
    BY <2>1, AfterClaimFacts
  <2>3. \A v \in Workers : v = w /\ pc[v] = "idle" /\ pc'[v] = "batch"
    BY <1>1, <1>2 DEF Claim, OneWorker
  <2>4. \A v \in Workers : ~Delivering(v, i)
    BY <2>3 DEF Delivering
  <2>5. UNCHANGED <<nextId, gen, delivered>>
    BY <1>2 DEF Claim
  <2> QED BY <2>2, <2>3, <2>4, <2>5, OnceBeside DEF Evolves, IsFinal
<1>3. CASE TakeItem(w)
  <2>1. /\ pc[w] = "batch"
        /\ \/ pc'[w] = "reserve"
           \/ pc'[w] = "finalize" /\ result'[w] = "deferred"
        /\ \A v \in Workers : v # w => UNCHANGED <<pc[v], cur[v], result[v]>>
        /\ UNCHANGED <<rows, nextId, gen, delivered>>
    BY <1>1, <1>3 DEF TakeItem
  <2>2. ~Delivering(w, i) /\ ~Delivering(w, i)'
    BY <2>1 DEF Delivering
  <2> QED BY <2>1, <2>2, OnceBeside
<1>4. CASE PacingRefused(w) \/ LeaseRefused(w)
  <2>1. /\ pc[w] \in {"reserve", "reserved"}
        /\ pc'[w] = "finalize" /\ result'[w] = "deferred"
        /\ \A v \in Workers : v # w => UNCHANGED <<pc[v], cur[v], result[v]>>
        /\ UNCHANGED <<rows, nextId, gen, delivered>>
    BY <1>1, <1>4 DEF PacingRefused, LeaseRefused, Defer
  <2>2. ~Delivering(w, i) /\ ~Delivering(w, i)'
    BY <2>1 DEF Delivering
  <2> QED BY <2>1, <2>2, OnceBeside
<1>5. CASE SetCooldown(w)
  <2>1. /\ pc[w] = "finalize" /\ pc'[w] = "mark" /\ result[w] = "rate_limited"
        /\ \A v \in Workers : v # w => UNCHANGED <<pc[v], cur[v], result[v]>>
        /\ UNCHANGED <<rows, nextId, gen, delivered, result>>
    BY <1>1, <1>5 DEF SetCooldown
  <2>2. ~Delivering(w, i) /\ ~Delivering(w, i)'
    BY <2>1 DEF Delivering
  <2> QED BY <2>1, <2>2, OnceBeside
<1>6. CASE EndRun(w) \/ ReadPacing(w)
  <2>1. /\ pc[w] \notin {"sending", "finalize"} /\ pc'[w] \notin {"sending", "finalize"}
        /\ \A v \in Workers : v # w => pc'[v] = pc[v]
        /\ UNCHANGED <<rows, nextId, gen, delivered, cur, result>>
    BY <1>1, <1>6 DEF EndRun, ReadPacing
  <2> QED BY <2>1, OnceBeside
<1> QED BY <1>2, <1>3, <1>4, <1>5, <1>6

(* A renewed claim is the worker's, and nothing of the row went out yet:   *)
(* otherwise it would be final or the worker about to make it so.          *)
LEMMA OnceRenews ==
    ASSUME OneWorker, IndInv, NEW i \in Ids, DeliveredOnce(i), NEW w \in Workers,
           delivered[i] \in 0..2, RenewLease(w)
    PROVE  DeliveredOnce(i)'
<1> USE DEF db, workers, window, history
<1> DEFINE k == cur[w].id
           held == rows[k].status = "processing" /\ rows[k].holder = w
<1>1. /\ pc \in [Workers -> PCs] /\ result \in [Workers -> Outcomes \cup {"none"}]
      /\ cur \in [Workers -> Item \cup {NoItem}] /\ rows \in [Ids -> Row]
      /\ pc[w] = "reserved" /\ \A v \in Workers : v = w
      /\ UNCHANGED <<nextId, gen, delivered>>
  BY DEF IndInv, TypeOK, RenewLease, OneWorker
<1>2. ~Delivering(w, i)
  BY <1>1 DEF Delivering
<1>3. CASE held
  <2>1. /\ rows' = [rows EXCEPT ![k].lapsed = FALSE]
        /\ pc'[w] = "sending" /\ UNCHANGED cur
    BY <1>1, <1>3 DEF RenewLease
  <2>2. rows'[i].status = rows[i].status /\ rows'[i].holder = rows[i].holder
    BY <1>1, <2>1 DEF Row
  <2>3. CASE k # i
    <3>1. ~Delivering(w, i)'
      BY <2>1, <2>3 DEF Delivering
    <3> QED BY <1>1, <1>2, <2>2, <3>1, OnceBeside
  <2>4. CASE k = i
    <3>1. delivered[i] # 1
      BY <1>1, <1>2, <1>3, <2>4 DEF DeliveredOnce
    <3>2. delivered[i] = 0
      BY <3>1 DEF DeliveredOnce
    <3> QED BY <1>1, <1>3, <2>1, <2>2, <2>4, <3>2 DEF DeliveredOnce
  <2> QED BY <2>3, <2>4
<1>4. CASE ~held
  <2>1. /\ pc'[w] = "batch" /\ rows' = rows
    BY <1>1, <1>4 DEF RenewLease, ItemDone
  <2>2. ~Delivering(w, i)'
    BY <2>1 DEF Delivering
  <2> QED BY <1>1, <1>2, <2>1, <2>2, OnceBeside
<1> QED BY <1>3, <1>4

LEMMA OnceSends ==
    ASSUME OneWorker, IndInv, NEW i \in Ids, DeliveredOnce(i), NEW w \in Workers,
           i \notin unconfirmed', Send(w)
    PROVE  DeliveredOnce(i)'
<1> USE DEF db, workers, window, history
<1> DEFINE k == cur[w].id
<1>1. /\ pc \in [Workers -> PCs] /\ result \in [Workers -> Outcomes \cup {"none"}]
      /\ delivered \in [Ids -> 0..2]
      /\ pc[w] = "sending" /\ pc'[w] = "finalize" /\ \A v \in Workers : v = w
      /\ UNCHANGED <<rows, nextId, cur, gen>>
  BY DEF IndInv, TypeOK, Send, OneWorker
<1>2. PICK outcome :
         /\ \/ /\ outcome \in {"sent", "uncertain"}
               /\ delivered' = [delivered EXCEPT ![k] = Capped(@, 2)]
            \/ outcome # "sent" /\ UNCHANGED delivered
         /\ result' = [result EXCEPT ![w] = outcome]
         /\ unconfirmed' = IF outcome = "uncertain"
                           THEN unconfirmed \cup {k} ELSE unconfirmed
  BY DEF Send
<1>3. result'[w] = outcome
  BY <1>1, <1>2
<1>4. CASE k # i
  <2>1. ~Delivering(w, i) /\ ~Delivering(w, i)'
    BY <1>1, <1>4 DEF Delivering
  <2>2. delivered'[i] = delivered[i]
    BY <1>1, <1>2, <1>4
  <2>3. \A v \in Workers : ~Delivering(v, i) /\ ~Delivering(v, i)'
    BY <1>1, <2>1
  <2> QED BY <1>1, <2>2, <2>3, OnceStays
<1>5. CASE k = i
  <2>1. /\ Delivering(w, i)
        /\ rows[i].status = "processing" /\ rows[i].holder = w /\ delivered[i] = 0
        /\ gen = 0
    BY <1>1, <1>5 DEF Delivering, DeliveredOnce
  <2>2. i < nextId
    <3>1. WorkerConsistent(w) /\ wgen \in [Workers -> 0..MaxRestores]
      BY WorkersParts, IndInvParts DEF TypeOK
    <3>2. wgen[w] = gen /\ cur[w] \in ItemsOf(w)
      BY <1>1, <2>1, <3>1 DEF WorkerConsistent, ItemsOf, Busy, PCs
    <3> QED BY <1>5, <3>1, <3>2 DEF WorkerConsistent
  <2>3. outcome # "uncertain"
    BY <1>2, <1>5
  <2>4. CASE outcome = "sent"
    <3>1. delivered'[i] = 1
      BY <1>1, <1>2, <1>5, <2>1, <2>4 DEF Capped
    <3>2. Delivering(w, i)'
      BY <1>1, <1>3, <1>5, <2>4 DEF Delivering
    <3>3. nextId \in Nat
      BY DEF IndInv, TypeOK
    <3> QED BY <1>1, <2>1, <2>2, <3>1, <3>2, <3>3 DEF DeliveredOnce
  <2>5. CASE outcome # "sent"
    <3>1. delivered'[i] = 0 /\ ~Delivering(w, i)'
      BY <1>1, <1>2, <1>3, <2>1, <2>3, <2>5 DEF Delivering
    <3> QED BY <1>1, <2>1, <3>1 DEF DeliveredOnce
  <2> QED BY <2>4, <2>5
<1> QED BY <1>4, <1>5

(* The outcome of a send is in the books or counts as unconfirmed.         *)
LEMMA OnceSettles ==
    ASSUME OneWorker, IndInv, NEW i \in Ids, DeliveredOnce(i), NEW w \in Workers,
           i \notin unconfirmed', MarkResult(w) \/ DropResult(w) \/ Crash(w)
    PROVE  DeliveredOnce(i)'
<1> USE DEF db, workers, window, history
<1> DEFINE k == cur[w].id
<1>1. /\ pc \in [Workers -> PCs] /\ result \in [Workers -> Outcomes \cup {"none"}]
      /\ cur \in [Workers -> Item \cup {NoItem}] /\ rows \in [Ids -> Row]
      /\ rows[i] \in Row
      /\ \A v \in Workers : v = w
  BY DEF IndInv, TypeOK, OneWorker
<1>2. pc'[w] \in {"idle", "batch"} /\ UNCHANGED <<nextId, gen>>
  BY <1>1 DEF MarkResult, DropResult, Crash, ItemDone
<1>3. ~Delivering(w, i)'
  BY <1>2 DEF Delivering
<1>4. CASE MarkResult(w)
  <2>1. /\ rows' = [rows EXCEPT ![k] = Applied(@, cur[w].msg, result[w])]
        /\ pc[w] \in {"finalize", "mark"} /\ UNCHANGED delivered
        /\ result[w] = "sent" => pc[w] = "finalize"
    BY <1>4 DEF MarkResult
  <2>2. CASE delivered[i] = 1
    <3>1. rows[i].status \in {"sent", "none"} =>
            rows'[i].status = rows[i].status
      BY <1>1, <2>1 DEF Applied, IsOpen
    <3>2. Delivering(w, i) => rows'[i].status = "sent"
      <4>1. Delivering(w, i) =>
              /\ k = i /\ result[w] = "sent" /\ rows[i].status = "processing"
        BY <2>1 DEF Delivering, DeliveredOnce
      <4> QED BY <1>1, <2>1, <4>1 DEF Applied, IsOpen, Finish, Row
    <3> QED BY <1>1, <1>2, <1>3, <2>1, <2>2, <3>1, <3>2 DEF DeliveredOnce
  <2>3. CASE delivered[i] # 1
    BY <1>1, <1>2, <1>3, <2>1, <2>3 DEF DeliveredOnce
  <2> QED BY <2>2, <2>3
<1>5. CASE DropResult(w) \/ Crash(w)
  <2>1. rows' = rows /\ ~Delivering(w, i)
    <3>1. CASE DropResult(w)
      BY <3>1 DEF DropResult, Delivering
    <3>2. CASE Crash(w)
      BY <3>2 DEF Crash, Delivering
    <3> QED BY <1>5, <3>1, <3>2
  <2>2. delivered'[i] = delivered[i]
    <3>1. CASE DropResult(w)
      BY <3>1 DEF DropResult
    <3>2. CASE Crash(w) /\ pc[w] = "sending"
      <4>1. k # i
        BY <2>1, <3>2 DEF Delivering
      <4>2. delivered \in [Ids -> 0..2]
        BY DEF IndInv, TypeOK
      <4> QED BY <3>2, <4>1, <4>2 DEF Crash
    <3>3. CASE Crash(w) /\ pc[w] # "sending"
      BY <3>3 DEF Crash
    <3> QED BY <1>5, <3>1, <3>2, <3>3
  <2>3. \A v \in Workers : ~Delivering(v, i) /\ ~Delivering(v, i)'
    BY <1>1, <1>3, <2>1
  <2> QED BY <1>2, <2>1, <2>2, <2>3, OnceStays
<1> QED BY <1>4, <1>5

LEMMA OnceStep ==
    ASSUME OneWorker, IndInv, OnceInv, [Next]_vars
    PROVE  OnceInv'
<1> SUFFICES ASSUME NEW i \in Ids, i \notin unconfirmed'
             PROVE  DeliveredOnce(i)'
  BY DEF OnceInv
<1>1. unconfirmed \subseteq unconfirmed'
  <2> USE DEF history
  <2>1. unconfirmed \subseteq Ids
    BY DEF IndInv, TypeOK
  <2>2. ASSUME NEW w \in Workers, WorkerStep(w) \/ Crash(w)
        PROVE  unconfirmed \subseteq unconfirmed'
    BY <2>2 DEF WorkerStep, Claim, EndRun, TakeItem, ReadPacing, PacingRefused,
       RenewLease, LeaseRefused, Defer, Send, SetCooldown, MarkResult, DropResult, Crash
  <2>3. CASE Time
    BY <2>3 DEF Time, BecomesDue, Lapses, GrowsOld, GapElapses, CooldownEnds
  <2>4. CASE Restore
    BY <2>1, <2>4 DEF Restore, TakeBackup, BeginMaintenance, AbortRestore, SwapDatabase
  <2>5. CASE UNCHANGED vars
    BY <2>5 DEF vars
  <2> QED BY <2>2, <2>3, <2>4, <2>5
          DEF Next, Enqueue, FlushQueue, ClearLog, Edit, Prune
<1>2. DeliveredOnce(i) /\ delivered[i] \in 0..2
  BY <1>1 DEF OnceInv, IndInv, TypeOK
<1>3. ASSUME NEW w \in Workers, WorkerStep(w) \/ Crash(w)
      PROVE  DeliveredOnce(i)'
  BY <1>2, <1>3, OncePrepares, OnceRenews, OnceSends, OnceSettles DEF WorkerStep
<1>4. CASE Restore
  <2>1. ~SwapDatabase
    BY DEF SwapDatabase
  <2>2. UNCHANGED <<rows, nextId, pc, cur, result, gen, delivered>>
    BY <1>4, <2>1 DEF Restore, TakeBackup, BeginMaintenance, AbortRestore,
       db, workers, history
  <2> QED BY <1>2, <2>2, OnceBeside
<1>5. CASE UNCHANGED vars
  BY <1>2, <1>5, OnceBeside DEF vars, db, workers, window, history
<1> QED BY <1>2, <1>3, <1>4, <1>5, OnceTable DEF Next

(* With one process on the database a message goes out twice only after a  *)
(* crash, a broken connection or a dropped result: deferrals, cooldowns,   *)
(* recoveries, edits of the queue and retries never repeat a send.         *)
THEOREM SentOnce ==
    ASSUME OneWorker
    PROVE  Spec => []DuplicateOnlyIfUnconfirmed
<1>1. Init => OnceInv
  <2> SUFFICES ASSUME Init, NEW i \in Ids PROVE DeliveredOnce(i)
    BY DEF OnceInv
  <2>1. /\ gen = 0 /\ delivered[i] = 0
        /\ \A w \in Workers : ~Delivering(w, i)
    BY DEF Init, Delivering
  <2> QED BY <2>1 DEF DeliveredOnce
<1>2. IndInv /\ OnceInv /\ [Next]_vars => OnceInv'
  BY OnceStep
<1>3. IndInv /\ OnceInv => DuplicateOnlyIfUnconfirmed
  <2> SUFFICES ASSUME IndInv, OnceInv, NEW i \in Ids, delivered[i] > 1,
                      i \notin unconfirmed
               PROVE  FALSE
    BY DEF DuplicateOnlyIfUnconfirmed
  <2>1. delivered[i] \in 0..2 /\ delivered[i] <= 1
    BY DEF OnceInv, DeliveredOnce, IndInv, TypeOK
  <2> QED BY <2>1
<1> QED BY <1>1, <1>2, <1>3, AlwaysIndInv, PTL DEF Spec

-----------------------------------------------------------------------------
(* The budget: what a step does to the sends of a row                      *)

(* Sends lost and under way stay within the budget when a holder leaves    *)
(* and the budget gives up at most what that holder stood for, or when a   *)
(* new holder comes with an attempt of its own.                            *)
LEMMA Shares ==
    ASSUME NEW H, NEW G, NEW w, IsFiniteSet(H),
           NEW b \in Nat, NEW c \in Nat, NEW B \in Int, NEW C \in Int,
           b + Cardinality(H) <= B,
           \/ G \subseteq H /\ c = b /\ B <= C
           \/ w \in H /\ G \subseteq H \ {w} /\ c <= b + 1 /\ B <= C
           \/ w \in H /\ G \subseteq H \ {w} /\ c = b /\ B <= C + 1
           \/ G \subseteq H \cup {w} /\ c = b /\ B + 1 <= C
    PROVE  IsFiniteSet(G) /\ c + Cardinality(G) <= C
<1>1. Cardinality(H) \in Nat
  BY FS_CardinalityType
<1>2. CASE G \subseteq H /\ c = b /\ B <= C
  <2>1. IsFiniteSet(G) /\ Cardinality(G) <= Cardinality(H) /\ Cardinality(G) \in Nat
    BY <1>2, FS_Subset, FS_CardinalityType
  <2> QED BY <1>1, <1>2, <2>1
<1>3. CASE w \in H /\ G \subseteq H \ {w} /\ c <= b + 1 /\ B <= C + 1 - (c - b)
  <2>1. IsFiniteSet(H \ {w}) /\ Cardinality(H \ {w}) = Cardinality(H) - 1
    BY <1>3, FS_RemoveElement
  <2>2. G \subseteq H \ {w}
    BY <1>3
  <2>3. IsFiniteSet(G) /\ Cardinality(G) <= Cardinality(H \ {w})
    BY <2>1, <2>2, FS_Subset
  <2>4. Cardinality(G) \in Nat
    BY <2>3, FS_CardinalityType
  <2> QED BY <1>1, <1>3, <2>1, <2>3, <2>4
<1>4. CASE G \subseteq H \cup {w} /\ c = b /\ B + 1 <= C
  <2>1. /\ IsFiniteSet(H \cup {w})
        /\ Cardinality(H \cup {w}) = IF w \in H THEN Cardinality(H) ELSE Cardinality(H) + 1
    BY FS_AddElement
  <2>2. G \subseteq H \cup {w}
    BY <1>4
  <2>3. IsFiniteSet(G) /\ Cardinality(G) <= Cardinality(H \cup {w})
    BY <2>1, <2>2, FS_Subset
  <2>4. Cardinality(G) \in Nat
    BY <2>3, FS_CardinalityType
  <2> QED BY <1>1, <1>4, <2>1, <2>3, <2>4
<1> QED BY <1>2, <1>3, <1>4

LEMMA BudgetInt ==
    ASSUME NEW r \in Row
    PROVE  Budget(r) \in Nat
BY DEF Budget, Row

(* No change of a row takes budget away but a return to pending, which     *)
(* costs the entitlement of the claim it ends; a counted one costs nothing.*)
LEMMA SettledBudget ==
    ASSUME NEW r \in Row, Within(r)
    PROVE  Budget(r) <= Budget(Settled(r))
BY DEF Settled, Budget, Finish, Within, IsOpen, Row

LEMMA ClaimedBudget ==
    ASSUME NEW r \in Row, r.status = "pending", NEW w \in Workers
    PROVE  Budget(Claimed(r, w)) = Budget(r) + 1
BY DEF Claimed, Budget, Row

LEMMA RecoveredBudget ==
    ASSUME NEW r \in Row, Within(r), r.status = "processing", NEW w \in Workers
    PROVE  /\ Budget(r) <= Budget(Recovered(r, w))
           /\ Recovered(r, w).status = "processing" =>
                Budget(Recovered(r, w)) = Budget(r) + 1
<1> DEFINE c == Spend(r, 1)
<1>1. /\ c \in Row /\ c.status = "processing" /\ c.attempts = r.attempts + 1
      /\ r.attempts <= MaxRetries
  BY SpendRow DEF IsOpen, Within
<1>2. CASE c.attempts > MaxRetries
  <2>1. Recovered(r, w) = Finish(c, "failed")
    BY <1>2 DEF Recovered
  <2>2. Finish(c, "failed").status = "failed"
    BY <1>1 DEF Finish, Row
  <2> QED BY <1>1, <2>1, <2>2 DEF Budget, Row
<1>3. CASE ~(c.attempts > MaxRetries)
  <2>1. Recovered(r, w) = Claimed(c, w)
    BY <1>3 DEF Recovered
  <2>2. Claimed(c, w).status = "processing" /\ Claimed(c, w).attempts = c.attempts
    BY <1>1 DEF Claimed, Row
  <2> QED BY <1>1, <2>1, <2>2 DEF Budget, Row
<1> QED BY <1>2, <1>3

LEMMA RetriedBudget ==
    ASSUME NEW r \in Row, IsOpen(r), Within(r), NEW t \in BOOLEAN
    PROVE  r.attempts + (IF t THEN 0 ELSE 1) <= Budget(Retried(r, t))
<1> DEFINE n == IF t THEN 0 ELSE 1
           c == Spend(r, n)
<1>1. /\ c \in Row /\ c.attempts = r.attempts + n /\ n \in {0, 1}
      /\ r.attempts \in Nat /\ r.attempts <= MaxRetries
  BY SpendRow DEF Within, Row
<1>2. CASE c.attempts > MaxRetries \/ r.age = "expired"
  <2>1. Retried(r, t) = Finish(c, "failed")
    BY <1>2 DEF Retried
  <2>2. Finish(c, "failed").status = "failed"
    BY <1>1 DEF Finish, Row
  <2>3. Budget(Retried(r, t)) = MaxRetries + 1
    BY <2>1, <2>2 DEF Budget
  <2> QED BY <1>1, <2>3
<1>3. CASE ~(c.attempts > MaxRetries \/ r.age = "expired")
  <2> DEFINE d == [c EXCEPT !.due = FALSE]
  <2>1. Retried(r, t) = GiveBack(d)
    BY <1>3 DEF Retried
  <2>2. GiveBack(d).status = "pending" /\ GiveBack(d).attempts = c.attempts
    BY <1>1 DEF GiveBack, Row
  <2>3. Budget(Retried(r, t)) = c.attempts
    BY <2>1, <2>2 DEF Budget
  <2> QED BY <1>1, <2>3
<1> QED BY <1>2, <1>3

LEMMA AppliedBudget ==
    ASSUME NEW r \in Row, Within(r), NEW m, NEW outcome
    PROVE  /\ Budget(r) <= Budget(Applied(r, m, outcome)) + 1
           /\ outcome = "limited" => Budget(r) <= Budget(Applied(r, m, outcome))
<1>1. /\ Budget(r) \in Nat /\ r.attempts \in Nat
      /\ IsOpen(r) => Budget(r) <= r.attempts + 1 /\ r.attempts <= MaxRetries
      /\ Budget(r) <= MaxRetries + 1
  BY BudgetInt DEF Budget, IsOpen, Within, Row
<1>2. CASE Applied(r, m, outcome) = r
  BY <1>1, <1>2
<1>3. ASSUME NEW s \in {"sent", "failed"}, Applied(r, m, outcome) = Finish(r, s)
      PROVE  Budget(Applied(r, m, outcome)) = MaxRetries + 1
  BY <1>3 DEF Budget, Finish, Row
<1>4. CASE IsOpen(r) /\ outcome = "deferred" /\ Applied(r, m, outcome) = GiveBack(r)
  <2>1. Budget(GiveBack(r)) = r.attempts
    BY DEF Budget, GiveBack, Row
  <2> QED BY <1>1, <1>4, <2>1
<1>5. CASE IsOpen(r) /\ Applied(r, m, outcome) = Retried(r, outcome # "limited")
  <2>1. Budget(Retried(r, outcome # "limited")) \in Nat
    BY <1>5, RetriedEvolves, BudgetInt DEF Evolves
  <2>2. r.attempts + (IF outcome # "limited" THEN 0 ELSE 1)
           <= Budget(Retried(r, outcome # "limited"))
    BY <1>5, RetriedBudget
  <2> QED BY <1>1, <1>5, <2>1, <2>2
<1>6. CASE Applied(r, m, outcome) \in {Finish(r, "sent"), Finish(r, "failed")}
  BY <1>1, <1>3, <1>6
<1> QED BY <1>2, <1>4, <1>5, <1>6 DEF Applied, IsOpen

-----------------------------------------------------------------------------
(* The budget: the steps                                                   *)

LEMMA BudgetTypes ==
    ASSUME IndInv, NEW i \in Ids
    PROVE  /\ burnt[i] \in Nat /\ rows[i] \in Row /\ Within(rows[i])
           /\ Budget(rows[i]) \in Nat /\ nextId \in Nat
<1>1. rows[i] \in Row /\ Within(rows[i])
  BY InvRows
<1>2. burnt[i] \in Nat /\ nextId \in Nat
  BY DEF IndInv, TypeOK
<1> QED BY <1>1, <1>2, BudgetInt

LEMMA BudgetTypesNext ==
    ASSUME IndInv', NEW i \in Ids
    PROVE  /\ burnt'[i] \in Nat /\ rows'[i] \in Row
           /\ Budget(rows'[i]) \in Nat /\ nextId' \in Nat
<1>1. /\ rows' \in [Ids -> Row] /\ nextId' \in 1..(MaxRows + 1)
      /\ burnt' \in [Ids -> 0..(MaxRetries + 2)]
  BY DEF IndInv, TypeOK
<1>2. rows'[i] \in Row /\ burnt'[i] \in 0..(MaxRetries + 2)
  BY <1>1
<1> QED BY <1>1, <1>2, BudgetInt

LEMMA ItemFacts ==
    ASSUME IndInv, NEW w \in Workers
    PROVE  /\ todo[w] \subseteq Item /\ ItemsOf(w) \subseteq Item
           /\ cur[w] \in Item => ItemsOf(w) = todo[w] \cup {cur[w]}
           /\ cur[w] \notin Item => ItemsOf(w) = todo[w]
           /\ pc[w] \in Busy <=> cur[w] \in Item
           /\ NoItem \notin Item
BY DEF IndInv, TypeOK, ItemsOf, WorkersConsistent, NoItem, Item

(* The ids of items lie below the sequence of the table.                   *)
LEMMA NoHolders ==
    ASSUME IndInv, gen = 0, NEW i \in Ids, i >= nextId
    PROVE  Holders(i) = {}
<1> SUFFICES ASSUME NEW w \in Workers, NEW it \in ItemsOf(w), it.id = i
             PROVE  FALSE
  BY DEF Holders
<1>1. wgen[w] \in Nat /\ nextId \in Nat
  BY DEF IndInv, TypeOK
<1>2. wgen[w] = gen
  BY <1>1 DEF IndInv, WorkersConsistent
<1>3. it.id < nextId
  BY <1>2 DEF IndInv, WorkersConsistent
<1> QED BY <1>1, <1>3

LEMMA DistinctStays ==
    ASSUME NEW w \in Workers, Distinct(w), UNCHANGED <<todo[w], cur[w]>>,
           pc'[w] = "idle" => pc[w] = "idle"
    PROVE  Distinct(w)' /\ ItemsOf(w)' = ItemsOf(w)
BY DEF Distinct, ItemsOf

(* A row never inserted has cost nothing.                                  *)
LEMMA FreshWithinBudget ==
    ASSUME IndInv', NEW i \in Ids, burnt'[i] = 0, Holders(i)' = {}
    PROVE  WithinBudget(i)'
<1>1. Budget(rows'[i]) \in Nat
  BY BudgetTypesNext
<1> QED BY <1>1, FS_EmptySet DEF WithinBudget

(* No worker gets an item, no send is lost and no row loses budget.        *)
LEMMA BudgetStays ==
    ASSUME IndInv, IndInv', BudgetInv, gen' = gen, burnt' = burnt,
           \A w \in Workers : Distinct(w)' /\ ItemsOf(w)' \subseteq ItemsOf(w),
           \A i \in Ids : /\ i >= nextId' => i >= nextId
                          /\ i < nextId => Budget(rows[i]) <= Budget(rows'[i])
    PROVE  BudgetInv'
<1> SUFFICES ASSUME gen = 0, NEW i \in Ids
             PROVE  WithinBudget(i)' /\ (i >= nextId' => burnt'[i] = 0)
  BY DEF BudgetInv
<1>1. Holders(i)' \subseteq Holders(i)
  BY DEF Holders
<1>2. WithinBudget(i) /\ (i >= nextId => burnt[i] = 0)
  BY DEF BudgetInv
<1>3. CASE i >= nextId
  BY <1>1, <1>2, <1>3, NoHolders, FreshWithinBudget
<1>4. CASE ~(i >= nextId)
  <2>1. /\ burnt[i] \in Nat /\ nextId \in Nat
        /\ Budget(rows[i]) \in Int /\ Budget(rows'[i]) \in Int
    BY BudgetTypes, BudgetTypesNext
  <2>2. Budget(rows[i]) <= Budget(rows'[i])
    BY <1>4, <2>1
  <2>3. IsFiniteSet(Holders(i)')
        /\ burnt[i] + Cardinality(Holders(i)') <= Budget(rows'[i])
    <3> DEFINE H == Holders(i)  G == Holders(i)'
               b == burnt[i]  B == Budget(rows[i])  C == Budget(rows'[i])
    <3>1. /\ IsFiniteSet(H) /\ b + Cardinality(H) <= B /\ G \subseteq H
          /\ b \in Nat /\ B \in Int /\ C \in Int /\ B <= C
      BY <1>1, <1>2, <2>1, <2>2 DEF WithinBudget
    <3> HIDE DEF H, G, b, B, C
    <3>2. IsFiniteSet(G) /\ b + Cardinality(G) <= C
      BY <3>1, Shares
    <3> QED BY <3>2 DEF G, b, C
  <2> QED BY <1>2, <1>4, <2>3 DEF WithinBudget
<1> QED BY <1>3, <1>4

(* A worker is done with an item: its send is lost, or its claim's         *)
(* entitlement goes with it.                                               *)
LEMMA BudgetDone ==
    ASSUME IndInv, IndInv', BudgetInv, gen' = gen, nextId' = nextId,
           \A v \in Workers : Distinct(v)' /\ ItemsOf(v)' \subseteq ItemsOf(v),
           NEW w \in Workers, cur[w] \in Item, ItemsOf(w)' \subseteq todo[w],
           \A i \in Ids \ {cur[w].id} :
              burnt'[i] = burnt[i] /\ Budget(rows[i]) <= Budget(rows'[i]),
           \/ /\ burnt'[cur[w].id] <= burnt[cur[w].id] + 1
              /\ Budget(rows[cur[w].id]) <= Budget(rows'[cur[w].id])
           \/ /\ burnt'[cur[w].id] = burnt[cur[w].id]
              /\ Budget(rows[cur[w].id]) <= Budget(rows'[cur[w].id]) + 1
    PROVE  BudgetInv'
<1> SUFFICES ASSUME gen = 0, NEW i \in Ids
             PROVE  WithinBudget(i)' /\ (i >= nextId' => burnt'[i] = 0)
  BY DEF BudgetInv
<1> DEFINE H == Holders(i)  G == Holders(i)'
           b == burnt[i]  c == burnt'[i]
           B == Budget(rows[i])  C == Budget(rows'[i])
<1>1. /\ WithinBudget(i) /\ (i >= nextId => burnt[i] = 0) /\ Distinct(w)
      /\ G \subseteq H
  BY DEF BudgetInv, Holders
<1>2. b \in Nat /\ c \in Nat /\ B \in Int /\ C \in Int
  BY BudgetTypes, BudgetTypesNext
<1>3. IsFiniteSet(H) /\ b + Cardinality(H) <= B
  BY <1>1 DEF WithinBudget
<1>4. CASE i # cur[w].id
  <2>1. b = c /\ B <= C
    BY <1>4
  <2> HIDE DEF H, G, b, c, B, C
  <2>2. IsFiniteSet(G) /\ c + Cardinality(G) <= C
    BY <1>1, <1>2, <1>3, <2>1, Shares
  <2> QED BY <1>1, <2>1, <2>2 DEF WithinBudget, G, b, c, C
<1>5. CASE i = cur[w].id
  <2>1. ItemsOf(w) = todo[w] \cup {cur[w]} /\ todo[w] \subseteq Item
    BY ItemFacts
  <2>2. w \in H
    BY <1>5, <2>1 DEF Holders
  <2>3. G \subseteq H \ {w}
    <3>1. \A it \in todo[w] : it.id # i
      BY <1>1, <1>5, <2>1 DEF Distinct
    <3>2. w \notin G
      BY <3>1 DEF Holders
    <3> QED BY <1>1, <3>2
  <2>4. \/ c <= b + 1 /\ B <= C
        \/ c = b /\ B <= C + 1
    BY <1>5
  <2>5. i < nextId
    <3>1. nextId \in Nat
      BY BudgetTypes
    <3> QED BY <2>2, <3>1, NoHolders
  <2>6. nextId' \in Nat
    BY BudgetTypes
  <2> HIDE DEF H, G, b, c, B, C
  <2>7. IsFiniteSet(G) /\ c + Cardinality(G) <= C
    BY <1>2, <1>3, <2>2, <2>3, <2>4, Shares
  <2> QED BY <2>5, <2>6, <2>7 DEF WithinBudget, G, c, C
<1> QED BY <1>4, <1>5

(* A worker that only moves on keeps its items.                            *)
LEMMA BudgetQuiet ==
    ASSUME IndInv, IndInv', BudgetInv, gen' = gen, burnt' = burnt,
           UNCHANGED <<todo, cur>>,
           \A w \in Workers : pc'[w] = "idle" => pc[w] = "idle" \/ todo[w] = {},
           \A i \in Ids : /\ i >= nextId' => i >= nextId
                          /\ i < nextId => Budget(rows[i]) <= Budget(rows'[i])
    PROVE  BudgetInv'
<1>1. \A w \in Workers : Distinct(w)' /\ ItemsOf(w)' = ItemsOf(w)
  BY DEF BudgetInv, Distinct, ItemsOf
<1> QED BY <1>1, BudgetStays

LEMMA BudgetTable ==
    ASSUME IndInv, IndInv', BudgetInv,
           \/ \E m \in Msgs, immediate \in BOOLEAN : Enqueue(m, immediate)
           \/ FlushQueue \/ ClearLog \/ \E j \in Ids : Prune(j)
           \/ Time
    PROVE  BudgetInv'
<1> USE DEF db, workers, window, history
<1>1. /\ rows \in [Ids -> Row] /\ nextId \in Nat
      /\ \A i \in Ids : /\ Budget(rows[i]) \in Nat
                        /\ Within(rows[i]) /\ Budget(rows[i]) <= MaxRetries + 1
  <2>1. rows \in [Ids -> Row] /\ nextId \in Nat
    BY DEF IndInv, TypeOK
  <2>2. ASSUME NEW i \in Ids PROVE Budget(rows[i]) <= MaxRetries + 1
    <3>1. rows[i] \in Row /\ Within(rows[i])
      BY BudgetTypes
    <3> QED BY <3>1 DEF Budget, Within, IsOpen, Row
  <2> QED BY <2>1, <2>2, BudgetTypes
<1>2. ASSUME NEW m \in Msgs, NEW immediate \in BOOLEAN, Enqueue(m, immediate)
      PROVE  BudgetInv'
  <2>1. /\ \A i \in Ids : i < nextId => rows'[i] = rows[i]
        /\ nextId' = nextId + 1
    BY <1>1, <1>2 DEF Enqueue
  <2>2. \A i \in Ids : /\ i >= nextId' => i >= nextId
                       /\ i < nextId => Budget(rows[i]) <= Budget(rows'[i])
    BY <1>1, <2>1
  <2>3. UNCHANGED <<workers, gen, burnt>>
    BY <1>2 DEF Enqueue
  <2> QED BY <2>2, <2>3, BudgetQuiet
<1>3. CASE FlushQueue \/ ClearLog \/ \E j \in Ids : Prune(j)
  <2>1. /\ \A i \in Ids : rows'[i] = rows[i] \/ rows'[i] = BlankRow
        /\ UNCHANGED <<nextId, workers, gen, burnt>>
    BY <1>1, <1>3 DEF FlushQueue, ClearLog, Edit, Delete, Prune
  <2>2. Budget(BlankRow) = MaxRetries + 1
    BY BlankRowFacts DEF Budget
  <2>3. \A i \in Ids : Budget(rows[i]) <= Budget(rows'[i])
    BY <1>1, <2>1, <2>2
  <2> QED BY <2>1, <2>3, BudgetQuiet
<1>4. ASSUME NEW j \in Ids, BecomesDue(j) \/ Lapses(j) \/ GrowsOld(j)
      PROVE  BudgetInv'
  <2>1. \A i \in Ids : /\ rows'[i].status = rows[i].status
                       /\ rows'[i].attempts = rows[i].attempts
    <3>1. \A i \in Ids : i # j => rows'[i] = rows[i]
      BY <1>1, <1>4 DEF BecomesDue, Lapses, GrowsOld
    <3> DEFINE r == rows[j]
    <3>2. r \in Row
      BY <1>1
    <3>3. \/ rows'[j] = [r EXCEPT !.due = TRUE] \/ rows'[j] = [r EXCEPT !.lapsed = TRUE]
          \/ rows'[j] = [r EXCEPT !.age = "valid"] \/ rows'[j] = [r EXCEPT !.age = "expired"]
      <4>1. CASE BecomesDue(j)
        BY <1>1, <4>1 DEF BecomesDue
      <4>2. CASE Lapses(j)
        BY <1>1, <4>2 DEF Lapses
      <4>3. CASE GrowsOld(j)
        BY <1>1, <4>3 DEF GrowsOld
      <4> QED BY <1>4, <4>1, <4>2, <4>3
    <3> HIDE DEF r
    <3>4. rows'[j].status = r.status /\ rows'[j].attempts = r.attempts
      BY <3>2, <3>3 DEF Row
    <3> QED BY <3>1, <3>4 DEF r
  <2>2. \A i \in Ids : Budget(rows'[i]) = Budget(rows[i])
    BY <2>1 DEF Budget
  <2>3. UNCHANGED <<nextId, workers, gen, burnt>>
    BY <1>4 DEF BecomesDue, Lapses, GrowsOld
  <2> QED BY <1>1, <2>2, <2>3, BudgetQuiet, SMTT(60)
<1>5. ASSUME NEW p \in Paths, GapElapses(p) \/ CooldownEnds(p)
      PROVE  BudgetInv'
  <2>1. /\ UNCHANGED <<rows, nextId, todo, cur, gen, burnt>>
        /\ \A w \in Workers : pc'[w] \in {pc[w], "reserved"}
    BY <1>5 DEF GapElapses, CooldownEnds
  <2> QED BY <1>1, <2>1, BudgetQuiet
<1> QED BY <1>2, <1>3, <1>4, <1>5 DEF Time

(* The batch of a claim: every row in it is entitled to one send.          *)
LEMMA BudgetClaims ==
    ASSUME IndInv, IndInv', BudgetInv, NEW w \in Workers, Claim(w)
    PROVE  BudgetInv'
<1>1. PICK S \in SUBSET Candidates(SettledRows) :
         /\ rows' = AfterClaim(SettledRows, S, w)
         /\ todo' = [todo EXCEPT ![w] =
               {[id |-> i, msg |-> rows[i].msg] : i \in
                   {j \in S : AfterClaim(SettledRows, S, w)[j].status = "processing"}}]
  BY DEF Claim, SettledRows
<1>2. /\ pc \in [Workers -> PCs] /\ todo \in [Workers -> SUBSET Item]
      /\ pc[w] = "idle" /\ pc' = [pc EXCEPT ![w] = "batch"]
      /\ UNCHANGED <<nextId, cur, gen, burnt>>
  BY DEF Claim, IndInv, TypeOK, window, history
<1>3. todo'[w] = {[id |-> i, msg |-> rows[i].msg] : i \in
                    {j \in S : rows'[j].status = "processing"}}
  BY <1>1, <1>2
<1>4. cur[w] \notin Item
  BY <1>2, ItemFacts DEF Busy
<1>5. todo'[w] \subseteq Item /\ ItemsOf(w)' = todo'[w]
  <2>1. todo'[w] \subseteq Item
    BY DEF IndInv, TypeOK
  <2> QED BY <1>2, <1>4, <2>1 DEF ItemsOf
<1>6. Distinct(w)'
  <2>1. \A a, b \in todo'[w] : a.id = b.id => a = b
    BY <1>3
  <2>2. pc'[w] = "batch" /\ cur'[w] \notin todo'[w]
    BY <1>2, <1>4, <1>5
  <2> QED BY <1>5, <2>1, <2>2 DEF Distinct
<1>7. \A v \in Workers : v # w => Distinct(v)' /\ ItemsOf(v)' = ItemsOf(v)
  <2>1. \A v \in Workers : v # w =>
           Distinct(v) /\ todo'[v] = todo[v] /\ pc'[v] = pc[v] /\ cur'[v] = cur[v]
    BY <1>1, <1>2 DEF BudgetInv
  <2> QED BY <2>1, DistinctStays
<1>8. ASSUME gen = 0, NEW i \in Ids
      PROVE  WithinBudget(i)' /\ (i >= nextId' => burnt'[i] = 0)
  <2> DEFINE H == Holders(i)  G == Holders(i)'
             b == burnt[i]  B == Budget(rows[i])  C == Budget(rows'[i])
  <2>1. /\ WithinBudget(i) /\ (i >= nextId => burnt[i] = 0)
        /\ IsFiniteSet(H) /\ b + Cardinality(H) <= B
    BY <1>8 DEF BudgetInv, WithinBudget
  <2>2. /\ b \in Nat /\ B \in Int /\ C \in Int
        /\ rows[i] \in Row /\ Within(rows[i])
    BY BudgetTypes, BudgetTypesNext
  <2>3. \/ G \subseteq H /\ B <= C
        \/ G \subseteq H \cup {w} /\ B + 1 <= C
    <3>1. G \subseteq H \cup {w}
      BY <1>7 DEF Holders
    <3>2. ~(i \in S /\ rows'[i].status = "processing") => G \subseteq H
      <4>1. ~(i \in S /\ rows'[i].status = "processing") => w \notin G
        BY <1>3, <1>5 DEF Holders
      <4> QED BY <3>1, <4>1
    <3>3. CASE i \notin S
      <4>1. rows'[i] = Settled(rows[i])
        BY <1>1, <3>3 DEF AfterClaim, SettledRows
      <4> QED BY <2>2, <3>2, <3>3, <4>1, SettledBudget
    <3>4. CASE i \in S
      <4>1. SettledRows[i] = rows[i] /\ rows[i].status \in {"pending", "processing"}
        <5>1. SettledRows[i].status \in {"pending", "processing"}
          BY <3>4 DEF Candidates
        <5> QED BY <5>1, SettledFacts DEF IsOpen
      <4>2. rows'[i] = IF rows[i].status = "processing"
                       THEN Recovered(rows[i], w) ELSE Claimed(rows[i], w)
        BY <1>1, <3>4, <4>1 DEF AfterClaim
      <4>3. CASE rows[i].status = "pending"
        <5>1. C = B + 1
          BY <2>2, <4>2, <4>3, ClaimedBudget
        <5> QED BY <2>2, <3>1, <5>1
      <4>4. CASE rows[i].status = "processing"
        BY <2>2, <3>1, <3>2, <4>2, <4>4, RecoveredBudget
      <4> QED BY <4>1, <4>3, <4>4
    <3> QED BY <3>3, <3>4
  <2> HIDE DEF H, G, b, B, C
  <2>4. IsFiniteSet(G) /\ b + Cardinality(G) <= C
    BY <2>1, <2>2, <2>3, Shares
  <2> QED BY <1>2, <2>1, <2>4 DEF WithinBudget, G, b, C
<1> QED BY <1>2, <1>6, <1>7, <1>8 DEF BudgetInv

(* One worker gives up items, the others keep theirs.                      *)
LEMMA OthersKeep ==
    ASSUME BudgetInv, NEW w \in Workers, Distinct(w)', ItemsOf(w)' \subseteq ItemsOf(w),
           \A v \in Workers : v # w =>
              /\ UNCHANGED <<todo[v], cur[v]>>
              /\ pc'[v] = "idle" => pc[v] = "idle"
    PROVE  \A v \in Workers : Distinct(v)' /\ ItemsOf(v)' \subseteq ItemsOf(v)
<1>1. ASSUME NEW v \in Workers, v # w
      PROVE  Distinct(v)' /\ ItemsOf(v)' \subseteq ItemsOf(v)
  <2>1. Distinct(v)
    BY DEF BudgetInv
  <2> QED BY <1>1, <2>1, DistinctStays
<1> QED BY <1>1

(* After ItemDone the rest of the batch is left.                           *)
LEMMA DoneDistinct ==
    ASSUME IndInv, BudgetInv, NEW w \in Workers, ItemDone(w),
           UNCHANGED <<todo, wgen>>
    PROVE  /\ \A v \in Workers : Distinct(v)' /\ ItemsOf(v)' \subseteq ItemsOf(v)
           /\ ItemsOf(w)' \subseteq todo[w]
<1>1. /\ pc'[w] = "batch" /\ cur'[w] = NoItem /\ cur'[w] \notin Item
      /\ \A v \in Workers : v # w => UNCHANGED <<pc[v], todo[v], cur[v]>>
      /\ ItemsOf(w)' \subseteq ItemsOf(w)
  BY DoneFacts
<1>2. todo[w] \subseteq Item /\ ItemsOf(w)' = todo[w]
  BY <1>1, ItemFacts DEF ItemsOf
<1>3. Distinct(w)'
  <2>1. Distinct(w)
    BY DEF BudgetInv
  <2>2. \A a, b \in todo[w] : a.id = b.id => a = b
    BY <2>1 DEF Distinct, ItemsOf
  <2> QED BY <1>1, <1>2, <2>2 DEF Distinct
<1> QED BY <1>1, <1>2, <1>3, OthersKeep

LEMMA BudgetTakes ==
    ASSUME IndInv, IndInv', BudgetInv, NEW w \in Workers, TakeItem(w)
    PROVE  BudgetInv'
<1>1. /\ pc \in [Workers -> PCs] /\ todo \in [Workers -> SUBSET Item]
      /\ cur \in [Workers -> Item \cup {NoItem}]
      /\ pc[w] = "batch" /\ UNCHANGED <<rows, nextId, gen, burnt>>
  BY DEF TakeItem, IndInv, TypeOK, db, window, history
<1>2. PICK it \in todo[w] : /\ cur' = [cur EXCEPT ![w] = it]
                            /\ todo' = [todo EXCEPT ![w] = @ \ {it}]
                            /\ \/ pc' = [pc EXCEPT ![w] = "finalize"]
                               \/ pc' = [pc EXCEPT ![w] = "reserve"]
  BY DEF TakeItem
<1>3. /\ pc'[w] \in {"finalize", "reserve"}
      /\ it \in Item /\ cur'[w] = it /\ todo'[w] = todo[w] \ {it}
      /\ \A v \in Workers : v # w => UNCHANGED <<pc[v], todo[v], cur[v]>>
  BY <1>1, <1>2
<1>4. ItemsOf(w) = todo[w]
  BY <1>1, ItemFacts DEF Busy
<1>5. ItemsOf(w)' = todo[w]
  BY <1>3 DEF ItemsOf
<1>6. Distinct(w)'
  <2>1. Distinct(w)
    BY DEF BudgetInv
  <2> QED BY <1>3, <1>4, <1>5, <2>1 DEF Distinct
<1>7. \A v \in Workers : Distinct(v)' /\ ItemsOf(v)' \subseteq ItemsOf(v)
  BY <1>3, <1>4, <1>5, <1>6, OthersKeep
<1>8. \A i \in Ids : Budget(rows[i]) \in Nat
  BY BudgetTypes
<1> QED BY <1>1, <1>7, <1>8, BudgetStays

LEMMA BudgetRenews ==
    ASSUME IndInv, IndInv', BudgetInv, NEW w \in Workers, RenewLease(w)
    PROVE  BudgetInv'
<1> DEFINE i == cur[w].id
<1>1. /\ UNCHANGED <<nextId, todo, wgen, gen, burnt>>
      /\ rows \in [Ids -> Row] /\ pc[w] = "reserved"
  BY DEF RenewLease, IndInv, TypeOK, window, history
<1>2. \A j \in Ids : Budget(rows[j]) \in Nat
  BY BudgetTypes
<1>3. i \in Ids
  BY <1>1, ItemFacts DEF Busy, PCs, Item
<1>4. CASE rows[i].status = "processing" /\ rows[i].holder = w
  <2>1. /\ rows' = [rows EXCEPT ![i].lapsed = FALSE]
        /\ UNCHANGED cur
        /\ pc' = [v \in Workers |->
                    IF v = w THEN "sending"
                    ELSE IF pc[v] = "pacing" /\ PathOfCur(v) = PathOfCur(w)
                         THEN "reserved" ELSE pc[v]]
    BY <1>4 DEF RenewLease
  <2>2. \A j \in Ids : /\ rows'[j].status = rows[j].status
                       /\ rows'[j].attempts = rows[j].attempts
    <3>1. rows[i] \in Row /\ \A j \in Ids : j # i => rows'[j] = rows[j]
      BY <1>1, <1>3, <2>1
    <3>2. rows'[i] = [rows[i] EXCEPT !.lapsed = FALSE]
      BY <1>1, <1>3, <2>1
    <3> QED BY <3>1, <3>2 DEF Row
  <2>3. \A j \in Ids : Budget(rows'[j]) = Budget(rows[j])
    BY <2>2 DEF Budget
  <2>4. \A v \in Workers : pc'[v] = "idle" => pc[v] = "idle" \/ todo[v] = {}
    BY <2>1
  <2>5. \A j \in Ids : /\ j >= nextId' => j >= nextId
                       /\ j < nextId => Budget(rows[j]) <= Budget(rows'[j])
    <3> SUFFICES ASSUME NEW j \in Ids
                 PROVE  nextId' = nextId /\ Budget(rows[j]) <= Budget(rows'[j])
      OBVIOUS
    <3> QED BY <1>1, <1>2, <2>3
  <2>6. gen' = gen /\ burnt' = burnt /\ UNCHANGED <<todo, cur>>
    BY <1>1, <2>1
  <2> QED BY <2>4, <2>5, <2>6, BudgetQuiet
<1>5. CASE ~(rows[i].status = "processing" /\ rows[i].holder = w)
  <2>1. ItemDone(w) /\ rows' = rows
    BY <1>5 DEF RenewLease
  <2> QED BY <1>1, <1>2, <2>1, DoneDistinct, BudgetStays
<1> QED BY <1>4, <1>5

(* The outcome is applied: a counted failure takes its send from the       *)
(* budget of its own claim.                                                *)
LEMMA BudgetMarks ==
    ASSUME IndInv, IndInv', BudgetInv, NEW w \in Workers, MarkResult(w)
    PROVE  BudgetInv'
<1> DEFINE i == cur[w].id
           q == Applied(rows[i], cur[w].msg, result[w])
<1>1. /\ ItemDone(w) /\ UNCHANGED <<nextId, todo, wgen, gen>>
      /\ rows' = [rows EXCEPT ![i] = q]
      /\ burnt' = IF result[w] = "limited"
                  THEN [burnt EXCEPT ![i] = Capped(@, MaxRetries + 2)] ELSE burnt
      /\ pc[w] \in Busy
      /\ rows \in [Ids -> Row] /\ burnt \in [Ids -> 0..(MaxRetries + 2)]
  BY DEF MarkResult, IndInv, TypeOK, window, Busy, PCs
<1>2. cur[w] \in Item /\ i \in Ids
  BY <1>1, ItemFacts DEF Item
<1>3. \A j \in Ids : Budget(rows[j]) \in Nat /\ burnt[j] \in Nat
  BY BudgetTypes
<1>4. \A j \in Ids \ {i} : burnt'[j] = burnt[j] /\ Budget(rows[j]) <= Budget(rows'[j])
  BY <1>1, <1>2, <1>3, SMTT(60)
<1>5. rows'[i] = q
  BY <1>1, <1>2
<1>6. \/ burnt'[i] <= burnt[i] + 1 /\ Budget(rows[i]) <= Budget(q)
      \/ burnt'[i] = burnt[i] /\ Budget(rows[i]) <= Budget(q) + 1
  <2>1. /\ Budget(rows[i]) <= Budget(q) + 1
        /\ result[w] = "limited" => Budget(rows[i]) <= Budget(q)
    <3>1. rows[i] \in Row /\ Within(rows[i])
      BY <1>2, BudgetTypes
    <3> HIDE DEF i
    <3> QED BY <3>1, AppliedBudget
  <2>2. CASE result[w] = "limited"
    <3>1. burnt'[i] = Capped(burnt[i], MaxRetries + 2)
      BY <1>1, <1>2, <2>2
    <3>2. burnt'[i] <= burnt[i] + 1
      BY <1>2, <1>3, <3>1 DEF Capped
    <3> QED BY <2>1, <2>2, <3>2
  <2>3. CASE result[w] # "limited"
    BY <1>1, <2>1, <2>3
  <2> QED BY <2>2, <2>3
<1> HIDE DEF q
<1> QED BY <1>1, <1>2, <1>4, <1>5, <1>6, DoneDistinct, BudgetDone

(* A crash costs the send it interrupts and gives up the rest of the batch.*)
LEMMA BudgetCrashes ==
    ASSUME IndInv, IndInv', BudgetInv, NEW w \in Workers, Crash(w)
    PROVE  BudgetInv'
<1> DEFINE i == cur[w].id
<1>1. /\ pc \in [Workers -> PCs] /\ todo \in [Workers -> SUBSET Item]
      /\ cur \in [Workers -> Item \cup {NoItem}]
      /\ burnt \in [Ids -> 0..(MaxRetries + 2)]
      /\ pc' = [pc EXCEPT ![w] = "idle"]
      /\ todo' = [todo EXCEPT ![w] = {}]
      /\ cur' = [cur EXCEPT ![w] = NoItem]
      /\ burnt' = IF pc[w] = "sending"
                  THEN [burnt EXCEPT ![i] = Capped(@, MaxRetries + 2)] ELSE burnt
      /\ UNCHANGED <<rows, nextId, gen>>
  BY DEF Crash, IndInv, TypeOK, db
<1>2. /\ pc'[w] = "idle" /\ todo'[w] = {} /\ cur'[w] = NoItem
      /\ \A v \in Workers : v # w => UNCHANGED <<pc[v], todo[v], cur[v]>>
  BY <1>1
<1>3. ItemsOf(w)' = {}
  BY <1>2, ItemFacts DEF ItemsOf
<1>4. Distinct(w)'
  BY <1>2, <1>3 DEF Distinct
<1>5. \A v \in Workers : Distinct(v)' /\ ItemsOf(v)' \subseteq ItemsOf(v)
  BY <1>2, <1>3, <1>4, OthersKeep
<1>6. \A j \in Ids : Budget(rows[j]) \in Nat /\ burnt[j] \in Nat
  BY BudgetTypes
<1>7. CASE pc[w] = "sending"
  <2>1. cur[w] \in Item /\ i \in Ids
    BY <1>7, ItemFacts DEF Busy, PCs, Item
  <2>2. burnt'[i] = Capped(burnt[i], MaxRetries + 2)
    BY <1>1, <1>7, <2>1
  <2>3. burnt'[i] <= burnt[i] + 1
    BY <1>6, <2>1, <2>2 DEF Capped
  <2>4. \A j \in Ids \ {i} : burnt'[j] = burnt[j]
    BY <1>1, <2>1
  <2>5. /\ UNCHANGED <<gen, nextId>> /\ ItemsOf(w)' \subseteq todo[w]
        /\ \A j \in Ids : Budget(rows'[j]) = Budget(rows[j])
    BY <1>1, <1>3
  <2>6. Budget(rows[i]) <= Budget(rows'[i])
    BY <1>6, <2>1, <2>5
  <2>7. \A j \in Ids \ {i} : burnt'[j] = burnt[j] /\ Budget(rows[j]) <= Budget(rows'[j])
    BY <1>6, <2>4, <2>5
  <2> QED BY <1>5, <2>1, <2>3, <2>5, <2>6, <2>7, BudgetDone
<1>8. CASE pc[w] # "sending"
  BY <1>1, <1>5, <1>6, <1>8, BudgetStays
<1> QED BY <1>7, <1>8

LEMMA BudgetStep ==
    ASSUME IndInv, IndInv', BudgetInv, [Next]_vars
    PROVE  BudgetInv'
<1>1. \A i \in Ids : Budget(rows[i]) \in Nat
  BY BudgetTypes
<1>2. ASSUME NEW w \in Workers, WorkerStep(w) PROVE BudgetInv'
  <2>1. pc \in [Workers -> PCs]
    BY DEF IndInv, TypeOK
  <2>2. CASE DropResult(w)
    BY <1>1, <2>2, DoneDistinct, BudgetStays DEF DropResult, db, window
  <2>3. CASE EndRun(w)
    <3>1. /\ UNCHANGED <<rows, nextId, todo, cur, gen, burnt>>
          /\ todo[w] = {} /\ pc' = [pc EXCEPT ![w] = "idle"]
      BY <2>3 DEF EndRun, db, window, history
    <3>2. \A v \in Workers : pc'[v] = "idle" => pc[v] = "idle" \/ todo[v] = {}
      BY <2>1, <3>1
    <3>3. \A i \in Ids : /\ i >= nextId' => i >= nextId
                         /\ i < nextId => Budget(rows[i]) <= Budget(rows'[i])
      BY <1>1, <3>1
    <3> QED BY <3>1, <3>2, <3>3, BudgetQuiet
  <2>4. CASE \/ ReadPacing(w) \/ PacingRefused(w) \/ LeaseRefused(w)
             \/ Send(w) \/ SetCooldown(w)
    <3>1. /\ UNCHANGED <<rows, nextId, todo, cur, gen, burnt>>
          /\ \A v \in Workers : pc'[v] # "idle" \/ pc'[v] = pc[v]
      BY <2>1, <2>4 DEF ReadPacing, PacingRefused, LeaseRefused, Defer, Send,
         SetCooldown, db, window, history
    <3> QED BY <1>1, <3>1, BudgetQuiet
  <2> QED BY <1>2, <2>2, <2>3, <2>4, BudgetClaims, BudgetTakes, BudgetRenews, BudgetMarks
          DEF WorkerStep
<1>3. ASSUME NEW w \in Workers, Crash(w) PROVE BudgetInv'
  BY <1>3, BudgetCrashes
<1>4. CASE TakeBackup \/ BeginMaintenance \/ AbortRestore
  <2>1. UNCHANGED <<rows, nextId, todo, cur, pc, gen, burnt>>
    BY <1>4 DEF TakeBackup, BeginMaintenance, AbortRestore, db, workers, history
  <2> QED BY <1>1, <2>1, BudgetQuiet
<1>5. CASE SwapDatabase
  <2>1. gen' = gen + 1 /\ gen \in Nat /\ UNCHANGED <<todo, cur, pc>>
    BY <1>5 DEF SwapDatabase, IndInv, TypeOK, workers
  <2> QED BY <2>1 DEF BudgetInv, Distinct, ItemsOf
<1>6. CASE UNCHANGED vars
  BY <1>1, <1>6, BudgetQuiet DEF vars, db, workers, window, history
<1> QED BY <1>2, <1>3, <1>4, <1>5, <1>6, BudgetTable DEF Next, Restore

(* A message whose send kills the process or keeps failing goes out at     *)
(* most MAX_RETRIES + 1 times, with any number of workers that take over   *)
(* each other's claims: every recovery is booked before the row is sent.   *)
THEOREM PoisonBudget == Spec => []PoisonIsBounded
<1>1. Init => BudgetInv
  <2> SUFFICES ASSUME Init PROVE BudgetInv
    OBVIOUS
  <2>1. \A w \in Workers : /\ todo[w] = {} /\ cur[w] = NoItem /\ ItemsOf(w) = {}
    BY DEF Init, ItemsOf, NoItem, Item
  <2>2. \A i \in Ids : Holders(i) = {} /\ burnt[i] = 0 /\ Budget(rows[i]) = MaxRetries + 1
    BY <2>1, BlankRowFacts DEF Init, Holders, Budget
  <2>3. ASSUME NEW i \in Ids PROVE WithinBudget(i)
    <3>1. IsFiniteSet(Holders(i)) /\ Cardinality(Holders(i)) = 0
      BY <2>2, FS_EmptySet
    <3>2. burnt[i] = 0 /\ Budget(rows[i]) = MaxRetries + 1
      BY <2>2
    <3> QED BY <3>1, <3>2 DEF WithinBudget
  <2> QED BY <2>1, <2>2, <2>3 DEF BudgetInv, Distinct
<1>2. IndInv /\ IndInv' /\ BudgetInv /\ [Next]_vars => BudgetInv'
  BY BudgetStep
<1>3. IndInv /\ BudgetInv => PoisonIsBounded
  <2> SUFFICES ASSUME IndInv, BudgetInv, gen = 0, NEW i \in Ids
               PROVE  burnt[i] <= MaxRetries + 1
    BY DEF PoisonIsBounded
  <2>1. /\ IsFiniteSet(Holders(i))
        /\ burnt[i] + Cardinality(Holders(i)) <= Budget(rows[i])
    BY DEF BudgetInv, WithinBudget
  <2>2. Cardinality(Holders(i)) \in Nat
    BY <2>1, FS_CardinalityType
  <2>3. rows[i] \in Row /\ Within(rows[i]) /\ burnt[i] \in Nat
    BY BudgetTypes
  <2>4. Budget(rows[i]) <= MaxRetries + 1 /\ Budget(rows[i]) \in Nat
    BY <2>3, BudgetInt DEF Budget, Within, IsOpen, Row
  <2> QED BY <2>1, <2>2, <2>3, <2>4
<1> QED BY <1>1, <1>2, <1>3, AlwaysIndInv, PTL DEF Spec

-----------------------------------------------------------------------------
(* One worker keeps its pace                                               *)

(* A worker on its way to a send has found the path free, as long as the   *)
(* database it looked at is still the one it works on.                     *)
PacedBy(w) ==
    wgen[w] = gen =>
        /\ pc[w] \in {"pacing", "reserved"} => PathOfCur(w) \notin cooldown
        /\ pc[w] = "reserved" => gap[PathOfCur(w)] = "ready"

Paced == \A w \in Workers : PacedBy(w)

(* A worker that is not waiting for its path has nothing to respect.       *)
LEMMA PacedElsewhere ==
    ASSUME OneWorker, NEW w \in Workers, pc'[w] \notin {"pacing", "reserved"}
    PROVE  Paced'
BY DEF OneWorker, Paced, PacedBy

LEMMA PacedQuiet ==
    ASSUME Paced, UNCHANGED <<pc, cur, gap, gen, wgen>>, cooldown' \subseteq cooldown
    PROVE  Paced'
BY DEF Paced, PacedBy, PathOfCur

LEMMA PacedWorker ==
    ASSUME OneWorker, IndInv, Paced, NEW w \in Workers, WorkerStep(w) \/ Crash(w)
    PROVE  Paced'
<1>1. pc \in [Workers -> PCs]
  BY DEF IndInv, TypeOK
<1>2. CASE ReadPacing(w)
  <2>1. /\ pc'[w] = IF gap[PathOfCur(w)] = "ready" THEN "reserved" ELSE "pacing"
        /\ PathOfCur(w) \notin cooldown
        /\ PathOfCur(w)' = PathOfCur(w)
        /\ gap' = gap /\ cooldown' = cooldown
    BY <1>1, <1>2 DEF ReadPacing, PathOfCur, db
  <2>2. PacedBy(w)'
    BY <2>1 DEF PacedBy
  <2> QED BY <2>2 DEF OneWorker, Paced
<1>3. CASE RenewLease(w)
  <2>1. pc'[w] \notin {"pacing", "reserved"}
    BY <1>1, <1>3 DEF RenewLease, ItemDone
  <2> QED BY <2>1, PacedElsewhere
<1>4. CASE ~(ReadPacing(w) \/ RenewLease(w))
  <2>1. pc'[w] \in {"idle", "batch", "reserve", "finalize", "mark"}
    BY <1>1, <1>4 DEF WorkerStep, Crash, Claim, EndRun, TakeItem, PacingRefused,
       LeaseRefused, Defer, Send, SetCooldown, MarkResult, DropResult, ItemDone
  <2> QED BY <2>1, PacedElsewhere
<1> QED BY <1>2, <1>3, <1>4

LEMMA PacedStep ==
    ASSUME OneWorker, IndInv, Paced, [Next]_vars
    PROVE  Paced'
<1>1. ASSUME NEW m \in Msgs, NEW immediate \in BOOLEAN, Enqueue(m, immediate)
      PROVE  Paced'
  BY <1>1, PacedQuiet DEF Enqueue, workers, window
<1>2. ASSUME NEW w \in Workers, WorkerStep(w) \/ Crash(w) PROVE Paced'
  BY <1>2, PacedWorker
<1>3. CASE FlushQueue \/ ClearLog \/ \E i \in Ids : Prune(i)
  BY <1>3, PacedQuiet DEF FlushQueue, ClearLog, Edit, Prune, workers, window
<1>4. ASSUME NEW i \in Ids, BecomesDue(i) \/ Lapses(i) \/ GrowsOld(i)
      PROVE  Paced'
  BY <1>4, PacedQuiet DEF BecomesDue, Lapses, GrowsOld, workers, window
<1>5. ASSUME NEW p \in Paths, GapElapses(p) PROVE Paced'
  <2>1. pc \in [Workers -> PCs] /\ gap \in [Paths -> Gaps]
    BY DEF IndInv, TypeOK
  <2> SUFFICES ASSUME NEW w \in Workers, wgen[w] = gen
               PROVE  /\ pc'[w] \in {"pacing", "reserved"} => PathOfCur(w) \notin cooldown
                      /\ pc'[w] = "reserved" => gap'[PathOfCur(w)] = "ready"
    BY <1>5 DEF Paced, PacedBy, GapElapses, PathOfCur, window
  <2>2. /\ gap' = [gap EXCEPT ![p] = IF gap[p] = "far" THEN "near" ELSE "ready"]
        /\ gap[p] # "ready"
        /\ pc'[w] = IF gap[p] = "near" /\ pc[w] = "pacing" /\ PathOfCur(w) = p
                    THEN "reserved" ELSE pc[w]
    BY <1>5, <2>1 DEF GapElapses
  <2>3. \A q \in Paths : q # p => gap'[q] = gap[q]
    BY <2>1, <2>2
  <2>4. gap[p] = "near" => gap'[p] = "ready"
    BY <2>1, <2>2
  <2>5. pc'[w] \in {"pacing", "reserved"} => PathOfCur(w) \in Paths
    <3> SUFFICES ASSUME pc'[w] \in {"pacing", "reserved"} PROVE PathOfCur(w) \in Paths
      OBVIOUS
    <3>1. pc[w] \in Busy
      BY <2>2 DEF Busy, PCs
    <3>2. cur[w] \in Item
      BY <3>1, WorkersParts, IndInvParts DEF WorkerConsistent
    <3> QED BY <3>2 DEF Item, PathOfCur
  <2>6. PacedBy(w)
    BY DEF Paced
  <2>7. CASE pc'[w] = pc[w]
    <3>1. pc[w] = "reserved" => gap[PathOfCur(w)] = "ready" /\ PathOfCur(w) # p
      BY <2>2, <2>6 DEF PacedBy
    <3> QED BY <2>3, <2>5, <2>6, <2>7, <3>1 DEF PacedBy
  <2>8. CASE pc'[w] # pc[w]
    <3>1. gap[p] = "near" /\ pc[w] = "pacing" /\ PathOfCur(w) = p
      BY <2>2, <2>8
    <3> QED BY <2>4, <2>6, <3>1 DEF PacedBy
  <2> QED BY <2>7, <2>8
<1>6. ASSUME NEW p \in Paths, CooldownEnds(p) PROVE Paced'
  BY <1>6, PacedQuiet DEF CooldownEnds, workers, window
<1>7. CASE TakeBackup \/ BeginMaintenance \/ AbortRestore
  BY <1>7, PacedQuiet DEF TakeBackup, BeginMaintenance, AbortRestore, db, workers
<1>8. CASE SwapDatabase
  <2>1. gen' = gen + 1 /\ gen \in Nat /\ wgen' = wgen
    BY <1>8 DEF SwapDatabase, IndInv, TypeOK, workers
  <2>2. ASSUME NEW w \in Workers PROVE wgen'[w] # gen'
    <3>1. wgen[w] <= gen /\ wgen[w] \in Nat
      BY DEF IndInv, TypeOK, WorkersConsistent
    <3> QED BY <2>1, <3>1
  <2> QED BY <2>2 DEF Paced, PacedBy
<1>9. CASE UNCHANGED vars
  BY <1>9, PacedQuiet DEF vars, db, workers, window
<1> QED BY <1>1, <1>2, <1>3, <1>4, <1>5, <1>6, <1>7, <1>8, <1>9
        DEF Next, Time, Restore

(* Only the renewal of the claim starts a send, and it is admitted only    *)
(* on the database whose pacing the worker has waited for.                 *)
LEMMA SendsPaced ==
    ASSUME IndInv, Paced, [Next]_vars, NEW w \in Workers,
           pc[w] # "sending", pc'[w] = "sending"
    PROVE  gap[PathOfCur(w)] = "ready" /\ PathOfCur(w) \notin cooldown
<1>1. pc \in [Workers -> PCs]
  BY DEF IndInv, TypeOK
<1>2. PICK v \in Workers : RenewLease(v)
  <2>1. ASSUME NEW v \in Workers, WorkerStep(v) \/ Crash(v), ~RenewLease(v)
        PROVE  FALSE
    <3>1. pc'[w] = pc[w] \/ pc'[w] # "sending"
      BY <1>1, <2>1 DEF WorkerStep, Crash, Claim, EndRun, TakeItem, ReadPacing,
         PacingRefused, LeaseRefused, Defer, Send, SetCooldown, MarkResult,
         DropResult, ItemDone
    <3> QED BY <3>1
  <2>2. CASE \E m \in Msgs, immediate \in BOOLEAN : Enqueue(m, immediate)
    BY <2>2 DEF Enqueue, workers
  <2>3. CASE FlushQueue \/ ClearLog \/ \E i \in Ids : Prune(i)
    BY <2>3 DEF FlushQueue, ClearLog, Edit, Prune, workers
  <2>4. CASE Time
    BY <2>4, <1>1 DEF Time, BecomesDue, Lapses, GrowsOld, GapElapses, CooldownEnds, workers
  <2>5. CASE Restore
    BY <2>5 DEF Restore, TakeBackup, BeginMaintenance, AbortRestore, SwapDatabase, workers
  <2>6. CASE UNCHANGED vars
    BY <2>6 DEF vars, workers
  <2> QED BY <2>1, <2>2, <2>3, <2>4, <2>5, <2>6 DEF Next
<1>3. v = w
  BY <1>1, <1>2 DEF RenewLease, ItemDone
<1>4. pc[w] = "reserved" /\ wgen[w] = gen
  BY <1>2, <1>3 DEF RenewLease, Admitted
<1> QED BY <1>4 DEF Paced, PacedBy

(* A process of its own on the database keeps the distance between two     *)
(* sends on one path and respects its cooldown, although the gap is read   *)
(* in one section, waited for outside of any and recorded in the next, and *)
(* although restores exchange the recorded times in between.               *)
THEOREM PacedAlone ==
    ASSUME OneWorker
    PROVE  Spec => PacingKept
<1>1. Init => Paced
  BY DEF Init, Paced, PacedBy
<1>2. IndInv /\ Paced /\ [Next]_vars => Paced'
  BY PacedStep
<1>3. IndInv /\ Paced /\ [Next]_vars =>
        [\A w \in Workers : pc[w] # "sending" /\ pc'[w] = "sending" =>
            gap[PathOfCur(w)] = "ready" /\ PathOfCur(w) \notin cooldown]_vars
  BY SendsPaced
<1> QED BY <1>1, <1>2, <1>3, AlwaysIndInv, PTL DEF Spec, PacingKept
=============================================================================
