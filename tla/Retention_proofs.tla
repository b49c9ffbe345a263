-------------------------- MODULE Retention_proofs --------------------------
(***************************************************************************)
(* Proofs about Retention, for any number of runs, URLs and executions.    *)
(*                                                                         *)
(* Inv says what a selection may hold while its DELETE is outstanding: ids *)
(* that were stored, that are not the newest locations of a URL and show   *)
(* no issue, and links of runs that are old and carry no evidence.  It     *)
(* stays true while other crawls go on because a run that stores rows is   *)
(* never old, and a run that is old never runs again.                      *)
(***************************************************************************)
EXTENDS Retention, FiniteSetTheorems, TLAPS

IsLocation(row) == row[1] = "element_locations"
IsLink(row) == row[1] = "url_links"

Newest(row) ==
    \A other \in written : other[1] = row[1] /\ other[3] = row[3] => other[2] <= row[2]

RowsInv ==
    /\ written \subseteq Rows
    /\ rows \subseteq written
    /\ found \subseteq Runs \X Urls

CrawlInv ==
    /\ crawl \in [Runs -> [status : CrawlStatus, left : 0 .. Retries, old : BOOLEAN]]
    /\ \A r \in Runs : crawl[r].old => crawl[r].status \in {"succeeded", "failed"}

KeptInv ==
    \A row \in written :
        /\ IsLocation(row) /\ Newest(row) => row \in rows
        /\ IsLocation(row) /\ <<row[2], row[3]>> \in found => row \in rows
        /\ IsLink(row) /\ (row[2] \in EvidenceRuns \/ ~crawl[row[2]].old) => row \in rows

ExecInv ==
    /\ DOMAIN exec = Executors
    /\ \A x \in Executors : \A row \in exec[x].ids :
        /\ row \in written
        /\ IsLocation(row) => ~Newest(row) /\ <<row[2], row[3]>> \notin found
        /\ IsLink(row) => row[2] \notin EvidenceRuns /\ crawl[row[2]].old

Inv == RowsInv /\ CrawlInv /\ KeptInv /\ ExecInv

LEMMA InitInv == Init => Inv
BY ConstantsAssumption DEF Init, Inv, RowsInv, CrawlInv, KeptInv, ExecInv, IdleExec, CrawlStatus

\* A step that touches neither the crawls nor the rows and selects nothing.
LEMMA QuietStep ==
    ASSUME Inv, UNCHANGED crawls, DOMAIN exec' = Executors,
           \A x \in Executors : exec'[x].ids = {} \/ exec'[x].ids = exec[x].ids
    PROVE  Inv'
<1>1. RowsInv' /\ CrawlInv' /\ KeptInv'
  BY DEF Inv, RowsInv, CrawlInv, KeptInv, crawls, EvidenceRuns, Newest
<1>2. ExecInv'
  BY DEF Inv, ExecInv, crawls, EvidenceRuns, Newest
<1> QED
  BY <1>1, <1>2 DEF Inv

\* A crawl that is not old changes its status: the rows stay as they are.
LEMMA StatusStep ==
    ASSUME Inv, NEW r \in Runs, ~crawl[r].old,
           crawl' \in [Runs -> [status : CrawlStatus, left : 0 .. Retries, old : BOOLEAN]],
           \A q \in Runs : crawl'[q].old = crawl[q].old,
           \A q \in Runs \ {r} : crawl'[q] = crawl[q],
           UNCHANGED <<rows, found, written, exec>>
    PROVE  Inv'
<1>1. RowsInv'
  BY DEF Inv, RowsInv
<1>2. CrawlInv'
  BY DEF Inv, CrawlInv
<1>3. KeptInv'
  BY ConstantsAssumption DEF Inv, RowsInv, KeptInv, EvidenceRuns, Newest, IsLink, Rows
<1>4. ExecInv'
  BY ConstantsAssumption DEF Inv, RowsInv, ExecInv, EvidenceRuns, Newest, IsLink, Rows
<1> QED
  BY <1>1, <1>2, <1>3, <1>4 DEF Inv

\* A visit of URL u: the new rows are the newest of u, or older rows of u
\* still are; the crawl that makes it is not old.
LEMMA VisitStep ==
    ASSUME Inv, NEW r \in Runs, NEW u \in Urls, Visit(r, u)
    PROVE  Inv'
<1> DEFINE new == {row \in Rows : row[2] = r /\ row[3] = u}
<1>1. /\ rows' = rows \cup new
      /\ written' = written \cup new
      /\ found' \in {found, found \cup {<<r, u>>}}
      /\ new \cap written = {}
      /\ UNCHANGED <<crawl, exec>>
      /\ ~crawl[r].old
  BY DEF Visit, Inv, CrawlInv
<1>2. RowsInv'
  BY <1>1 DEF Inv, RowsInv
<1>3. CrawlInv'
  BY <1>1 DEF Inv, CrawlInv
<1>4. EvidenceRuns' \subseteq EvidenceRuns \cup {r}
  BY <1>1 DEF EvidenceRuns
<1>5. \A row \in written : Newest(row)' => Newest(row)
  BY <1>1 DEF Newest
<1>6. KeptInv'
  <2> SUFFICES ASSUME NEW row \in written', row \notin rows'
      PROVE  /\ IsLocation(row) => ~Newest(row)' /\ <<row[2], row[3]>> \notin found'
             /\ IsLink(row) => row[2] \notin EvidenceRuns' /\ crawl'[row[2]].old
    BY <1>1 DEF KeptInv
  <2>1. row \in written /\ row \notin rows /\ row \in Rows /\ row \notin new
    BY <1>1 DEF Inv, RowsInv
  <2>2. ~(row[2] = r /\ row[3] = u)
    BY <2>1
  <2>3. IsLocation(row) => ~Newest(row)' /\ <<row[2], row[3]>> \notin found'
    BY <1>1, <1>5, <2>1, <2>2 DEF Inv, KeptInv
  <2>4. IsLink(row) => row[2] \notin EvidenceRuns /\ crawl[row[2]].old
    BY <2>1 DEF Inv, KeptInv
  <2> QED
    BY <1>1, <1>4, <2>3, <2>4
<1>7. ExecInv'
  <2> SUFFICES ASSUME NEW x \in Executors, NEW row \in exec[x].ids
      PROVE  /\ row \in written'
             /\ IsLocation(row) => ~Newest(row)' /\ <<row[2], row[3]>> \notin found'
             /\ IsLink(row) => row[2] \notin EvidenceRuns' /\ crawl[row[2]].old
    BY <1>1 DEF Inv, ExecInv
  <2>1. row \in written /\ row \in Rows /\ row \notin new
    BY <1>1 DEF Inv, ExecInv, RowsInv
  <2>2. ~(row[2] = r /\ row[3] = u)
    BY <2>1
  <2>3. IsLocation(row) => ~Newest(row)' /\ <<row[2], row[3]>> \notin found'
    BY <1>1, <1>5, <2>1, <2>2 DEF Inv, ExecInv
  <2>4. IsLink(row) => row[2] \notin EvidenceRuns /\ crawl[row[2]].old
    BY DEF Inv, ExecInv
  <2> QED
    BY <1>1, <1>4, <2>1, <2>3, <2>4
<1> QED
  BY <1>2, <1>3, <1>6, <1>7 DEF Inv

\* Getting old takes no row away, and old runs are done.
LEMMA AgeStep ==
    ASSUME Inv, NEW r \in Runs, Age(r)
    PROVE  Inv'
<1>1. /\ UNCHANGED <<rows, found, written, exec>>
      /\ crawl' = [crawl EXCEPT ![r].old = TRUE]
      /\ crawl[r].status \in {"succeeded", "failed"}
  BY DEF Age
<1>2. RowsInv' /\ CrawlInv'
  BY <1>1 DEF Inv, RowsInv, CrawlInv
<1>3. \A q \in Runs : crawl[q].old => crawl'[q].old
  BY <1>1 DEF Inv, CrawlInv
<1>4. KeptInv'
  BY <1>1, <1>3 DEF Inv, KeptInv, RowsInv, EvidenceRuns, Newest, IsLink, Rows
<1>5. ExecInv'
  BY <1>1, <1>3 DEF Inv, ExecInv, RowsInv, EvidenceRuns, Newest, IsLink, Rows
<1> QED
  BY <1>2, <1>4, <1>5 DEF Inv

\* A row stored as the newest of its URL is still there, so that the newest of
\* the rows that exist is the newest ever stored: a selection spares it.
LEMMA CandidatesSpare ==
    ASSUME Inv, NEW row \in LocationCandidates \cup LinkCandidates
    PROVE  /\ row \in written
           /\ IsLocation(row) => ~Newest(row) /\ <<row[2], row[3]>> \notin found
           /\ IsLink(row) => row[2] \notin EvidenceRuns /\ crawl[row[2]].old
<1>1. row \in written
  BY DEF LocationCandidates, LinkCandidates, Inv, RowsInv
<1>2. CASE row \in LocationCandidates
  <2>1. row \in rows /\ row \notin LatestLocations /\ IsLocation(row)
        /\ <<row[2], row[3]>> \notin found
    BY <1>2 DEF LocationCandidates, IsLocation
  <2>2. ~Newest(row)
    BY <2>1 DEF LatestLocations, Newest, Inv, RowsInv, IsLocation
  <2> QED
    BY <1>1, <2>1, <2>2 DEF IsLocation, IsLink
<1>3. CASE row \in LinkCandidates
  BY <1>1, <1>3 DEF LinkCandidates, IsLocation, IsLink
<1> QED
  BY <1>2, <1>3

LEMMA SelectStep ==
    ASSUME Inv, NEW x \in Executors, Select(x)
    PROVE  Inv'
<1>1. PICK ids \in SUBSET (LocationCandidates \cup LinkCandidates) :
        exec' = [exec EXCEPT ![x].pc = "deleting", ![x].ids = ids]
  BY DEF Select, Candidates
<1>2. UNCHANGED crawls
  BY DEF Select
<1>3. RowsInv' /\ CrawlInv' /\ KeptInv'
  BY <1>2 DEF Inv, RowsInv, CrawlInv, KeptInv, crawls, EvidenceRuns, Newest
<1>4. DOMAIN exec' = Executors /\ exec'[x].ids = ids
      /\ \A y \in Executors \ {x} : exec'[y] = exec[y]
  BY <1>1 DEF Inv, ExecInv
<1>5. ASSUME NEW y \in Executors, NEW row \in exec'[y].ids
      PROVE  /\ row \in written
             /\ IsLocation(row) => ~Newest(row) /\ <<row[2], row[3]>> \notin found
             /\ IsLink(row) => row[2] \notin EvidenceRuns /\ crawl[row[2]].old
  <2>1. CASE y = x
    BY <1>4, <1>5, <2>1, CandidatesSpare
  <2>2. CASE y # x
    BY <1>4, <1>5, <2>2 DEF Inv, ExecInv
  <2> QED
    BY <2>1, <2>2
<1>6. ExecInv'
  BY <1>2, <1>4, <1>5 DEF ExecInv, crawls, EvidenceRuns, Newest
<1> QED
  BY <1>3, <1>6 DEF Inv

\* DELETE removes what the selection held, whatever happened since.
LEMMA DeleteStep ==
    ASSUME Inv, NEW x \in Executors, Delete(x)
    PROVE  Inv'
<1>1. /\ rows' = rows \ exec[x].ids
      /\ UNCHANGED <<crawl, found, written>>
      /\ DOMAIN exec' = DOMAIN exec
      /\ exec'[x].ids = {}
      /\ \A y \in Executors \ {x} : exec'[y] = exec[y]
  BY DEF Delete, Inv, ExecInv
<1>2. RowsInv' /\ CrawlInv'
  BY <1>1 DEF Inv, RowsInv, CrawlInv
<1>3. KeptInv'
  BY <1>1 DEF Inv, KeptInv, ExecInv, RowsInv, EvidenceRuns, Newest, IsLocation, IsLink
<1>4. ExecInv'
  BY <1>1 DEF Inv, ExecInv, EvidenceRuns, Newest
<1> QED
  BY <1>2, <1>3, <1>4 DEF Inv

LEMMA CrawlStepKeepsInv ==
    ASSUME Inv, NEW r \in Runs, CrawlStep(r)
    PROVE  Inv'
<1>1. CASE \E u \in Urls : Visit(r, u)
  BY <1>1, VisitStep
<1>2. CASE Age(r)
  BY <1>2, AgeStep
<1>3. CASE Create(r) \/ Resume(r) \/ Start(r) \/ Retry(r) \/ End(r) \/ Cancel(r)
  <2>1. ~crawl[r].old
    BY <1>3 DEF Create, Resume, Start, Retry, End, Cancel, Inv, CrawlInv
  <2>2. /\ UNCHANGED <<rows, found, written, exec>>
        /\ crawl' \in [Runs -> [status : CrawlStatus, left : 0 .. Retries, old : BOOLEAN]]
        /\ \A q \in Runs : crawl'[q].old = crawl[q].old
        /\ \A q \in Runs \ {r} : crawl'[q] = crawl[q]
    <3>1. CASE Retry(r)
      BY <3>1, ConstantsAssumption DEF Retry, Inv, CrawlInv, CrawlStatus
    <3>2. CASE Create(r) \/ Resume(r) \/ Start(r) \/ End(r) \/ Cancel(r)
      <4>1. PICK s \in CrawlStatus : CrawlTo(r, s)
        BY <3>2 DEF Create, Resume, Start, End, Cancel, CrawlStatus
      <4> QED
        BY <4>1 DEF CrawlTo, Inv, CrawlInv
    <3> QED
      BY <1>3, <3>1, <3>2
  <2> QED
    BY <2>1, <2>2, StatusStep
<1> QED
  BY <1>1, <1>2, <1>3 DEF CrawlStep

LEMMA NextKeepsInv ==
    ASSUME Inv, [Next]_vars
    PROVE  Inv'
<1>1. CASE UNCHANGED vars
  BY <1>1, QuietStep DEF vars, crawls, Inv, ExecInv
<1>2. CASE \E r \in Runs : CrawlStep(r)
  BY <1>2, CrawlStepKeepsInv
<1>3. CASE \E o \in Ops : CreateOperation(o) \/ FallDue(o) \/ Schedule(o)
  BY <1>3, QuietStep DEF CreateOperation, FallDue, Schedule, Inv, ExecInv
<1>4. ASSUME NEW x \in Executors, ExecStep(x) \/ Fail(x) \/ Kill(x)
      PROVE  Inv'
  <2>1. CASE Select(x)
    BY <2>1, SelectStep
  <2>2. CASE Delete(x)
    BY <2>2, DeleteStep
  <2>3. CASE AlreadyDone(x) \/ Postpone(x) \/ Succeed(x) \/ LimitReached(x) \/ Fail(x) \/ Kill(x)
    <3>1. UNCHANGED crawls /\ Leave(x)
      BY <2>3 DEF AlreadyDone, Postpone, Succeed, LimitReached, Fail, Kill
    <3> QED
      BY <3>1, QuietStep DEF Leave, IdleExec, Inv, ExecInv
  <2> QED
    BY <1>4, <2>1, <2>2, <2>3 DEF ExecStep
<1>5. ASSUME NEW x \in Executors, NEW o \in Ops, Take(x, o) \/ Command(x, o)
      PROVE  Inv'
  <2>1. UNCHANGED crawls /\ Enter(x, o)
    BY <1>5 DEF Take, Command
  <2> QED
    BY <2>1, QuietStep DEF Enter, IdleExec, Inv, ExecInv
<1> QED
  BY <1>1, <1>2, <1>3, <1>4, <1>5 DEF Next

\* The invariant holds of every behaviour.
THEOREM InvHolds == Spec => []Inv
<1>1. Init => Inv
  BY InitInv
<1>2. Inv /\ [Next]_vars => Inv'
  BY NextKeepsInv
<1> QED
  BY <1>1, <1>2, PTL DEF Spec

\* Of every URL the newest location rows ever stored survive all executions
\* (element_location_candidate_ids).
THEOREM NewestKept == Spec => []NewestLocationsKept
<1>1. Inv => NewestLocationsKept
  BY DEF Inv, KeptInv, NewestLocationsKept, Newest, IsLocation
<1> QED
  BY <1>1, InvHolds, PTL

\* No execution deletes links of a run that carries evidence, or location rows
\* that show an issue (_protected_evidence_run_ids).
THEOREM EvidenceIsKept == Spec => []EvidenceKept
<1>1. Inv => EvidenceKept
  BY DEF Inv, KeptInv, EvidenceKept, IsLocation, IsLink
<1> QED
  BY <1>1, InvHolds, PTL

-----------------------------------------------------------------------------
(***************************************************************************)
(* The counters.  rows_deleted of an operation never exceeds the rows that *)
(* were stored, because a selection is deleted by the execution that holds *)
(* the locks and what is deleted is not stored again; the maintenance      *)
(* queue grows past its admission limit only by the tickets its workers    *)
(* give back; an execution ends at max_rows.                               *)
(***************************************************************************)
Working(o) == {x \in Executors \ Commands : exec[x].pc # "idle" /\ exec[x].op = o}

DeletedInv == \A o \in Ops : op[o].deleted + Cardinality(rows) <= Cardinality(written)

QueueInv == \A o \in Ops : queue[o] + Cardinality(Working(o)) <= Admission + Cardinality(Executors)

BatchInv ==
    \A x \in Executors :
        /\ exec[x].pc # "idle" => exec[x].op \in Ops
        /\ exec[x].pc = "deleting" =>
             /\ exec[x].ids \subseteq rows
             /\ exec[x].done + Cardinality(exec[x].ids) <= MaxRows
             /\ \A y \in Executors \ {x} : exec[y].pc # "deleting"

TypeInv == TypeOK /\ rows \subseteq written /\ DeletedInv /\ QueueInv /\ BatchInv

LEMMA FiniteConstants ==
    /\ IsFiniteSet(Rows) /\ IsFiniteSet(Ops)
    /\ \A S \in SUBSET Rows : IsFiniteSet(S) /\ Cardinality(S) \in 0 .. Cardinality(Rows)
    /\ \A S \in SUBSET Executors : IsFiniteSet(S) /\ Cardinality(S) \in 0 .. Cardinality(Executors)
<1>1. IsFiniteSet(Runs) /\ IsFiniteSet(Full)
  <2>1. IsFiniteSet(1 .. MaxRun)
    BY ConstantsAssumption, FS_Interval
  <2> QED
    BY <2>1, ConstantsAssumption, FS_Subset DEF Runs
<1>2. IsFiniteSet({"element_locations", "url_links"})
  <2>1. IsFiniteSet({"element_locations"} \cup {"url_links"})
    BY FS_Singleton, FS_Union
  <2> QED
    BY <2>1, {"element_locations", "url_links"} = {"element_locations"} \cup {"url_links"}, Zenon
<1>3. IsFiniteSet(Datasets)
  BY <1>2, ConstantsAssumption, FS_Subset
<1>4. IsFiniteSet(Runs \X Urls)
  BY <1>1, ConstantsAssumption, FS_Product
<1>5. IsFiniteSet(Ops)
  BY <1>1, <1>3, FS_Product DEF Ops
<1>6. IsFiniteSet(Rows)
  <2> DEFINE pairs == Datasets \X (Runs \X Urls)
             row == [q \in pairs |-> <<q[1], q[2][1], q[2][2]>>]
  <2>1. IsFiniteSet(pairs)
    BY <1>3, <1>4, FS_Product
  <2>2. row \in [pairs -> Rows]
    BY DEF Rows
  <2>3. ASSUME NEW r \in Rows
        PROVE  \E q \in pairs : row[q] = r
    <3>1. <<r[1], <<r[2], r[3]>>>> \in pairs /\ row[<<r[1], <<r[2], r[3]>>>>] = r
      BY DEF Rows
    <3> QED
      BY <3>1
  <2>4. row \in Surjection(pairs, Rows)
    BY <2>2, <2>3 DEF Surjection
  <2> QED
    BY <2>1, <2>4, FS_Surjection
<1> QED
  BY <1>5, <1>6, ConstantsAssumption, FS_Subset, FS_CardinalityType

\* The queue holds at least the jobs of each operation.
LEMMA TicketsOfOperation ==
    ASSUME NEW limit \in Nat, queue \in [Ops -> 0 .. limit], NEW o \in Ops
    PROVE  /\ Cardinality(Tickets) \in Nat
           /\ queue[o] <= Cardinality(Tickets)
<1>1. IsFiniteSet(Ops \X (1 .. limit))
  <2>1. IsFiniteSet(1 .. limit)
    BY FS_Interval
  <2> QED
    BY <2>1, FiniteConstants, FS_Product
<1>2. Tickets \subseteq Ops \X (1 .. limit)
  BY DEF Tickets
<1>3. IsFiniteSet(Tickets) /\ Cardinality(Tickets) \in Nat
  <2>1. IsFiniteSet(Tickets)
    BY <1>1, <1>2, FS_Subset
  <2> QED
    BY <2>1, FS_CardinalityType
<1>4. {o} \X (1 .. queue[o]) \subseteq Tickets
  BY DEF Tickets
<1>5. Cardinality({o} \X (1 .. queue[o])) = queue[o]
  <2>1. Cardinality({o}) = 1 /\ IsFiniteSet({o})
    BY FS_Singleton
  <2>2. Cardinality(1 .. queue[o]) = queue[o] /\ IsFiniteSet(1 .. queue[o])
    <3>1. queue[o] \in Nat
      OBVIOUS
    <3> QED
      BY <3>1, FS_Interval
  <2>3. Cardinality({o} \X (1 .. queue[o])) = Cardinality({o}) * Cardinality(1 .. queue[o])
    BY <2>1, <2>2, FS_Product, Zenon
  <2> QED
    BY <2>1, <2>2, <2>3
<1> QED
  BY <1>3, <1>4, <1>5, FS_Subset

LEMMA InitTypeInv == Init => TypeInv
<1> SUFFICES ASSUME Init PROVE TypeInv
  OBVIOUS
<1>1. TypeOK
  BY ConstantsAssumption, FiniteConstants
  DEF Init, TypeOK, IdleExec, NoOp, CrawlStatus, OpStatus
<1>2. DeletedInv /\ QueueInv
  <2>1. \A o \in Ops : Working(o) = {}
    BY DEF Init, Working, IdleExec
  <2> QED
    BY <2>1, ConstantsAssumption, FiniteConstants, FS_EmptySet DEF Init, DeletedInv, QueueInv
<1>3. BatchInv
  BY DEF Init, BatchInv, IdleExec
<1> QED
  BY <1>1, <1>2, <1>3 DEF Init, TypeInv

\* A crawl that creates, starts, ends or gets old touches its own row only.
LEMMA CrawlRowTyped ==
    ASSUME TypeInv, NEW r \in Runs,
           crawl' \in [Runs -> [status : CrawlStatus, left : 0 .. Retries, old : BOOLEAN]],
           UNCHANGED <<rows, found, written, op, queue, exec, faults>>
    PROVE  TypeInv'
BY DEF TypeInv, TypeOK, DeletedInv, QueueInv, BatchInv, Working

LEMMA DisjointUnion ==
    ASSUME NEW S, NEW T, IsFiniteSet(S), IsFiniteSet(T), S \cap T = {}
    PROVE  Cardinality(S \cup T) = Cardinality(S) + Cardinality(T)
<1>1. Cardinality(S \cup T) = Cardinality(S) + Cardinality(T) - Cardinality(S \cap T)
  BY FS_Union, Zenon
<1>2. Cardinality(S) \in Nat /\ Cardinality(T) \in Nat /\ Cardinality(S \cap T) = 0
  BY FS_CardinalityType, FS_EmptySet
<1> QED
  BY <1>1, <1>2

\* A visit adds the same rows to those that exist and those ever stored.
LEMMA VisitTyped ==
    ASSUME TypeInv, NEW r \in Runs, NEW u \in Urls, Visit(r, u)
    PROVE  TypeInv'
<1> DEFINE new == {row \in Rows : row[2] = r /\ row[3] = u}
<1>1. /\ rows' = rows \cup new /\ written' = written \cup new
      /\ found' \in {found, found \cup {<<r, u>>}}
      /\ new \cap written = {}
      /\ UNCHANGED <<crawl, op, queue, exec, faults>>
  BY DEF Visit
<1>2. new \subseteq Rows /\ rows \subseteq Rows /\ written \subseteq Rows /\ rows \subseteq written
  BY DEF TypeInv, TypeOK
<1>3. TypeOK' /\ (rows \subseteq written)'
  BY <1>1, <1>2 DEF TypeInv, TypeOK
<1>4. DeletedInv'
  <2> HIDE DEF new
  <2>1. IsFiniteSet(new) /\ IsFiniteSet(rows) /\ IsFiniteSet(written)
        /\ Cardinality(new) \in Nat /\ Cardinality(rows) \in Nat /\ Cardinality(written) \in Nat
    BY <1>2, FiniteConstants
  <2>2. rows \cap new = {} /\ written \cap new = {}
    BY <1>1, <1>2
  <2>4. Cardinality(rows \cup new) = Cardinality(rows) + Cardinality(new)
    BY <2>1, <2>2, DisjointUnion
  <2>5. Cardinality(written \cup new) = Cardinality(written) + Cardinality(new)
    BY <2>1, <2>2, DisjointUnion
  <2> QED
    BY <1>1, <2>1, <2>4, <2>5 DEF TypeInv, TypeOK, DeletedInv
<1>5. QueueInv' /\ BatchInv'
  BY <1>1 DEF TypeInv, QueueInv, BatchInv, Working
<1> QED
  BY <1>3, <1>4, <1>5 DEF TypeInv

LEMMA CrawlStepTyped ==
    ASSUME TypeInv, NEW r \in Runs, CrawlStep(r)
    PROVE  TypeInv'
<1>1. CASE \E u \in Urls : Visit(r, u)
  BY <1>1, VisitTyped
<1>2. CASE Age(r)
  <2>1. crawl' \in [Runs -> [status : CrawlStatus, left : 0 .. Retries, old : BOOLEAN]]
    <3>1. PICK before : before = crawl[r]
      OBVIOUS
    <3>2. /\ crawl \in [Runs -> [status : CrawlStatus, left : 0 .. Retries, old : BOOLEAN]]
          /\ before \in [status : CrawlStatus, left : 0 .. Retries, old : BOOLEAN]
      BY <3>1 DEF TypeInv, TypeOK
    <3>3. PICK row : row = [before EXCEPT !.old = TRUE]
      OBVIOUS
    <3>4. row \in [status : CrawlStatus, left : 0 .. Retries, old : BOOLEAN]
      BY <3>2, <3>3
    <3>5. crawl' = [crawl EXCEPT ![r] = row]
      BY <1>2, <3>1, <3>3 DEF Age
    <3> QED
      BY <3>2, <3>4, <3>5
  <2> QED
    BY <1>2, <2>1, CrawlRowTyped DEF Age
<1>3. CASE Retry(r)
  BY <1>3, ConstantsAssumption, CrawlRowTyped DEF Retry, TypeInv, TypeOK, CrawlStatus
<1>4. CASE Create(r) \/ Resume(r) \/ Start(r) \/ End(r) \/ Cancel(r)
  <2>1. PICK s \in CrawlStatus : CrawlTo(r, s)
    BY <1>4 DEF Create, Resume, Start, End, Cancel, CrawlStatus
  <2> QED
    BY <2>1, CrawlRowTyped DEF CrawlTo, TypeInv, TypeOK
<1> QED
  BY <1>1, <1>2, <1>3, <1>4 DEF CrawlStep

\* What the typed operations, the queue and the executions look like when a
\* step deletes nothing.
LEMMA NoDeleteTyped ==
    ASSUME TypeInv, UNCHANGED crawls,
           op' \in [Ops -> [status : OpStatus, due : BOOLEAN, deleted : 0 .. Cardinality(Rows)]],
           \A o \in Ops : op'[o].deleted = op[o].deleted,
           queue' \in [Ops -> Nat], QueueInv',
           exec' \in [Executors -> [pc : {"idle", "loop", "deleting", "limit"},
                                    op : Ops \cup {NoOp}, ids : SUBSET Rows, done : 0 .. MaxRows]],
           BatchInv', faults' \in 0 .. Faults
    PROVE  TypeInv'
<1>1. queue' \in [Ops -> 0 .. Admission + Cardinality(Executors)]
  <2>1. \A o \in Ops : Cardinality(Working(o)') \in Nat
    <3>1. \A o \in Ops : Working(o)' \subseteq Executors
      BY DEF Working
    <3> QED
      BY <3>1, FiniteConstants
  <2>2. Cardinality(Executors) \in Nat
    BY FiniteConstants
  <2>3. \A o \in Ops : queue'[o] \in 0 .. Admission + Cardinality(Executors)
    BY <2>1, <2>2, ConstantsAssumption DEF QueueInv
  <2> QED
    BY <2>3
<1>2. TypeOK' /\ (rows \subseteq written)'
  BY <1>1 DEF TypeInv, TypeOK, crawls
<1>3. DeletedInv'
  BY DEF TypeInv, DeletedInv, crawls
<1> QED
  BY <1>2, <1>3 DEF TypeInv

ExecType == [pc : {"idle", "loop", "deleting", "limit"},
             op : Ops \cup {NoOp}, ids : SUBSET Rows, done : 0 .. MaxRows]

\* An execution that ends leaves the workers; its ticket may come back.
LEMMA LeaveTyped ==
    ASSUME TypeInv, NEW x \in Executors, exec[x].pc # "idle", Leave(x), Retried(x) \/ UNCHANGED queue,
           UNCHANGED rows
    PROVE  queue' \in [Ops -> Nat] /\ QueueInv' /\ exec' \in [Executors -> ExecType] /\ BatchInv'
<1>1. exec' = [exec EXCEPT ![x] = IdleExec] /\ exec \in [Executors -> ExecType] /\ exec[x].op \in Ops
  BY DEF Leave, TypeInv, TypeOK, BatchInv, ExecType
<1>2. exec' \in [Executors -> ExecType] /\ BatchInv'
  BY <1>1, ConstantsAssumption DEF TypeInv, BatchInv, ExecType, IdleExec
<1>3. queue \in [Ops -> Nat] /\ queue' \in [Ops -> Nat]
  BY <1>1, ConstantsAssumption, FiniteConstants DEF TypeInv, TypeOK, Retried
<1>4. ASSUME NEW o \in Ops
      PROVE  queue'[o] + Cardinality(Working(o)') <= Admission + Cardinality(Executors)
  <2>1. Working(o)' = Working(o) \ {x}
    BY <1>1 DEF Working, IdleExec
  <2>2. IsFiniteSet(Working(o)) /\ Cardinality(Working(o)) \in Nat
    BY FiniteConstants DEF Working
  <2>3. Cardinality(Working(o)') =
          IF x \in Working(o) THEN Cardinality(Working(o)) - 1 ELSE Cardinality(Working(o))
    BY <2>1, <2>2, FS_RemoveElement
  <2>4. queue'[o] = queue[o] \/ (queue'[o] = queue[o] + 1 /\ x \in Working(o))
    BY <1>1, <1>3 DEF Retried, Working
  <2>5. queue[o] + Cardinality(Working(o)) <= Admission + Cardinality(Executors)
    BY DEF TypeInv, QueueInv
  <2>6. Cardinality(Executors) \in Nat /\ Admission \in Nat /\ queue[o] \in Nat
    BY <1>3, FiniteConstants, ConstantsAssumption
  <2> QED
    BY <2>2, <2>3, <2>4, <2>5, <2>6
<1> QED
  BY <1>2, <1>3, <1>4 DEF QueueInv

\* An execution that begins: a worker takes a ticket, a command needs none.
LEMMA EnterTyped ==
    ASSUME TypeInv, NEW x \in Executors, NEW o \in Ops, Take(x, o) \/ Command(x, o)
    PROVE  TypeInv'
<1>1. exec' = [exec EXCEPT ![x] = [IdleExec EXCEPT !.pc = "loop", !.op = o]]
      /\ exec \in [Executors -> ExecType] /\ exec[x].pc = "idle"
      /\ UNCHANGED <<crawls, op, faults>>
  BY DEF Take, Command, Enter, TypeInv, TypeOK, ExecType
<1>2. exec' \in [Executors -> ExecType] /\ BatchInv'
  <2>1. exec'[x] = [pc |-> "loop", op |-> o, ids |-> {}, done |-> 0]
        /\ \A y \in Executors \ {x} : exec'[y] = exec[y]
    BY <1>1 DEF IdleExec, ExecType
  <2>2. exec'[x] \in ExecType
    BY <2>1, ConstantsAssumption DEF ExecType
  <2>3. exec' \in [Executors -> ExecType]
    BY <1>1, <2>2
  <2>4. BatchInv'
    BY <1>1, <2>1 DEF TypeInv, BatchInv, crawls
  <2> QED
    BY <2>3, <2>4
<1>3. queue \in [Ops -> Nat] /\ queue' \in [Ops -> Nat]
  BY <1>1, ConstantsAssumption, FiniteConstants DEF TypeInv, TypeOK, Take, Command
<1>4. ASSUME NEW p \in Ops
      PROVE  queue'[p] + Cardinality(Working(p)') <= Admission + Cardinality(Executors)
  <2>1. Working(p)' = IF x \notin Commands /\ p = o THEN Working(p) \cup {x} ELSE Working(p)
    BY <1>1 DEF Working, IdleExec
  <2>2. IsFiniteSet(Working(p)) /\ Cardinality(Working(p)) \in Nat
    BY FiniteConstants DEF Working
  <2>3. Cardinality(Working(p)') \in Nat
        /\ Cardinality(Working(p)') <=
             Cardinality(Working(p)) + (IF x \notin Commands /\ p = o THEN 1 ELSE 0)
    <3>1. CASE x \notin Commands /\ p = o
      <4>1. Cardinality(Working(p) \cup {x}) =
              IF x \in Working(p) THEN Cardinality(Working(p)) ELSE Cardinality(Working(p)) + 1
        BY <2>2, FS_AddElement
      <4> QED
        BY <2>1, <2>2, <3>1, <4>1
    <3>2. CASE ~(x \notin Commands /\ p = o)
      BY <2>1, <2>2, <3>2
    <3> QED
      BY <3>1, <3>2
  <2>4. queue'[p] = IF x \notin Commands /\ p = o THEN queue[p] - 1 ELSE queue[p]
    BY <1>3 DEF Take, Command
  <2>5. queue[p] + Cardinality(Working(p)) <= Admission + Cardinality(Executors)
    BY DEF TypeInv, QueueInv
  <2>6. Cardinality(Executors) \in Nat /\ Admission \in Nat /\ queue[p] \in Nat
    BY <1>3, FiniteConstants, ConstantsAssumption
  <2> QED
    BY <2>2, <2>3, <2>4, <2>5, <2>6
<1>5. QueueInv'
  BY <1>4 DEF QueueInv
<1> QED
  BY <1>1, <1>2, <1>3, <1>5, NoDeleteTyped DEF TypeInv, TypeOK, ExecType

\* The operations of the scheduler: the queue grows only while it has room.
LEMMA OperationTyped ==
    ASSUME TypeInv, NEW o \in Ops, CreateOperation(o) \/ FallDue(o) \/ Schedule(o)
    PROVE  TypeInv'
<1>1. UNCHANGED <<crawls, exec, faults>>
  BY DEF CreateOperation, FallDue, Schedule
<1>2. op' \in [Ops -> [status : OpStatus, due : BOOLEAN, deleted : 0 .. Cardinality(Rows)]]
      /\ \A p \in Ops : op'[p].deleted = op[p].deleted
  <2>1. PICK s \in OpStatus, d \in BOOLEAN : op' = [op EXCEPT ![o].status = s, ![o].due = d]
    <3>1. CASE CreateOperation(o)
      BY <3>1 DEF CreateOperation, OpStatus
    <3>2. CASE Schedule(o)
      BY <3>2 DEF Schedule, Write, OpStatus
    <3>3. CASE FallDue(o)
      <4>1. op' = [op EXCEPT ![o].status = op[o].status, ![o].due = TRUE] /\ op[o].status \in OpStatus
        BY <3>3 DEF FallDue, TypeInv, TypeOK
      <4> QED
        BY <4>1
    <3> QED
      BY <3>1, <3>2, <3>3
  <2>2. op \in [Ops -> [status : OpStatus, due : BOOLEAN, deleted : 0 .. Cardinality(Rows)]]
    BY DEF TypeInv, TypeOK
  <2>3. op'[o] = [status |-> s, due |-> d, deleted |-> op[o].deleted]
        /\ \A p \in Ops \ {o} : op'[p] = op[p]
    BY <2>1, <2>2
  <2>4. op'[o] \in [status : OpStatus, due : BOOLEAN, deleted : 0 .. Cardinality(Rows)]
    BY <2>1, <2>2, <2>3
  <2> QED
    BY <2>1, <2>2, <2>3, <2>4
<1>3. queue \in [Ops -> 0 .. Admission + Cardinality(Executors)]
      /\ Admission + Cardinality(Executors) \in Nat /\ Admission \in Nat /\ Cardinality(Executors) \in Nat
  BY ConstantsAssumption, FiniteConstants DEF TypeInv, TypeOK
<1>4. queue' \in [Ops -> Nat]
  BY <1>3 DEF CreateOperation, FallDue, Schedule
<1>5. ASSUME NEW p \in Ops
      PROVE  queue'[p] + Cardinality(Working(p)') <= Admission + Cardinality(Executors)
  <2>1. Working(p)' = Working(p)
    BY <1>1 DEF Working
  <2>2. Cardinality(Working(p)) \in 0 .. Cardinality(Executors)
    BY FiniteConstants DEF Working
  <2>3. CASE UNCHANGED queue
    BY <2>1, <2>3 DEF TypeInv, QueueInv
  <2>4. CASE HasRoom /\ queue' = [queue EXCEPT ![o] = @ + 1]
    <3>1. Cardinality(Tickets) \in Nat /\ queue[o] <= Cardinality(Tickets)
      BY <1>3, TicketsOfOperation
    <3>2. queue[o] + 1 <= Admission
      BY <1>3, <2>4, <3>1 DEF HasRoom
    <3> QED
      BY <1>3, <2>1, <2>2, <2>4, <3>2 DEF TypeInv, QueueInv
  <2> QED
    BY <2>3, <2>4 DEF CreateOperation, FallDue, Schedule
<1>6. QueueInv' /\ BatchInv'
  BY <1>1, <1>5 DEF TypeInv, QueueInv, BatchInv, crawls
<1> QED
  BY <1>1, <1>2, <1>4, <1>6, NoDeleteTyped DEF TypeInv, TypeOK

LEMMA RoomFits ==
    ASSUME NEW done \in 0 .. MaxRows
    PROVE  Room(done) \in Nat /\ done + Room(done) <= MaxRows
<1>1. BatchSize \in Nat /\ MaxRows - done \in Nat /\ MaxRows \in Nat
  BY ConstantsAssumption
<1>2. \E m \in {BatchSize, MaxRows - done} : \A n \in {BatchSize, MaxRows - done} : m <= n
  BY <1>1
<1>3. Room(done) \in {BatchSize, MaxRows - done} /\ Room(done) <= MaxRows - done
  BY <1>1, <1>2 DEF Room, Min
<1> QED
  BY <1>1, <1>3

\* The selection is made under the locks, of rows that exist, no more than fit.
LEMMA SelectTyped ==
    ASSUME TypeInv, NEW x \in Executors, Select(x)
    PROVE  TypeInv'
<1>1. PICK ids \in SUBSET (LocationCandidates \cup LinkCandidates) :
        /\ Cardinality(ids) = Min({Cardinality(Candidates(exec[x].op[2])), Room(exec[x].done)})
        /\ exec' = [exec EXCEPT ![x].pc = "deleting", ![x].ids = ids]
  BY DEF Select, Candidates
<1>2. /\ UNCHANGED <<crawls, op, queue, faults>>
      /\ exec[x].pc = "loop" /\ exec \in [Executors -> ExecType]
      /\ \A y \in Executors : exec[y].pc # "deleting"
  BY DEF Select, Locked, TypeInv, TypeOK, ExecType
<1>3. ids \subseteq rows /\ rows \subseteq Rows
  BY DEF LocationCandidates, LinkCandidates, TypeInv, TypeOK
<1>4. exec'[x] = [pc |-> "deleting", op |-> exec[x].op, ids |-> ids, done |-> exec[x].done]
      /\ \A y \in Executors \ {x} : exec'[y] = exec[y]
  BY <1>1, <1>2 DEF ExecType
<1>5. exec'[x] \in ExecType /\ exec[x].done \in 0 .. MaxRows
  BY <1>2, <1>3, <1>4 DEF ExecType
<1>6. exec' \in [Executors -> ExecType]
  BY <1>1, <1>2, <1>5
<1>7. exec[x].done + Cardinality(ids) <= MaxRows
  <2>1. Candidates(exec[x].op[2]) \subseteq Rows
    BY <1>3 DEF Candidates, LocationCandidates, LinkCandidates
  <2>2. Cardinality(Candidates(exec[x].op[2])) \in Nat /\ Cardinality(ids) \in Nat
    BY <1>3, <2>1, FiniteConstants
  <2>3. Room(exec[x].done) \in Nat /\ exec[x].done + Room(exec[x].done) <= MaxRows
    BY <1>5, RoomFits
  <2> DEFINE a == Cardinality(Candidates(exec[x].op[2]))
             b == Room(exec[x].done)
  <2> HIDE DEF a, b
  <2>4. a \in Nat /\ b \in Nat /\ Cardinality(ids) = Min({a, b})
    BY <1>1, <2>2, <2>3 DEF a, b
  <2>5. \E m \in {a, b} : \A n \in {a, b} : m <= n
    BY <2>4
  <2>6. Min({a, b}) <= b
    BY <2>4, <2>5 DEF Min
  <2> QED
    BY <1>5, <2>2, <2>3, <2>4, <2>6, ConstantsAssumption DEF b
<1>8. BatchInv'
  BY <1>2, <1>3, <1>4, <1>7 DEF TypeInv, BatchInv, crawls
<1>9. QueueInv'
  <2>1. \A o \in Ops : Working(o)' = Working(o)
    BY <1>2, <1>4 DEF Working
  <2> QED
    BY <1>2, <2>1 DEF TypeInv, QueueInv
<1> QED
  BY <1>2, <1>6, <1>8, <1>9, ConstantsAssumption, FiniteConstants, NoDeleteTyped
  DEF TypeInv, TypeOK, ExecType

\* The batch leaves the rows and enters rows_deleted.
LEMMA DeleteTyped ==
    ASSUME TypeInv, NEW x \in Executors, Delete(x)
    PROVE  TypeInv'
<1> DEFINE o == exec[x].op
           ids == exec[x].ids
           done == exec[x].done + Cardinality(ids)
<1>1. exec \in [Executors -> ExecType] /\ exec[x].pc = "deleting" /\ UNCHANGED <<crawl, found, written, queue, faults>>
  BY DEF Delete, TypeInv, TypeOK, ExecType
<1>2. o \in Ops /\ ids \subseteq rows /\ done <= MaxRows /\ \A y \in Executors \ {x} : exec[y].pc # "deleting"
  BY <1>1 DEF TypeInv, BatchInv
<1>3. rows \subseteq Rows /\ written \subseteq Rows /\ rows \subseteq written
  BY DEF TypeInv, TypeOK
<1>4. /\ IsFiniteSet(rows) /\ IsFiniteSet(ids)
      /\ Cardinality(ids) \in Nat /\ Cardinality(rows) \in Nat /\ Cardinality(rows \ ids) \in Nat
      /\ Cardinality(written) \in 0 .. Cardinality(Rows) /\ Cardinality(Rows) \in Nat
  <2>1. ids \subseteq Rows /\ rows \ ids \subseteq Rows
    BY <1>2, <1>3
  <2> QED
    BY <1>3, <2>1, FiniteConstants
<1>5. exec'[x] = [pc |-> IF done < MaxRows THEN "loop" ELSE "limit", op |-> o, ids |-> {}, done |-> done]
      /\ \A y \in Executors \ {x} : exec'[y] = exec[y]
  BY <1>1 DEF Delete
<1>6. exec' \in [Executors -> ExecType]
  <2>1. done \in 0 .. MaxRows
    BY <1>1, <1>2, <1>4, ConstantsAssumption DEF ExecType
  <2>2. exec'[x] \in ExecType
    BY <1>2, <1>5, <2>1 DEF ExecType
  <2> QED
    BY <1>1, <2>2 DEF Delete
<1>7. rows' = rows \ ids
  BY DEF Delete
<1>8. Cardinality(rows') = Cardinality(rows) - Cardinality(ids)
  <2>1. Cardinality(rows \ ids) = Cardinality(rows) - Cardinality(rows \cap ids)
    BY <1>4, FS_Difference
  <2>2. rows \cap ids = ids
    BY <1>2
  <2> QED
    BY <1>7, <2>1, <2>2
<1>9. /\ op'[o] = [status |-> "running", due |-> FALSE, deleted |-> op[o].deleted + Cardinality(ids)]
      /\ \A p \in Ops \ {o} : op'[p] = op[p]
      /\ DOMAIN op' = Ops
      /\ op' = [op EXCEPT ![o] = op'[o]]
  BY <1>2 DEF Delete, TypeInv, TypeOK
<1>10. DeletedInv'
  <2> SUFFICES ASSUME NEW p \in Ops
      PROVE  op'[p].deleted + Cardinality(rows') <= Cardinality(written)
    BY <1>1 DEF DeletedInv
  <2>1. op[p].deleted \in Nat /\ op[p].deleted + Cardinality(rows) <= Cardinality(written)
    BY <1>4 DEF TypeInv, TypeOK, DeletedInv
  <2>2. op'[p].deleted \in {op[p].deleted, op[p].deleted + Cardinality(ids)}
    BY <1>9
  <2> QED
    BY <1>4, <1>8, <2>1, <2>2
<1>11. op' \in [Ops -> [status : OpStatus, due : BOOLEAN, deleted : 0 .. Cardinality(Rows)]]
  <2>1. op[o].deleted \in Nat
    BY <1>2, <1>4 DEF TypeInv, TypeOK
  <2>2. op'[o].deleted \in 0 .. Cardinality(Rows)
    <3>1. op'[o].deleted + Cardinality(rows') <= Cardinality(written)
      BY <1>1, <1>2, <1>10 DEF DeletedInv
    <3>2. Cardinality(rows') \in Nat /\ op'[o].deleted \in Nat
      BY <1>4, <1>7, <1>9, <2>1
    <3> QED
      BY <1>4, <3>1, <3>2
  <2>3. op'[o] \in [status : OpStatus, due : BOOLEAN, deleted : 0 .. Cardinality(Rows)]
    BY <1>9, <2>2 DEF OpStatus
  <2> QED
    BY <1>2, <1>9, <2>3 DEF TypeInv, TypeOK
<1>12. QueueInv'
  <2>1. \A p \in Ops : Working(p)' = Working(p)
    BY <1>1, <1>5 DEF Working
  <2> QED
    BY <1>1, <2>1 DEF TypeInv, QueueInv
<1>13. BatchInv'
  BY <1>1, <1>2, <1>5 DEF TypeInv, BatchInv
<1>14. TypeOK' /\ (rows \subseteq written)'
  BY <1>1, <1>3, <1>6, <1>7, <1>11 DEF TypeInv, TypeOK, ExecType
<1> QED
  BY <1>10, <1>12, <1>13, <1>14 DEF TypeInv

\* An execution that ends without deleting: it may write a status.
LEMMA EndTyped ==
    ASSUME TypeInv, NEW x \in Executors,
           AlreadyDone(x) \/ Postpone(x) \/ Succeed(x) \/ LimitReached(x) \/ Fail(x) \/ Kill(x)
    PROVE  TypeInv'
<1>1. exec[x].pc # "idle" /\ Leave(x) /\ (Retried(x) \/ UNCHANGED queue) /\ UNCHANGED crawls
  BY DEF AlreadyDone, Postpone, Succeed, LimitReached, Fail, Kill
<1>2. queue' \in [Ops -> Nat] /\ QueueInv' /\ exec' \in [Executors -> ExecType] /\ BatchInv'
  BY <1>1, LeaveTyped DEF crawls
<1>3. exec[x].op \in Ops
  BY <1>1 DEF TypeInv, BatchInv
<1>4. op' \in [Ops -> [status : OpStatus, due : BOOLEAN, deleted : 0 .. Cardinality(Rows)]]
      /\ \A o \in Ops : op'[o].deleted = op[o].deleted
  <2>1. CASE UNCHANGED op
    BY <2>1 DEF TypeInv, TypeOK
  <2>2. CASE \E s \in OpStatus : Write(exec[x].op, s)
    BY <1>3, <2>2 DEF Write, TypeInv, TypeOK
  <2> QED
    BY <2>1, <2>2 DEF AlreadyDone, Postpone, Succeed, LimitReached, Fail, Kill, OpStatus
<1>5. faults' \in 0 .. Faults
  BY ConstantsAssumption DEF AlreadyDone, Postpone, Succeed, LimitReached, Fail, Kill, TypeInv, TypeOK
<1> QED
  BY <1>1, <1>2, <1>4, <1>5, NoDeleteTyped DEF ExecType

LEMMA NextTyped ==
    ASSUME TypeInv, [Next]_vars
    PROVE  TypeInv'
<1>1. CASE UNCHANGED vars
  BY <1>1 DEF vars, TypeInv, TypeOK, DeletedInv, QueueInv, BatchInv, Working
<1>2. CASE \E r \in Runs : CrawlStep(r)
  BY <1>2, CrawlStepTyped
<1>3. CASE \E o \in Ops : CreateOperation(o) \/ FallDue(o) \/ Schedule(o)
  BY <1>3, OperationTyped
<1>4. CASE \E x \in Executors : ExecStep(x) \/ Fail(x) \/ Kill(x)
  BY <1>4, SelectTyped, DeleteTyped, EndTyped DEF ExecStep
<1>5. CASE \E x \in Executors, o \in Ops : Take(x, o) \/ Command(x, o)
  BY <1>5, EnterTyped
<1> QED
  BY <1>1, <1>2, <1>3, <1>4, <1>5 DEF Next

\* Every variable keeps its type; in particular rows_deleted never exceeds the
\* rows ever stored, an execution stays below max_rows, and the queue exceeds
\* admission_backlog by no more than the tickets its workers give back
\* (execute_retention_operation, _enqueue).
THEOREM TypeCorrect == Spec => []TypeOK
<1>1. Init => TypeInv
  BY InitTypeInv
<1>2. TypeInv /\ [Next]_vars => TypeInv'
  BY NextTyped
<1>3. TypeInv => TypeOK
  BY DEF TypeInv
<1> QED
  BY <1>1, <1>2, <1>3, PTL DEF Spec
=============================================================================
