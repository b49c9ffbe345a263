--------------------------- MODULE Services_proofs ---------------------------
(***************************************************************************)
(* Proofs about Services, for any queues, questions, URLs and worlds.      *)
(***************************************************************************)
EXTENDS Services, FiniteSetTheorems, TLAPS

LEMMA ExceptSequence ==
    ASSUME NEW S, NEW s \in Seq(S), NEW i \in DOMAIN s, NEW e \in S
    PROVE  /\ [s EXCEPT ![i] = e] \in Seq(S) /\ Len([s EXCEPT ![i] = e]) = Len(s)
           /\ DOMAIN s = 1..Len(s) /\ Len(s) \in Nat
OBVIOUS

-----------------------------------------------------------------------------
(***************************************************************************)
(* Onboarding.  A check holds the locks, so what it read of the website is *)
(* still so when the file is found, unless the website was patched.        *)
(***************************************************************************)

OnboardingRows ==
    /\ site \in [url : Urls, active : BOOLEAN, patched : BOOLEAN]
    /\ onboarding \in [status : OnboardingStatuses, crawl : Nat]
    /\ proof \in [status : {"pending", "verified", "expired"}, token : Nat, due : BOOLEAN]
    /\ firstJobs \in Seq(JobStatuses)

ProofInv ==
    /\ OnboardingRows
    /\ ~Started => proof.status # "verified" /\ checking = {}
    /\ proof.status = "verified" => checking = {}
    /\ \A u \in checking : site.patched \/ u = site.url
    /\ onboarding.crawl <= Len(firstJobs)
    /\ CrawlIsProven

LEMMA ProofInitInv == OnboardingInit => ProofInv
<1> SUFFICES ASSUME OnboardingInit PROVE ProofInv
  OBVIOUS
<1>1. OnboardingRows
  BY OnboardingAssumption DEF OnboardingInit, OnboardingRows, OnboardingStatuses
<1> QED
  BY <1>1 DEF OnboardingInit, ProofInv, Started, CrawlIsProven

\* The requests that change the website or its details.
LEMMA SiteStepInv ==
    ASSUME ProofInv, NEW u \in Urls, NEW active \in BOOLEAN,
           StartOnboarding(u) \/ ChangeDetails(u) \/ Patch(u, active)
    PROVE  ProofInv'
<1> USE DEF ProofInv, OnboardingRows, Started, CrawlIsProven, OnboardingStatuses
<1>1. CASE StartOnboarding(u)
  <2>1. OnboardingRows'
    BY <1>1 DEF StartOnboarding
  <2> QED
    BY <1>1, <2>1 DEF StartOnboarding
<1>2. CASE ChangeDetails(u)
  BY <1>2 DEF ChangeDetails, Unlocked
<1>3. CASE Patch(u, active)
  BY <1>3 DEF Patch
<1> QED
  BY <1>1, <1>2, <1>3

\* The file and its check.
LEMMA CheckStepInv ==
    ASSUME ProofInv,
           \/ FileExpires \/ Renew \/ CheckExpired \/ CheckBegins \/ CheckFails \/ AskCrawl
           \/ \E u \in checking : CheckSucceeds(u)
           \/ \E u \in Urls, token \in 0..Tokens : PlaceFile(u, token)
    PROVE  ProofInv'
<1> USE DEF ProofInv, OnboardingRows, Started, CrawlIsProven, OnboardingStatuses
<1>1. CASE FileExpires \/ CheckExpired
  BY <1>1 DEF FileExpires, CheckExpired, Unlocked
<1>2. CASE Renew
  <2>1. proof' \in [status : {"pending", "verified", "expired"}, token : Nat, due : BOOLEAN]
    BY <1>2 DEF Renew
  <2> QED
    BY <1>2, <2>1 DEF Renew, Unlocked
<1>3. CASE CheckBegins \/ CheckFails \/ AskCrawl
  BY <1>3 DEF CheckBegins, CheckFails, AskCrawl, Unlocked
<1>4. CASE \E u \in checking : CheckSucceeds(u)
  BY <1>4 DEF CheckSucceeds
<1>5. CASE \E u \in Urls, token \in 0..Tokens : PlaceFile(u, token)
  BY <1>5 DEF PlaceFile
<1> QED
  BY <1>1, <1>2, <1>3, <1>4, <1>5

\* The first crawl: its job is made of a verified website only.
LEMMA CrawlStepInv ==
    ASSUME ProofInv,
           StartCrawl \/ RetryCrawl \/ Reconcile \/ \E j \in DOMAIN firstJobs : JobMoves(j)
    PROVE  ProofInv'
<1> USE DEF ProofInv, OnboardingRows, Started, CrawlIsProven, OnboardingStatuses, JobStatuses
<1>1. CASE StartCrawl
  <2>1. CASE proof.status = "verified"
    <3>1. PICK queued \in {"pending", "waiting_for_capacity"} :
            /\ firstJobs' = Append(firstJobs, queued)
            /\ onboarding' = [status |-> "crawl_queued", crawl |-> Len(firstJobs) + 1]
      BY <1>1, <2>1 DEF StartCrawl
    <3>2. firstJobs' \in Seq(JobStatuses) /\ Len(firstJobs') = Len(firstJobs) + 1
      BY <3>1
    <3>3. UNCHANGED <<site, proof, checking, proven>>
      BY <1>1 DEF StartCrawl
    <3> QED
      BY <2>1, <3>1, <3>2, <3>3
  <2>2. CASE proof.status # "verified"
    BY <1>1, <2>2 DEF StartCrawl
  <2> QED
    BY <2>1, <2>2
<1>2. CASE RetryCrawl
  <2>1. onboarding.crawl \in 1..Len(firstJobs) /\ UNCHANGED <<site, proof, checking, proven>>
    BY <1>2 DEF RetryCrawl
  <2>2. PICK queued \in {"pending", "waiting_for_capacity"} :
          firstJobs' = [firstJobs EXCEPT ![onboarding.crawl] = queued]
    BY <1>2 DEF RetryCrawl
  <2>3. firstJobs' \in Seq(JobStatuses) /\ Len(firstJobs') = Len(firstJobs) /\ Len(firstJobs) > 0
    BY <2>1, <2>2, ExceptSequence
  <2>4. onboarding' = [onboarding EXCEPT !.status = "crawl_queued"]
    BY <1>2 DEF RetryCrawl
  <2> QED
    BY <2>1, <2>3, <2>4
<1>3. CASE Reconcile
  <2>1. PICK shown \in {"completed", "failed", "crawl_queued"} :
          onboarding' = [onboarding EXCEPT !.status = shown]
    BY <1>3 DEF Reconcile, Shown
  <2>2. UNCHANGED <<site, proof, firstJobs, checking, proven>>
    BY <1>3 DEF Reconcile
  <2>3. /\ onboarding' \in [status : OnboardingStatuses, crawl : Nat]
        /\ onboarding'.crawl = onboarding.crawl /\ onboarding'.status # "none"
    BY <2>1
  <2> QED
    BY <2>2, <2>3
<1>4. CASE \E j \in DOMAIN firstJobs : JobMoves(j)
  <2>1. PICK j \in DOMAIN firstJobs : JobMoves(j)
    BY <1>4
  <2>2. PICK to \in JobStatuses : firstJobs' = [firstJobs EXCEPT ![j] = to]
    <3>1. CASE firstJobs[j] = "waiting_for_capacity"
      BY <2>1, <3>1 DEF JobMoves
    <3>2. CASE firstJobs[j] = "pending"
      BY <2>1, <3>2 DEF JobMoves
    <3>3. CASE firstJobs[j] = "running"
      BY <2>1, <3>3 DEF JobMoves
    <3> QED
      BY <2>1, <3>1, <3>2, <3>3 DEF JobMoves
  <2>3. firstJobs' \in Seq(JobStatuses) /\ Len(firstJobs') = Len(firstJobs) /\ Len(firstJobs) > 0
    BY <2>1, <2>2, ExceptSequence
  <2> QED
    BY <2>1, <2>3 DEF JobMoves
<1> QED
  BY <1>1, <1>2, <1>3, <1>4

LEMMA ProofNextInv == ProofInv /\ [Next]_vars => ProofInv'
<1> SUFFICES ASSUME ProofInv, [Next]_vars PROVE ProofInv'
  OBVIOUS
<1>1. CASE OnboardingStep
  BY <1>1, SiteStepInv, CheckStepInv, CrawlStepInv DEF OnboardingStep
<1>2. CASE UNCHANGED onboardingVars
  BY <1>2 DEF onboardingVars, ProofInv, OnboardingRows, Started, CrawlIsProven
<1> QED
  BY <1>1, <1>2 DEF Next, OnboardingNext, vars

\* A first crawl has the proof of its owner behind it.
THEOREM FirstCrawlIsProven == Spec => []CrawlIsProven
<1>1. Init => ProofInv
  BY ProofInitInv DEF Init
<1>2. ProofInv => CrawlIsProven
  BY DEF ProofInv
<1> QED
  BY <1>1, <1>2, ProofNextInv, PTL DEF Spec

-----------------------------------------------------------------------------
(***************************************************************************)
(* The queues.  Evidence jobs are jobs of stored requests, and only the    *)
(* queue "integrations" has them.                                          *)
(***************************************************************************)

Elements(s) == {s[i] : i \in DOMAIN s}

IsSequence(s) == \E S : s \in Seq(S)

JobsOf(q) == Elements(queue[q]) \union later[q] \union worker[q].job

JobShape(j) == DOMAIN j = {"kind", "of", "since", "left"}

\* The worker of a queue is idle, or has one job.
WorkerShape(w) ==
    /\ {"job", "at"} \subseteq DOMAIN w
    /\ IF w.at = "idle" THEN w.job = {} ELSE \E j : w.job = {j}

RqInv ==
    /\ DOMAIN queue = Queues /\ DOMAIN later = Queues /\ DOMAIN worker = Queues
    /\ \A q \in Queues : IsSequence(queue[q]) /\ WorkerShape(worker[q])
    /\ \A q \in Queues : \A j \in JobsOf(q) : JobShape(j)

\* A job about row r, as far as evidence is concerned.
IsEvidence(j, r) == j.kind = "evidence" /\ j.of = r

\* What the worker of q does with evidence, once it has claimed the request.
EvidenceWork(w) == w.at \in {"claimed", "answered", "lost"} /\ \E j \in w.job : j.kind = "evidence"

\* A step that brings no evidence job and moves no worker of evidence.
Frame ==
    /\ RqInv'
    /\ \A q \in Queues : \A j \in JobsOf(q)' :
          j.kind = "evidence" => \E k \in JobsOf(q) : IsEvidence(k, j.of)
    /\ \A q \in Queues : EvidenceWork(worker'[q]) => worker'[q] = worker[q]

LEMMA AppendElements ==
    ASSUME NEW s, IsSequence(s), NEW e
    PROVE  IsSequence(Append(s, e)) /\ Elements(Append(s, e)) = Elements(s) \union {e}
<1>1. PICK S : s \in Seq(S)
  BY DEF IsSequence
<1> DEFINE T == S \union {e}
<1>2. s \in Seq(T)
  BY <1>1
<1>3. /\ Append(s, e) \in Seq(T) /\ Len(Append(s, e)) = Len(s) + 1
      /\ \A i \in 1..Len(s) : Append(s, e)[i] = s[i]
      /\ Append(s, e)[Len(s) + 1] = e
      /\ DOMAIN s = 1..Len(s) /\ DOMAIN Append(s, e) = 1..(Len(s) + 1) /\ Len(s) \in Nat
  BY <1>2
<1>4. Elements(Append(s, e)) = Elements(s) \union {e}
  <2>1. 1..(Len(s) + 1) = 1..Len(s) \union {Len(s) + 1}
    BY <1>3
  <2> QED
    BY <1>3, <2>1 DEF Elements
<1> QED
  BY <1>3, <1>4 DEF IsSequence

LEMMA TailElements ==
    ASSUME NEW s, IsSequence(s), s # <<>>
    PROVE  /\ IsSequence(Tail(s)) /\ Elements(Tail(s)) \subseteq Elements(s)
           /\ Head(s) \in Elements(s)
<1>1. PICK S : s \in Seq(S)
  BY DEF IsSequence
<1>2. /\ Len(s) \in Nat /\ Len(s) > 0 /\ DOMAIN s = 1..Len(s)
      /\ Tail(s) \in Seq(S) /\ Len(Tail(s)) = Len(s) - 1
      /\ DOMAIN Tail(s) = 1..(Len(s) - 1)
      /\ \A i \in 1..(Len(s) - 1) : Tail(s)[i] = s[i + 1]
      /\ Head(s) = s[1]
  BY <1>1
<1>3. Head(s) \in Elements(s)
  BY <1>2 DEF Elements
<1>4. ASSUME NEW i \in 1..(Len(s) - 1)
      PROVE  Tail(s)[i] \in Elements(s)
  BY <1>2 DEF Elements
<1> QED
  BY <1>2, <1>3, <1>4 DEF Elements, IsSequence

LEMMA HeadOrTail ==
    ASSUME NEW s, IsSequence(s), s # <<>>
    PROVE  Elements(s) \subseteq Elements(Tail(s)) \union {Head(s)}
<1>1. PICK S : s \in Seq(S)
  BY DEF IsSequence
<1>2. /\ Len(s) \in Nat /\ Len(s) > 0 /\ DOMAIN s = 1..Len(s)
      /\ DOMAIN Tail(s) = 1..(Len(s) - 1)
      /\ \A i \in 1..(Len(s) - 1) : Tail(s)[i] = s[i + 1]
      /\ Head(s) = s[1]
  BY <1>1
<1>3. ASSUME NEW i \in 1..Len(s), i # 1
      PROVE  s[i] \in Elements(Tail(s))
  <2>1. i - 1 \in 1..(Len(s) - 1) /\ (i - 1) + 1 = i
    BY <1>2, <1>3
  <2>2. Tail(s)[i - 1] = s[i]
    BY <1>2, <2>1
  <2> QED
    BY <1>2, <2>1, <2>2 DEF Elements
<1> QED
  BY <1>2, <1>3 DEF Elements

\* One queue changes: what is new in it is of another kind, or was there before.
LEMMA OneQueue ==
    ASSUME RqInv, NEW q,
           DOMAIN queue' = Queues, DOMAIN later' = Queues, DOMAIN worker' = Queues,
           \A x \in Queues \ {q} :
              queue'[x] = queue[x] /\ later'[x] = later[x] /\ worker'[x] = worker[x],
           q \in Queues =>
              /\ IsSequence(queue'[q]) /\ WorkerShape(worker'[q])
              /\ \A j \in JobsOf(q)' : JobShape(j)
              /\ \A j \in JobsOf(q)' :
                    j.kind = "evidence" => \E k \in JobsOf(q) : IsEvidence(k, j.of)
              /\ EvidenceWork(worker'[q]) => worker'[q] = worker[q]
    PROVE  Frame
<1>1. \A x \in Queues \ {q} : JobsOf(x)' = JobsOf(x)
  BY DEF JobsOf
<1>2. RqInv'
  BY <1>1 DEF RqInv
<1>3. \A x \in Queues \ {q} : \A j \in JobsOf(x)' :
         j.kind = "evidence" => \E k \in JobsOf(x) : IsEvidence(k, j.of)
  BY <1>1 DEF IsEvidence
<1> QED
  BY <1>2, <1>3 DEF Frame

LEMMA StutterFrame ==
    ASSUME RqInv, UNCHANGED rqVars
    PROVE  Frame
<1>1. \A x \in Queues : JobsOf(x)' = JobsOf(x)
  BY DEF JobsOf, rqVars
<1>2. RqInv'
  BY <1>1 DEF RqInv, rqVars
<1> QED
  BY <1>1, <1>2 DEF Frame, IsEvidence, rqVars

\* A job is appended.
LEMMA AppendFrame ==
    ASSUME RqInv, NEW q, NEW j, JobShape(j), UNCHANGED <<later, worker>>,
           queue' = [queue EXCEPT ![q] = Append(@, j)],
           j.kind = "evidence" /\ q \in Queues => \E k \in JobsOf(q) : IsEvidence(k, j.of)
    PROVE  Frame
<1>1. /\ DOMAIN queue' = Queues
      /\ \A x \in Queues \ {q} : queue'[x] = queue[x]
  BY DEF RqInv
<1>2. ASSUME q \in Queues
      PROVE  /\ IsSequence(queue'[q]) /\ Elements(queue'[q]) = Elements(queue[q]) \union {j}
             /\ JobsOf(q)' = JobsOf(q) \union {j}
  <2>1. queue'[q] = Append(queue[q], j) /\ IsSequence(queue[q])
    BY <1>2 DEF RqInv
  <2>2. IsSequence(queue'[q]) /\ Elements(queue'[q]) = Elements(queue[q]) \union {j}
    BY <2>1, AppendElements
  <2> QED
    BY <2>2 DEF JobsOf, Elements
<1> QED
  BY <1>1, <1>2, OneQueue DEF RqInv, IsEvidence

LEMMA NewJobShape ==
    ASSUME NEW kind, NEW of
    PROVE  JobShape(NewJob(kind, of)) /\ NewJob(kind, of).kind = kind /\ NewJob(kind, of).of = of
BY DEF JobShape, NewJob

LEMMA EnqueueFrame ==
    ASSUME RqInv, NEW q, NEW kind, kind # "evidence", NEW of, Enqueue(q, kind, of)
    PROVE  Frame
<1>1. PICK j : JobShape(j) /\ j.kind = kind /\ j = NewJob(kind, of)
  BY NewJobShape
<1> QED
  BY <1>1, AppendFrame DEF Enqueue

\* The only job of a worker that is not idle.
LEMMA CurrentFacts ==
    ASSUME RqInv, NEW q \in Queues, worker[q].at # "idle"
    PROVE  /\ worker[q].job = {Current(q)} /\ Current(q) \in JobsOf(q) /\ JobShape(Current(q))
           /\ {"job", "at"} \subseteq DOMAIN worker[q]
<1>1. PICK j : worker[q].job = {j}
  BY DEF RqInv, WorkerShape
<1>2. Current(q) = j
  BY <1>1 DEF Current
<1> QED
  BY <1>1, <1>2 DEF RqInv, JobsOf, WorkerShape

\* The worker goes on with its job.
LEMMA GoesFrame ==
    ASSUME RqInv, NEW q \in Queues, worker[q].at # "idle", NEW to, Goes(q, to),
           {"job", "at"} \subseteq DOMAIN to, to.job = worker[q].job, to.at # "idle",
           Current(q).kind # "evidence" \/ to.at \notin {"claimed", "answered", "lost"}
    PROVE  Frame
<1>1. /\ worker' = [worker EXCEPT ![q] = to] /\ UNCHANGED <<queue, later>>
  BY DEF Goes
<1>2. worker[q].job = {Current(q)}
  BY CurrentFacts
<1>3. worker'[q] = to /\ DOMAIN worker' = Queues /\ \A x \in Queues \ {q} : worker'[x] = worker[x]
  BY <1>1 DEF RqInv
<1>4. JobsOf(q)' = JobsOf(q)
  BY <1>1, <1>3 DEF JobsOf
<1>5. WorkerShape(to) /\ ~EvidenceWork(to)
  BY <1>2 DEF WorkerShape, EvidenceWork
<1>6. \A j \in JobsOf(q)' : JobShape(j)
  BY <1>4 DEF RqInv
<1> QED
  BY <1>1, <1>3, <1>4, <1>5, <1>6, OneQueue DEF RqInv, IsEvidence

LEMMA GoesToFrame ==
    ASSUME RqInv, NEW q \in Queues, worker[q].at # "idle", NEW at, at # "idle", GoesTo(q, at),
           Current(q).kind # "evidence" \/ at \notin {"claimed", "answered", "lost"}
    PROVE  Frame
<1> DEFINE to == [worker[q] EXCEPT !.at = at]
<1>1. {"job", "at"} \subseteq DOMAIN to /\ to.job = worker[q].job /\ to.at = at
  BY CurrentFacts
<1>2. Goes(q, to)
  BY DEF GoesTo
<1> HIDE DEF to
<1> QED
  BY <1>1, <1>2, GoesFrame

\* The worker lets its job go: done, to be tried again, or a dead letter.
LEMMA ReleaseFrame ==
    ASSUME RqInv, NEW q \in Queues, worker[q].at # "idle", JobDone(q) \/ JobFails(q)
    PROVE  Frame
<1> DEFINE j == Current(q)
           again == [j EXCEPT !.left = @ - 1]
<1>1. JobShape(j) /\ j \in JobsOf(q)
  BY CurrentFacts
<1>2. JobShape(again) /\ again.kind = j.kind /\ again.of = j.of
  BY <1>1 DEF JobShape
<1>3. /\ worker' = [worker EXCEPT ![q] = Idle] /\ UNCHANGED queue
      /\ \/ later' = later
         \/ later' = [later EXCEPT ![q] = @]
         \/ later' = [later EXCEPT ![q] = @ \union {again}]
  BY DEF JobDone, JobFails
<1>4. /\ DOMAIN worker' = Queues /\ worker'[q] = Idle /\ DOMAIN later' = Queues
      /\ later'[q] = later[q] \/ later'[q] = later[q] \union {again}
      /\ \A x \in Queues \ {q} : worker'[x] = worker[x] /\ later'[x] = later[x]
  BY <1>3 DEF RqInv
<1>5. WorkerShape(Idle) /\ Idle.job = {} /\ ~EvidenceWork(Idle)
  BY DEF WorkerShape, Idle, EvidenceWork
<1>6. \A k \in JobsOf(q)' : k \in JobsOf(q) \/ k = again
  BY <1>3, <1>4, <1>5 DEF JobsOf
<1> HIDE DEF j, again
<1>7. \A k \in JobsOf(q)' : JobShape(k) /\ \E l \in JobsOf(q) : l.kind = k.kind /\ l.of = k.of
  BY <1>1, <1>2, <1>6 DEF RqInv
<1> QED
  BY <1>3, <1>4, <1>5, <1>7, OneQueue DEF RqInv, IsEvidence

LEMMA RqFrame ==
    ASSUME RqInv, RqNext
    PROVE  Frame
<1>1. CASE Tick
  BY <1>1, StutterFrame DEF Tick
<1>2. ASSUME NEW q \in Queues, Take(q) PROVE Frame
  <2> DEFINE to == [job |-> {Head(queue[q])}, at |-> "begin"]
  <2>1. /\ queue[q] # <<>> /\ IsSequence(queue[q]) /\ worker[q].job = {}
        /\ worker' = [worker EXCEPT ![q] = to]
        /\ queue' = [queue EXCEPT ![q] = Tail(@)] /\ UNCHANGED later
    BY <1>2 DEF Take, At, RqInv, WorkerShape
  <2>2. /\ IsSequence(Tail(queue[q])) /\ Elements(Tail(queue[q])) \subseteq Elements(queue[q])
        /\ Head(queue[q]) \in Elements(queue[q])
    BY <2>1, TailElements
  <2>3. /\ DOMAIN worker' = Queues /\ worker'[q] = to
        /\ DOMAIN queue' = Queues /\ queue'[q] = Tail(queue[q])
        /\ \A x \in Queues \ {q} : worker'[x] = worker[x] /\ queue'[x] = queue[x]
    BY <2>1 DEF RqInv
  <2>4. WorkerShape(to) /\ ~EvidenceWork(to) /\ to.job = {Head(queue[q])}
    BY DEF WorkerShape, EvidenceWork
  <2>5. JobsOf(q)' \subseteq JobsOf(q)
    <3>1. later'[q] = later[q]
      BY <2>1
    <3> QED
      BY <2>2, <2>3, <2>4, <3>1 DEF JobsOf
  <2> QED
    BY <2>1, <2>2, <2>3, <2>4, <2>5, OneQueue DEF RqInv, IsEvidence
<1>3. ASSUME NEW q \in Queues, Finish(q) \/ WorkerDies(q) PROVE Frame
  BY <1>3, ReleaseFrame DEF Finish, WorkerDies, At
<1>4. ASSUME NEW q \in Queues, NEW j \in later[q], NextAttempt(q, j) PROVE Frame
  <2>1. JobShape(j) /\ j \in JobsOf(q) /\ IsSequence(queue[q])
    BY DEF RqInv, JobsOf
  <2>2. /\ later' = [later EXCEPT ![q] = @ \ {j}] /\ queue' = [queue EXCEPT ![q] = Append(@, j)]
        /\ UNCHANGED worker
    BY <1>4 DEF NextAttempt
  <2>3. /\ DOMAIN later' = Queues /\ DOMAIN queue' = Queues
        /\ later'[q] = later[q] \ {j} /\ queue'[q] = Append(queue[q], j)
        /\ \A x \in Queues \ {q} : later'[x] = later[x] /\ queue'[x] = queue[x]
    BY <2>2 DEF RqInv
  <2>4. IsSequence(queue'[q]) /\ Elements(queue'[q]) = Elements(queue[q]) \union {j}
    BY <2>1, <2>3, AppendElements
  <2>5. JobsOf(q)' \subseteq JobsOf(q)
    <3>1. worker'[q] = worker[q]
      BY <2>2
    <3> QED
      BY <2>1, <2>3, <2>4, <3>1 DEF JobsOf
  <2>6. EvidenceWork(worker'[q]) => worker'[q] = worker[q]
    BY <2>2
  <2> QED
    BY <2>2, <2>3, <2>4, <2>5, <2>6, OneQueue DEF RqInv, IsEvidence
<1> QED
  BY <1>1, <1>2, <1>3, <1>4 DEF RqNext

\* A worker of the kinds that a step is for.
LEMMA WorkersInFacts ==
    ASSUME NEW kinds, NEW at, NEW q \in WorkersIn(kinds, at)
    PROVE  q \in Queues /\ worker[q].at = at /\ Current(q).kind \in kinds
BY DEF WorkersIn, At

LEMMA SyncFrame ==
    ASSUME RqInv, SyncNext
    PROVE  Frame
<1>1. CASE \/ \E s \in Services : \E p \in Properties : Upsert(s, p)
           \/ ChooseKeyEvents
           \/ \E provider \in {"google", "bing", "matomo"} : Connect(provider)
           \/ \E s \in Services : ManualRead(s)
           \/ \E i \in manual : ManualEnd(i)
  <2>1. UNCHANGED rqVars
    BY <1>1 DEF Upsert, ChooseKeyEvents, Connect, ManualRead, ManualEnd
  <2> QED
    BY <2>1, StutterFrame
<1>2. CASE ScheduleSync \/ AskHistory
  <2>1. \/ UNCHANGED rqVars
        \/ \E kind \in {"sync", "history"} : Enqueue("integrations", kind, 0)
    BY <1>2 DEF ScheduleSync, AskHistory
  <2> QED
    BY <2>1, StutterFrame, EnqueueFrame
<1>3. ASSUME NEW q \in WorkersIn({"sync", "history"}, "begin"), SyncBegin(q)
      PROVE  Frame
  <2> DEFINE to == [job |-> worker[q].job, at |-> "syncing", todo |-> Mapped, ranges |-> <<>>,
                    import |-> {}, failed |-> FALSE]
  <2>1. Goes(q, to)
    BY <1>3 DEF SyncBegin, Busy
  <2>2. {"job", "at"} \subseteq DOMAIN to /\ to.job = worker[q].job /\ to.at = "syncing"
    OBVIOUS
  <2> HIDE DEF to
  <2> QED
    BY <2>1, <2>2, WorkersInFacts, GoesFrame
<1>4. ASSUME NEW at \in {"syncing", "inspecting"}, NEW q \in WorkersIn({"sync", "history"}, at),
             NEW to, Goes(q, to), {"job", "at"} \subseteq DOMAIN to,
             to.job = worker[q].job, to.at \in {"syncing", "inspecting"}
      PROVE  Frame
  BY <1>4, WorkersInFacts, GoesFrame
<1>5. ASSUME NEW w, {"job", "at"} \subseteq DOMAIN w
      PROVE  /\ {"job", "at"} \subseteq DOMAIN Failed(w) /\ Failed(w).job = w.job /\ Failed(w).at = w.at
             /\ {"job", "at"} \subseteq DOMAIN Ready(w) /\ Ready(w).job = w.job /\ Ready(w).at = w.at
  BY <1>5 DEF Failed, Ready
<1>6. ASSUME NEW q \in WorkersIn({"sync", "history"}, "syncing"),
             SyncRead(q) \/ SyncRefused(q) \/ SyncStored(q) \/ SyncFailed(q) \/ SyncEnd(q)
      PROVE  Frame
  <2>1. /\ q \in Queues /\ worker[q].at = "syncing" /\ {"job", "at"} \subseteq DOMAIN worker[q]
        /\ Current(q).kind # "evidence"
    BY WorkersInFacts, CurrentFacts
  <2>2. CASE SyncRead(q)
    <3>1. PICK ranges, import :
            Goes(q, [worker[q] EXCEPT !.ranges = ranges, !.import = import])
      BY <2>2 DEF SyncRead, Busy
    <3>2. PICK to : to = [worker[q] EXCEPT !.ranges = ranges, !.import = import]
      OBVIOUS
    <3>3. {"job", "at"} \subseteq DOMAIN to /\ to.job = worker[q].job /\ to.at = "syncing"
      BY <2>1, <3>2
    <3> QED
      BY <1>4, <3>1, <3>2, <3>3
  <2>3. CASE SyncRefused(q) \/ SyncFailed(q)
    <3>1. Goes(q, Failed(worker[q]))
      BY <2>3 DEF SyncRefused, SyncFailed, Busy
    <3> QED
      BY <1>4, <1>5, <2>1, <3>1
  <2>4. CASE SyncStored(q)
    <3>1. PICK to :
            /\ Goes(q, to)
            /\ \/ to = [worker[q] EXCEPT !.ranges = Tail(@), !.import = {}]
               \/ to = [worker[q] EXCEPT !.at = "inspecting"]
               \/ to = Ready(worker[q])
      BY <2>4 DEF SyncStored, Busy
    <3>2. {"job", "at"} \subseteq DOMAIN to /\ to.job = worker[q].job
          /\ to.at \in {"syncing", "inspecting"}
      BY <1>5, <2>1, <3>1
    <3> QED
      BY <1>4, <3>1, <3>2
  <2>5. CASE SyncEnd(q)
    <3>1. JobFails(q) \/ GoesTo(q, "done")
      BY <2>5 DEF SyncEnd
    <3> QED
      BY <2>1, <3>1, ReleaseFrame, GoesToFrame
  <2> QED
    BY <1>6, <2>2, <2>3, <2>4, <2>5
<1>7. ASSUME NEW q \in WorkersIn({"sync", "history"}, "inspecting"), SyncInspect(q)
      PROVE  Frame
  <2>1. q \in Queues /\ worker[q].at = "inspecting" /\ {"job", "at"} \subseteq DOMAIN worker[q]
    BY WorkersInFacts, CurrentFacts
  <2>2. PICK w : w = [worker[q] EXCEPT !.at = "syncing"]
    OBVIOUS
  <2>3. {"job", "at"} \subseteq DOMAIN w /\ w.job = worker[q].job /\ w.at = "syncing"
    BY <2>1, <2>2
  <2>4. Goes(q, Ready(w)) \/ Goes(q, Failed(w))
    BY <1>7, <2>2 DEF SyncInspect, Busy
  <2> QED
    BY <1>4, <1>5, <2>3, <2>4
<1> QED
  BY <1>1, <1>2, <1>3, <1>6, <1>7 DEF SyncNext

LEMMA ExportFrame ==
    ASSUME RqInv, ExportNext
    PROVE  Frame
<1>1. CASE AskExport \/ StoreExport \/ ExportCallDies \/ \E e \in DOMAIN exports : Download(e)
  <2>1. UNCHANGED rqVars \/ \E of : Enqueue(EXPORTS, "export", of)
    BY <1>1 DEF AskExport, StoreExport, ExportCallDies, Download
  <2> QED
    BY <2>1, StutterFrame, EnqueueFrame
<1>2. ASSUME NEW j \in dead[EXPORTS], RequeueExport(j)
      PROVE  Frame
  <2>1. PICK new : JobShape(new) /\ new.kind = "export" /\ new = NewJob("export", j.of)
    BY NewJobShape
  <2>2. queue' = [queue EXCEPT ![EXPORTS] = Append(@, new)] /\ UNCHANGED <<later, worker>>
    BY <1>2, <2>1 DEF RequeueExport
  <2> QED
    BY <2>1, <2>2, AppendFrame
<1>3. ASSUME NEW at \in {"begin", "writing"}, NEW q \in WorkersIn({"export"}, at),
             Begin(q) \/ Write(q) \/ WriteFails(q)
      PROVE  Frame
  <2>1. q \in Queues /\ worker[q].at = at /\ Current(q).kind # "evidence"
    BY WorkersInFacts
  <2>2. JobDone(q) \/ JobFails(q) \/ GoesTo(q, "writing") \/ GoesTo(q, "done")
    BY <1>3 DEF Begin, Write, WriteFails
  <2> QED
    BY <2>1, <2>2, ReleaseFrame, GoesToFrame
<1> QED
  BY <1>1, <1>2, <1>3 DEF ExportNext

LEMMA RenderFrame ==
    ASSUME RqInv, RenderNext
    PROVE  Frame
<1>1. CASE \/ \E s \in Snapshots : Recheck(s)
           \/ \E o \in rechecking : CallQueue(o) \/ RecheckDies(o)
  <2>1. UNCHANGED rqVars \/ \E o : Enqueue(RENDERS, "render", o)
    BY <1>1 DEF Recheck, CallQueue, RecheckDies
  <2> QED
    BY <2>1, StutterFrame, EnqueueFrame
<1>2. ASSUME NEW at \in {"begin", "rendering"}, NEW q \in WorkersIn({"render"}, at),
             RenderBegins(q) \/ RenderEnds(q) \/ RenderFails(q)
      PROVE  Frame
  <2>1. q \in Queues /\ worker[q].at = at /\ Current(q).kind # "evidence"
    BY WorkersInFacts
  <2>2. JobFails(q) \/ GoesTo(q, "rendering") \/ GoesTo(q, "done")
    BY <1>2 DEF RenderBegins, RenderEnds, RenderFails
  <2> QED
    BY <2>1, <2>2, ReleaseFrame, GoesToFrame
<1> QED
  BY <1>1, <1>2 DEF RenderNext

-----------------------------------------------------------------------------
(***************************************************************************)
(* Evidence.  A request that was answered is running, and only the one     *)
(* worker of "integrations" can end it; a request whose call of the queue  *)
(* is under way has no job yet, so that a refusal cancels no other.        *)
(***************************************************************************)

RequestRow == [question : Questions, day : Nat, status : RequestStatuses]

RowsOK ==
    /\ requests \in Seq(RequestRow)
    /\ observations \in Seq([question : Questions, of : Nat, expires : Nat])
    /\ usage \in Seq([of : Nat, month : Nat])
    /\ paid \in Seq(Nat) /\ Len(paid) = Len(requests)
    /\ \A i \in DOMAIN observations : observations[i].of \in DOMAIN requests
    /\ \A i \in DOMAIN usage : usage[i].of \in DOMAIN requests

AsksOK ==
    /\ asking \subseteq [caller : 1..Here.overlap, question : Questions, day : Nat, of : Nat]
    /\ \A a \in asking : a.of # 0 => a.of \in DOMAIN requests /\ requests[a.of].status = "pending"
    /\ \A a, b \in asking : a.of = b.of /\ a.of # 0 => a = b

\* A job of evidence is of a stored request that nobody is about to cancel.
JobsKnown ==
    \A q \in Queues : \A j \in JobsOf(q) :
        j.kind = "evidence" =>
            q = INTEGRATIONS /\ j.of \in DOMAIN requests /\ \A a \in asking : a.of # j.of

Claims ==
    \A q \in Queues : EvidenceWork(worker[q]) =>
        /\ requests[Current(q).of].status = "running"
        /\ worker[q].at = "answered" => paid[Current(q).of] >= 1

EvidenceInv ==
    /\ RqInv /\ clock \in Nat
    /\ RowsOK /\ AsksOK /\ JobsKnown /\ Claims
    /\ AnswersPaid /\ AskedOncePerDay

LEMMA SequenceFacts ==
    ASSUME NEW S, NEW s \in Seq(S)
    PROVE  /\ Len(s) \in Nat /\ DOMAIN s = 1..Len(s)
           /\ \A i \in DOMAIN s : s[i] \in S
OBVIOUS

\* Appending a row counts it for the request it is of.
LEMMA CountAppend ==
    ASSUME NEW S, NEW rows \in Seq(S), NEW x \in S, NEW r
    PROVE  /\ Count(rows, r) \in Nat
           /\ Count(Append(rows, x), r) = Count(rows, r) + (IF x.of = r THEN 1 ELSE 0)
<1> DEFINE n == Len(rows)
           T == {i \in 1..n : rows[i].of = r}
           U == {i \in 1..(n + 1) : Append(rows, x)[i].of = r}
<1>1. n \in Nat /\ DOMAIN rows = 1..n /\ DOMAIN Append(rows, x) = 1..(n + 1)
  OBVIOUS
<1>2. Append(rows, x)[n + 1] = x /\ \A i \in 1..n : Append(rows, x)[i] = rows[i]
  OBVIOUS
<1>3. IsFiniteSet(T) /\ Cardinality(T) \in Nat
  <2>1. IsFiniteSet(1..n)
    BY <1>1, FS_Interval
  <2>2. IsFiniteSet(T)
    BY <2>1, FS_Subset
  <2> QED
    BY <2>2, FS_CardinalityType
<1>4. n + 1 \notin T
  BY <1>1
<1>5. U = IF x.of = r THEN T \union {n + 1} ELSE T
  BY <1>1, <1>2
<1>6. Cardinality(T \union {n + 1}) = Cardinality(T) + 1
  BY <1>3, <1>4, FS_AddElement
<1>7. Count(rows, r) = Cardinality(T) /\ Count(Append(rows, x), r) = Cardinality(U)
  BY <1>1 DEF Count
<1> HIDE DEF T, U, n
<1>8. CASE x.of = r
  BY <1>3, <1>5, <1>6, <1>7, <1>8
<1>9. CASE x.of # r
  BY <1>3, <1>5, <1>7, <1>9
<1> QED
  BY <1>8, <1>9

\* No row is of r.
LEMMA CountNone ==
    ASSUME NEW rows, NEW r, \A i \in DOMAIN rows : rows[i].of # r
    PROVE  Count(rows, r) = 0
<1>1. {i \in DOMAIN rows : rows[i].of = r} = {}
  OBVIOUS
<1> QED
  BY <1>1, FS_EmptySet DEF Count

\* The steps of other components.
LEMMA OthersInv ==
    ASSUME EvidenceInv, Frame, UNCHANGED evidenceVars, clock' \in Nat, UNCHANGED world
    PROVE  EvidenceInv'
<1> USE DEF EvidenceInv, Frame
<1>1. RowsOK' /\ AsksOK'
  BY DEF evidenceVars, RowsOK, AsksOK, Here
<1>2. JobsKnown'
  BY DEF evidenceVars, JobsKnown, IsEvidence
<1>3. Claims'
  <2>1. \A q \in Queues : worker'[q] = worker[q] => Current(q)' = Current(q)
    BY DEF Current
  <2> QED
    BY <2>1 DEF evidenceVars, Claims
<1>4. AnswersPaid'
  BY DEF evidenceVars, AnswersPaid, Count
<1>5. AskedOncePerDay'
  BY DEF evidenceVars, AskedOncePerDay
<1> QED
  BY <1>1, <1>2, <1>3, <1>4, <1>5

\* A request gets a status and keeps its question and day.
LEMMA StatusFacts ==
    ASSUME EvidenceInv, NEW r \in DOMAIN requests, NEW s \in RequestStatuses,
           requests' = [requests EXCEPT ![r].status = s]
    PROVE  /\ requests' \in Seq(RequestRow) /\ DOMAIN requests' = DOMAIN requests
           /\ Len(requests') = Len(requests)
           /\ \A i \in DOMAIN requests \ {r} : requests'[i] = requests[i]
           /\ requests'[r].status = s
           /\ AskedOncePerDay'
<1>1. requests \in Seq(RequestRow) /\ requests[r] \in RequestRow
  BY SequenceFacts DEF EvidenceInv, RowsOK
<1>2. [requests[r] EXCEPT !.status = s] \in RequestRow
  BY <1>1 DEF RequestRow
<1>3. requests' = [requests EXCEPT ![r] = [requests[r] EXCEPT !.status = s]]
  OBVIOUS
<1>4. requests' \in Seq(RequestRow) /\ Len(requests') = Len(requests)
  BY <1>1, <1>2, <1>3, ExceptSequence
<1>5. DOMAIN requests' = DOMAIN requests
  BY <1>1, <1>4, SequenceFacts
<1>6. \A i \in DOMAIN requests \ {r} : requests'[i] = requests[i]
  OBVIOUS
<1>7. /\ requests'[r].status = s /\ requests'[r].question = requests[r].question
      /\ requests'[r].day = requests[r].day
  BY <1>1 DEF RequestRow
<1>8. AskedOncePerDay'
  BY <1>5, <1>6, <1>7 DEF AskedOncePerDay, EvidenceInv
<1> QED
  BY <1>4, <1>5, <1>6, <1>7, <1>8

\* A status that is not "succeeded" before and after, of a request nobody is asking for,
\* leaves the rows in order.
LEMMA StatusInv ==
    ASSUME EvidenceInv, NEW r \in DOMAIN requests, NEW s \in RequestStatuses \ {"succeeded"},
           requests' = [requests EXCEPT ![r].status = s], requests[r].status # "succeeded",
           asking' \subseteq asking, \A a \in asking' : a.of # r,
           UNCHANGED <<observations, usage, paid, world>>
    PROVE  RowsOK' /\ AsksOK' /\ AnswersPaid' /\ AskedOncePerDay'
<1>1. /\ requests' \in Seq(RequestRow) /\ DOMAIN requests' = DOMAIN requests
      /\ Len(requests') = Len(requests)
      /\ \A i \in DOMAIN requests \ {r} : requests'[i] = requests[i]
      /\ requests'[r].status = s
      /\ AskedOncePerDay'
  BY StatusFacts
<1>2. RowsOK'
  BY <1>1 DEF EvidenceInv, RowsOK
<1>3. AsksOK'
  BY <1>1 DEF EvidenceInv, AsksOK, Here
<1>4. AnswersPaid'
  <2>1. \A i \in DOMAIN requests : requests'[i].status = "succeeded" <=> requests[i].status = "succeeded"
    BY <1>1
  <2>2. \A i : Count(observations, i)' = Count(observations, i) /\ Count(usage, i)' = Count(usage, i)
    BY DEF Count
  <2>3. DOMAIN requests' = DOMAIN requests /\ paid' = paid /\ AnswersPaid
    BY <1>1 DEF EvidenceInv
  <2> QED
    BY <2>1, <2>2, <2>3 DEF AnswersPaid
<1> QED
  BY <1>1, <1>2, <1>3, <1>4

LEMMA AdmitInv ==
    ASSUME EvidenceInv, NEW c \in 1..Here.overlap, NEW q \in Questions, Admit(c, q)
    PROVE  EvidenceInv'
<1> DEFINE a == [caller |-> c, question |-> q, day |-> clock, of |-> 0]
<1>1. /\ asking' = asking \union {a}
      /\ UNCHANGED <<requests, observations, usage, enabled, paid, rqVars, systemVars>>
  BY DEF Admit
<1>2. a \in [caller : 1..Here.overlap, question : Questions, day : Nat, of : Nat] /\ a.of = 0
  BY DEF EvidenceInv
<1> HIDE DEF a
<1>3. AsksOK'
  BY <1>1, <1>2 DEF EvidenceInv, AsksOK, Here, systemVars
<1>4. RqInv' /\ \A x \in Queues : JobsOf(x)' = JobsOf(x)
  BY <1>1 DEF EvidenceInv, RqInv, JobsOf, rqVars
<1>5. JobsKnown'
  <2>1. \A i \in DOMAIN requests : i # 0
    BY SequenceFacts DEF EvidenceInv, RowsOK
  <2> QED
    BY <1>1, <1>2, <1>4, <2>1 DEF EvidenceInv, JobsKnown
<1>6. Claims'
  BY <1>1 DEF EvidenceInv, Claims, Current, rqVars
<1>7. RowsOK' /\ AnswersPaid' /\ AskedOncePerDay' /\ clock' \in Nat
  BY <1>1 DEF EvidenceInv, RowsOK, AnswersPaid, Count, AskedOncePerDay, systemVars
<1> QED
  BY <1>3, <1>4, <1>5, <1>6, <1>7 DEF EvidenceInv

\* What is known of the worker that answers a request.
LEMMA EvidenceFacts ==
    ASSUME EvidenceInv, NEW at, at # "idle", NEW q \in WorkersIn({"evidence"}, at)
    PROVE  /\ q \in Queues /\ q = INTEGRATIONS /\ worker[q].at = at
           /\ worker[q].job = {Current(q)} /\ Current(q).kind = "evidence"
           /\ {"job", "at"} \subseteq DOMAIN worker[q]
           /\ Current(q).of \in DOMAIN requests /\ \A a \in asking : a.of # Current(q).of
           /\ \A x \in Queues \ {q} : ~EvidenceWork(worker[x])
<1>1. q \in Queues /\ worker[q].at = at /\ Current(q).kind = "evidence"
  BY WorkersInFacts
<1>2. /\ worker[q].job = {Current(q)} /\ Current(q) \in JobsOf(q)
      /\ {"job", "at"} \subseteq DOMAIN worker[q]
  BY <1>1, CurrentFacts DEF EvidenceInv
<1>3. JobsKnown
  BY DEF EvidenceInv
<1>4. q = INTEGRATIONS /\ Current(q).of \in DOMAIN requests /\ \A a \in asking : a.of # Current(q).of
  BY <1>1, <1>2, <1>3 DEF JobsKnown
<1>5. ASSUME NEW x \in Queues \ {q}, EvidenceWork(worker[x])
      PROVE  FALSE
  <2>1. PICK j \in worker[x].job : j.kind = "evidence"
    BY <1>5 DEF EvidenceWork
  <2>2. j \in JobsOf(x)
    BY <2>1 DEF JobsOf
  <2> QED
    BY <1>3, <1>4, <2>1, <2>2 DEF JobsKnown
<1> QED
  BY <1>1, <1>2, <1>4, <1>5

\* The worker goes on: every queue keeps its jobs.
LEMMA EvidenceGoes ==
    ASSUME RqInv, NEW q \in Queues, worker[q].at # "idle", NEW at, at # "idle", GoesTo(q, at)
    PROVE  /\ RqInv' /\ \A x \in Queues : JobsOf(x)' = JobsOf(x)
           /\ Current(q)' = Current(q) /\ worker'[q].at = at
           /\ \A x \in Queues \ {q} : worker'[x] = worker[x]
<1>1. worker[q].job = {Current(q)} /\ {"job", "at"} \subseteq DOMAIN worker[q]
  BY CurrentFacts
<1>2. PICK to : to = [worker[q] EXCEPT !.at = at]
  OBVIOUS
<1>3. {"job", "at"} \subseteq DOMAIN to /\ to.job = worker[q].job /\ to.at = at
  BY <1>1, <1>2
<1>4. worker' = [worker EXCEPT ![q] = to] /\ UNCHANGED <<queue, later>>
  BY <1>2 DEF GoesTo, Goes
<1>5. /\ DOMAIN worker' = Queues /\ worker'[q] = to
      /\ \A x \in Queues \ {q} : worker'[x] = worker[x]
  BY <1>4 DEF RqInv
<1>6. \A x \in Queues : JobsOf(x)' = JobsOf(x)
  BY <1>3, <1>4, <1>5 DEF JobsOf
<1>7. WorkerShape(to)
  BY <1>1, <1>3 DEF WorkerShape
<1>8. RqInv'
  BY <1>4, <1>5, <1>6, <1>7 DEF RqInv
<1> QED
  BY <1>3, <1>5, <1>6, <1>8 DEF Current

\* The jobs and their requests are the same ones.
LEMMA SameJobsKnown ==
    ASSUME JobsKnown, DOMAIN requests' = DOMAIN requests, asking' \subseteq asking,
           \A x \in Queues : JobsOf(x)' = JobsOf(x)
    PROVE  JobsKnown'
BY DEF JobsKnown

LEMMA ClaimInv ==
    ASSUME EvidenceInv, NEW q \in WorkersIn({"evidence"}, "begin"), Claim(q)
    PROVE  EvidenceInv'
<1> DEFINE r == Current(q).of
<1>1. /\ q \in Queues /\ worker[q].at = "begin" /\ r \in DOMAIN requests
      /\ \A a \in asking : a.of # r
      /\ \A x \in Queues \ {q} : ~EvidenceWork(worker[x])
  BY EvidenceFacts
<1>2. UNCHANGED <<observations, usage, enabled, asking, paid, systemVars>>
  BY DEF Claim
<1>3. CASE requests[r].status \in {"pending", "failed"}
  <2>1. requests' = [requests EXCEPT ![r].status = "running"] /\ GoesTo(q, "claimed")
    BY <1>3 DEF Claim, EvidenceAt
  <2>2. RowsOK' /\ AsksOK' /\ AnswersPaid' /\ AskedOncePerDay'
    <3>1. /\ "running" \in RequestStatuses \ {"succeeded"} /\ requests[r].status # "succeeded"
          /\ asking' \subseteq asking /\ \A a \in asking' : a.of # r
          /\ UNCHANGED <<observations, usage, paid, world>>
      BY <1>1, <1>2, <1>3 DEF systemVars, RequestStatuses, ActiveStatuses
    <3>2. r \in DOMAIN requests
      BY <1>1
    <3> HIDE DEF r
    <3> QED
      BY <2>1, <3>1, <3>2, StatusInv
  <2>3. DOMAIN requests' = DOMAIN requests /\ requests'[r].status = "running"
    <3>1. "running" \in RequestStatuses /\ r \in DOMAIN requests
      BY <1>1 DEF RequestStatuses, ActiveStatuses
    <3> HIDE DEF r
    <3> QED
      BY <2>1, <3>1, StatusFacts
  <2>4. /\ RqInv' /\ \A x \in Queues : JobsOf(x)' = JobsOf(x)
        /\ Current(q)' = Current(q) /\ worker'[q].at = "claimed"
        /\ \A x \in Queues \ {q} : worker'[x] = worker[x]
    BY <1>1, <2>1, EvidenceGoes DEF EvidenceInv
  <2>5. JobsKnown'
    BY <1>2, <2>3, <2>4, SameJobsKnown DEF EvidenceInv
  <2>6. Claims'
    BY <1>1, <2>3, <2>4 DEF Claims
  <2> QED
    BY <1>2, <2>2, <2>4, <2>5, <2>6 DEF EvidenceInv, systemVars
<1>4. CASE requests[r].status \notin {"pending", "failed"}
  <2>1. UNCHANGED requests /\ JobFails(q)
    BY <1>4 DEF Claim, EvidenceAt
  <2>2. Frame
    BY <1>1, <2>1, ReleaseFrame DEF EvidenceInv
  <2> QED
    BY <1>2, <2>1, <2>2, OthersInv DEF evidenceVars, systemVars, EvidenceInv
<1> QED
  BY <1>3, <1>4

LEMMA AnswerInv ==
    ASSUME EvidenceInv, NEW q \in WorkersIn({"evidence"}, "claimed"), Answer(q) \/ NoAnswer(q)
    PROVE  EvidenceInv'
<1> DEFINE r == Current(q).of
<1>1. /\ q \in Queues /\ worker[q].at = "claimed" /\ r \in DOMAIN requests
      /\ worker[q].job = {Current(q)} /\ Current(q).kind = "evidence"
      /\ \A x \in Queues \ {q} : ~EvidenceWork(worker[x])
  BY EvidenceFacts
<1>2. UNCHANGED <<requests, observations, usage, enabled, asking, systemVars>>
  BY DEF Answer, NoAnswer, evidenceVars
<1>3. PICK at \in {"answered", "lost"} :
        /\ GoesTo(q, at)
        /\ \/ paid' = [paid EXCEPT ![r] = @ + 1]
           \/ paid' = paid /\ at = "lost"
  BY DEF Answer, NoAnswer, evidenceVars, EvidenceAt
<1>4. paid \in Seq(Nat) /\ Len(paid) = Len(requests) /\ DOMAIN paid = DOMAIN requests
  BY SequenceFacts DEF EvidenceInv, RowsOK
<1>5. /\ paid' \in Seq(Nat) /\ Len(paid') = Len(paid)
      /\ \A i \in DOMAIN requests : paid'[i] >= paid[i]
      /\ at = "answered" => paid'[r] >= 1
  <2>1. \A i \in DOMAIN paid : paid[i] \in Nat
    BY <1>4, SequenceFacts
  <2>2. CASE paid' = [paid EXCEPT ![r] = @ + 1]
    <3>1. paid[r] + 1 \in Nat
      BY <1>1, <1>4, <2>1
    <3>2. paid' = [paid EXCEPT ![r] = paid[r] + 1]
      BY <2>2
    <3>3. paid' \in Seq(Nat) /\ Len(paid') = Len(paid)
      BY <1>1, <1>4, <3>1, <3>2, ExceptSequence
    <3> QED
      BY <1>1, <1>4, <2>1, <3>2, <3>3
  <2>3. CASE paid' = paid /\ at = "lost"
    BY <1>4, <2>1, <2>3
  <2> QED
    BY <1>3, <2>2, <2>3
<1>6. /\ RqInv' /\ \A x \in Queues : JobsOf(x)' = JobsOf(x)
      /\ Current(q)' = Current(q) /\ worker'[q].at = at
      /\ \A x \in Queues \ {q} : worker'[x] = worker[x]
  BY <1>1, <1>3, EvidenceGoes DEF EvidenceInv
<1>7. RowsOK' /\ AsksOK' /\ AskedOncePerDay'
  BY <1>2, <1>4, <1>5 DEF EvidenceInv, RowsOK, AsksOK, AskedOncePerDay, Here, systemVars
<1>8. AnswersPaid'
  <2>1. \A i : Count(observations, i)' = Count(observations, i) /\ Count(usage, i)' = Count(usage, i)
    BY <1>2 DEF Count
  <2>2. \A i \in DOMAIN requests : paid[i] \in Nat /\ paid'[i] \in Nat
    BY <1>4, <1>5, SequenceFacts
  <2>3. requests' = requests /\ AnswersPaid
    BY <1>2 DEF EvidenceInv
  <2> QED
    BY <1>5, <2>1, <2>2, <2>3 DEF AnswersPaid
<1>9. JobsKnown'
  BY <1>2, <1>6, SameJobsKnown DEF EvidenceInv
<1>10. Claims'
  <2>1. requests[r].status = "running"
    BY <1>1 DEF EvidenceInv, Claims, EvidenceWork
  <2> QED
    BY <1>1, <1>2, <1>5, <1>6, <2>1 DEF Claims
<1> QED
  BY <1>2, <1>6, <1>7, <1>8, <1>9, <1>10 DEF EvidenceInv, systemVars

LEMMA FailInv ==
    ASSUME EvidenceInv, NEW q \in WorkersIn({"evidence"}, "lost"), Fail(q)
    PROVE  EvidenceInv'
<1> DEFINE r == Current(q).of
<1>1. /\ q \in Queues /\ worker[q].at = "lost" /\ r \in DOMAIN requests
      /\ worker[q].job = {Current(q)} /\ Current(q).kind = "evidence"
      /\ \A a \in asking : a.of # r
      /\ \A x \in Queues \ {q} : ~EvidenceWork(worker[x])
  BY EvidenceFacts
<1>2. /\ UNCHANGED <<observations, usage, enabled, asking, paid, systemVars>>
      /\ requests' = [requests EXCEPT ![r].status = "failed"] /\ JobFails(q)
  BY DEF Fail, EvidenceAt
<1>3. requests[r].status = "running"
  BY <1>1 DEF EvidenceInv, Claims, EvidenceWork
<1>4. RowsOK' /\ AsksOK' /\ AnswersPaid' /\ AskedOncePerDay'
  <2>1. /\ "failed" \in RequestStatuses \ {"succeeded"} /\ requests[r].status # "succeeded"
        /\ asking' \subseteq asking /\ \A a \in asking' : a.of # r
        /\ UNCHANGED <<observations, usage, paid, world>>
    BY <1>1, <1>2, <1>3 DEF systemVars, RequestStatuses, ActiveStatuses
  <2>2. r \in DOMAIN requests
    BY <1>1
  <2> HIDE DEF r
  <2> QED
    BY <1>2, <2>1, <2>2, StatusInv
<1>5. DOMAIN requests' = DOMAIN requests
  BY <1>1, <1>2, StatusFacts DEF RequestStatuses, ActiveStatuses
<1>6. Frame
  BY <1>1, <1>2, ReleaseFrame DEF EvidenceInv
<1>7. JobsKnown'
  BY <1>2, <1>5, <1>6 DEF EvidenceInv, JobsKnown, Frame, IsEvidence
<1>8. worker'[q] = Idle
  BY <1>1, <1>2 DEF JobFails, EvidenceInv, RqInv
<1>9. \A x \in Queues : ~EvidenceWork(worker'[x])
  BY <1>1, <1>6, <1>8 DEF Frame, EvidenceWork, Idle
<1> QED
  BY <1>2, <1>4, <1>6, <1>7, <1>9 DEF EvidenceInv, Claims, Frame, systemVars

\* A row is appended for r.
LEMMA AppendedRows ==
    ASSUME NEW S, NEW rows \in Seq(S), NEW x \in S, NEW rows2, rows2 = Append(rows, x)
    PROVE  /\ rows2 \in Seq(S) /\ Len(rows2) = Len(rows) + 1
           /\ DOMAIN rows2 = DOMAIN rows \union {Len(rows) + 1}
           /\ Len(rows) + 1 \notin DOMAIN rows /\ Len(rows) \in Nat
           /\ \A i \in DOMAIN rows : rows2[i] = rows[i]
           /\ rows2[Len(rows) + 1] = x
<1>1. /\ Len(rows) \in Nat /\ DOMAIN rows = 1..Len(rows)
      /\ rows2 \in Seq(S) /\ Len(rows2) = Len(rows) + 1 /\ DOMAIN rows2 = 1..(Len(rows) + 1)
      /\ \A i \in 1..Len(rows) : rows2[i] = rows[i]
      /\ rows2[Len(rows) + 1] = x
  OBVIOUS
<1>2. 1..(Len(rows) + 1) = 1..Len(rows) \union {Len(rows) + 1} /\ Len(rows) + 1 \notin 1..Len(rows)
  BY <1>1
<1> QED
  BY <1>1, <1>2

LEMMA CompleteInv ==
    ASSUME EvidenceInv, NEW q \in WorkersIn({"evidence"}, "answered"), Complete(q)
    PROVE  EvidenceInv'
<1>a. PICK r : r = Current(q).of
  OBVIOUS
<1>1. /\ q \in Queues /\ worker[q].at = "answered" /\ r \in DOMAIN requests
      /\ worker[q].job = {Current(q)} /\ Current(q).kind = "evidence"
      /\ \A a \in asking : a.of # r
      /\ \A x \in Queues \ {q} : ~EvidenceWork(worker[x])
  BY <1>a, EvidenceFacts
<1>3. PICK o : o = NewObservation(r)
  OBVIOUS
<1>4. PICK u : u = [of |-> r, month |-> MonthOf(clock)]
  OBVIOUS
<1>5. /\ UNCHANGED <<enabled, asking, paid, systemVars>>
      /\ observations' = Append(observations, o) /\ usage' = Append(usage, u)
      /\ requests' = [requests EXCEPT ![r].status = "succeeded"] /\ GoesTo(q, "done")
  BY <1>a, <1>3, <1>4 DEF Complete, EvidenceAt
<1>6. requests[r].status = "running" /\ paid[r] >= 1
  BY <1>a, <1>1 DEF EvidenceInv, Claims, EvidenceWork
<1>7. /\ requests' \in Seq(RequestRow) /\ DOMAIN requests' = DOMAIN requests
      /\ Len(requests') = Len(requests)
      /\ \A i \in DOMAIN requests \ {r} : requests'[i] = requests[i]
      /\ requests'[r].status = "succeeded"
      /\ AskedOncePerDay'
  <2>1. "succeeded" \in RequestStatuses /\ r \in DOMAIN requests
    BY <1>1 DEF RequestStatuses
  <2> QED
    BY <1>5, <2>1, StatusFacts
<1>8. /\ RqInv' /\ \A x \in Queues : JobsOf(x)' = JobsOf(x)
      /\ worker'[q].at = "done"
      /\ \A x \in Queues \ {q} : worker'[x] = worker[x]
  BY <1>1, <1>5, EvidenceGoes DEF EvidenceInv
<1>9. /\ o \in [question : Questions, of : Nat, expires : Nat] /\ o.of = r
      /\ u \in [of : Nat, month : Nat] /\ u.of = r
  <2>1. requests[r] \in RequestRow /\ r \in Nat /\ clock \in Nat
    BY <1>1, SequenceFacts DEF EvidenceInv, RowsOK
  <2>2. MonthOf(clock) \in Nat
    BY <2>1, EvidenceAssumption DEF MonthOf
  <2>3. clock + Freshness \in Nat
    BY <2>1, EvidenceAssumption
  <2>4. requests[r].question \in Questions
    BY <2>1 DEF RequestRow
  <2> QED
    BY <1>3, <1>4, <2>1, <2>2, <2>3, <2>4 DEF NewObservation
<1>10. RowsOK
  BY DEF EvidenceInv
<1>11. RowsOK'
  <2>1. observations' \in Seq([question : Questions, of : Nat, expires : Nat])
        /\ \A i \in DOMAIN observations' : observations'[i].of \in DOMAIN requests
    <3>1. observations \in Seq([question : Questions, of : Nat, expires : Nat])
          /\ \A i \in DOMAIN observations : observations[i].of \in DOMAIN requests
      BY <1>10 DEF RowsOK
    <3>2. o.of \in DOMAIN requests
      BY <1>1, <1>9
    <3>3. /\ observations' \in Seq([question : Questions, of : Nat, expires : Nat])
          /\ DOMAIN observations' = DOMAIN observations \union {Len(observations) + 1}
          /\ \A i \in DOMAIN observations : observations'[i] = observations[i]
          /\ observations'[Len(observations) + 1] = o
      <4>1. PICK Row : Row = [question : Questions, of : Nat, expires : Nat]
        OBVIOUS
      <4>2. observations \in Seq(Row) /\ o \in Row /\ observations' = Append(observations, o)
        BY <1>5, <1>9, <3>1, <4>1
      <4> QED
        BY <4>1, <4>2, AppendedRows
    <3> QED
      BY <3>1, <3>2, <3>3
  <2>2. usage' \in Seq([of : Nat, month : Nat])
        /\ \A i \in DOMAIN usage' : usage'[i].of \in DOMAIN requests
    <3>1. usage \in Seq([of : Nat, month : Nat])
          /\ \A i \in DOMAIN usage : usage[i].of \in DOMAIN requests
      BY <1>10 DEF RowsOK
    <3>2. u.of \in DOMAIN requests
      BY <1>1, <1>9
    <3>3. /\ usage' \in Seq([of : Nat, month : Nat])
          /\ DOMAIN usage' = DOMAIN usage \union {Len(usage) + 1}
          /\ \A i \in DOMAIN usage : usage'[i] = usage[i]
          /\ usage'[Len(usage) + 1] = u
      BY <1>5, <1>9, <3>1, AppendedRows
    <3> QED
      BY <3>1, <3>2, <3>3
  <2> QED
    BY <1>5, <1>7, <1>10, <2>1, <2>2 DEF RowsOK
<1>12. AsksOK'
  BY <1>1, <1>5, <1>7 DEF EvidenceInv, AsksOK, Here, systemVars
<1>13. AnswersPaid'
  <2>1. \A i : /\ Count(observations, i) \in Nat /\ Count(usage, i) \in Nat
              /\ Count(observations, i)' = Count(observations, i) + (IF r = i THEN 1 ELSE 0)
              /\ Count(usage, i)' = Count(usage, i) + (IF r = i THEN 1 ELSE 0)
    <3>1. observations \in Seq([question : Questions, of : Nat, expires : Nat])
          /\ usage \in Seq([of : Nat, month : Nat])
      BY <1>10 DEF RowsOK
    <3>3. \A i : Count(observations, i)' = Count(Append(observations, o), i)
               /\ Count(usage, i)' = Count(Append(usage, u), i)
      BY <1>5 DEF Count
    <3>4. \A i : /\ Count(observations, i) \in Nat
                /\ Count(Append(observations, o), i) = Count(observations, i) + (IF o.of = i THEN 1 ELSE 0)
      <4>1. PICK S : S = [question : Questions, of : Nat, expires : Nat]
        OBVIOUS
      <4>2. observations \in Seq(S) /\ o \in S
        BY <1>9, <3>1, <4>1
      <4> QED
        BY <4>2, CountAppend
    <3>5. \A i : /\ Count(usage, i) \in Nat
                /\ Count(Append(usage, u), i) = Count(usage, i) + (IF u.of = i THEN 1 ELSE 0)
      <4>1. PICK S : S = [of : Nat, month : Nat]
        OBVIOUS
      <4>2. usage \in Seq(S) /\ u \in S
        BY <1>9, <3>1, <4>1
      <4> QED
        BY <4>2, CountAppend
    <3> QED
      BY <1>9, <3>3, <3>4, <3>5
  <2>2. AnswersPaid /\ paid' = paid
    BY <1>5 DEF EvidenceInv
  <2>3. ASSUME NEW i \in DOMAIN requests, i # r
        PROVE  /\ Count(observations, i)' = Count(observations, i)
               /\ Count(usage, i)' = Count(usage, i)
               /\ requests'[i] = requests[i]
    BY <1>7, <2>1, <2>3
  <2>4. Count(observations, r)' = 1 /\ Count(usage, r)' = 1
    <3>1. Count(observations, r) = 0 /\ Count(usage, r) = 0
      BY <1>1, <1>6, <2>2 DEF AnswersPaid
    <3> QED
      BY <2>1, <3>1
  <2> QED
    BY <1>6, <1>7, <2>2, <2>3, <2>4 DEF AnswersPaid
<1>14. JobsKnown'
  BY <1>5, <1>7, <1>8, SameJobsKnown DEF EvidenceInv
<1>15. Claims'
  BY <1>1, <1>8 DEF Claims, EvidenceWork
<1> QED
  BY <1>5, <1>7, <1>8, <1>11, <1>12, <1>13, <1>14, <1>15 DEF EvidenceInv, systemVars

LEMMA StoreInv ==
    ASSUME EvidenceInv, NEW a \in asking, Store(a)
    PROVE  EvidenceInv'
<1>1. a.of = 0 /\ UNCHANGED <<observations, usage, enabled, rqVars, systemVars>>
  BY DEF Store
<1>2. RqInv' /\ (\A x \in Queues : JobsOf(x)' = JobsOf(x)) /\ clock' \in Nat
      /\ \A x \in Queues : worker'[x] = worker[x] /\ Current(x)' = Current(x)
  BY <1>1 DEF EvidenceInv, RqInv, JobsOf, Current, rqVars, systemVars
<1>3. \A i : Count(observations, i)' = Count(observations, i) /\ Count(usage, i)' = Count(usage, i)
  BY <1>1 DEF Count
<1>4. CASE UNCHANGED <<requests, paid>> /\ asking' = asking \ {a}
  <2>1. RowsOK' /\ AsksOK' /\ AskedOncePerDay'
    BY <1>1, <1>4 DEF EvidenceInv, RowsOK, AsksOK, AskedOncePerDay, Here, systemVars
  <2>2. AnswersPaid'
    BY <1>3, <1>4 DEF EvidenceInv, AnswersPaid
  <2>3. JobsKnown'
    BY <1>2, <1>4, SameJobsKnown DEF EvidenceInv
  <2>4. Claims'
    BY <1>2, <1>4 DEF EvidenceInv, Claims
  <2> QED
    BY <1>2, <2>1, <2>2, <2>3, <2>4 DEF EvidenceInv
<1>5. CASE ~(UNCHANGED <<requests, paid>> /\ asking' = asking \ {a})
  <2>1. PICK new : new = [question |-> a.question, day |-> a.day, status |-> "pending"]
    OBVIOUS
  <2>2. PICK n : n = Len(requests) + 1
    OBVIOUS
  <2>3. PICK b : b = [a EXCEPT !.of = n]
    OBVIOUS
  <2>4. /\ ~Duplicate(a.question, a.day)
        /\ requests' = Append(requests, new) /\ paid' = Append(paid, 0)
        /\ asking' = (asking \ {a}) \union {b}
    BY <1>5, <2>1, <2>2, <2>3 DEF Store
  <2>5. RowsOK /\ AsksOK
    BY DEF EvidenceInv
  <2>6. /\ a \in [caller : 1..Here.overlap, question : Questions, day : Nat, of : Nat]
        /\ new \in RequestRow /\ new.question = a.question /\ new.day = a.day
        /\ new.status = "pending"
    BY <2>1, <2>5 DEF AsksOK, RequestRow, RequestStatuses, ActiveStatuses
  <2>7. /\ requests' \in Seq(RequestRow) /\ Len(requests') = Len(requests) + 1
        /\ DOMAIN requests' = DOMAIN requests \union {n} /\ n \notin DOMAIN requests
        /\ \A i \in DOMAIN requests : requests'[i] = requests[i]
        /\ requests'[n] = new /\ n \in Nat
    <3>1. requests \in Seq(RequestRow)
      BY <2>5 DEF RowsOK
    <3> QED
      BY <2>2, <2>4, <2>6, <3>1, AppendedRows
  <2>8. /\ paid' \in Seq(Nat) /\ Len(paid') = Len(requests')
        /\ \A i \in DOMAIN requests : paid'[i] = paid[i]
        /\ paid'[n] = 0
    <3>1. paid \in Seq(Nat) /\ Len(paid) = Len(requests) /\ DOMAIN paid = DOMAIN requests
      BY <2>5, SequenceFacts DEF RowsOK
    <3>2. /\ paid' \in Seq(Nat) /\ Len(paid') = Len(paid) + 1
          /\ \A i \in DOMAIN paid : paid'[i] = paid[i]
          /\ paid'[Len(paid) + 1] = 0
      BY <2>4, <3>1, AppendedRows
    <3> QED
      BY <2>2, <2>7, <3>1, <3>2
  <2>9. RowsOK'
    BY <1>1, <2>5, <2>7, <2>8 DEF RowsOK
  <2>10. n # 0 /\ \A c \in asking : c.of # n
    BY <2>2, <2>5, <2>7, SequenceFacts DEF AsksOK, RowsOK
  <2>11. b \in [caller : 1..Here.overlap, question : Questions, day : Nat, of : Nat] /\ b.of = n
    BY <2>3, <2>6, <2>7
  <2>12. AsksOK'
    <3>1. asking' \subseteq [caller : 1..Here'.overlap, question : Questions, day : Nat, of : Nat]
      BY <1>1, <2>4, <2>5, <2>11 DEF AsksOK, Here, systemVars
    <3>2. \A c \in asking' : c.of # 0 => c.of \in DOMAIN requests' /\ requests'[c.of].status = "pending"
      BY <2>4, <2>5, <2>6, <2>7, <2>11 DEF AsksOK
    <3>3. \A c, d \in asking' : c.of = d.of /\ c.of # 0 => c = d
      BY <2>4, <2>5, <2>10, <2>11 DEF AsksOK
    <3> QED
      BY <3>1, <3>2, <3>3 DEF AsksOK
  <2>13. AskedOncePerDay'
    <3>1. \A i \in DOMAIN requests :
             ~(requests[i].question = new.question /\ requests[i].day = new.day)
      BY <2>4, <2>6 DEF Duplicate
    <3> QED
      BY <2>7, <3>1 DEF EvidenceInv, AskedOncePerDay
  <2>14. AnswersPaid'
    <3>1. Count(observations, n) = 0 /\ Count(usage, n) = 0
      BY <2>5, <2>7, CountNone DEF RowsOK
    <3>2. ASSUME NEW i \in DOMAIN requests
          PROVE  requests'[i] = requests[i] /\ paid'[i] = paid[i]
      BY <2>7, <2>8
    <3>3. requests'[n].status = "pending" /\ paid'[n] = 0
      BY <2>6, <2>7, <2>8
    <3>4. DOMAIN requests' = DOMAIN requests \union {n} /\ AnswersPaid
      BY <2>7 DEF EvidenceInv
    <3> QED
      BY <1>3, <3>1, <3>2, <3>3, <3>4 DEF AnswersPaid
  <2>15. JobsKnown'
    BY <1>2, <2>4, <2>7, <2>11 DEF EvidenceInv, JobsKnown
  <2>16. Claims'
    <3>1. ASSUME NEW x \in Queues, EvidenceWork(worker[x])
          PROVE  Current(x).of \in DOMAIN requests
      <4>1. worker[x].at # "idle"
        BY <3>1 DEF EvidenceWork
      <4>2. worker[x].job = {Current(x)} /\ Current(x) \in JobsOf(x)
        BY <4>1, CurrentFacts DEF EvidenceInv
      <4>3. Current(x).kind = "evidence"
        BY <3>1, <4>2 DEF EvidenceWork
      <4> QED
        BY <4>2, <4>3 DEF EvidenceInv, JobsKnown
    <3> QED
      BY <1>2, <2>7, <2>8, <3>1 DEF EvidenceInv, Claims
  <2> QED
    BY <1>2, <2>9, <2>12, <2>13, <2>14, <2>15, <2>16 DEF EvidenceInv
<1> QED
  BY <1>4, <1>5

LEMMA SameRows ==
    ASSUME EvidenceInv, asking' \subseteq asking,
           UNCHANGED <<requests, observations, usage, paid, world, clock>>
    PROVE  RowsOK' /\ AsksOK' /\ AnswersPaid' /\ AskedOncePerDay' /\ clock' \in Nat
<1>1. RowsOK' /\ AskedOncePerDay' /\ clock' \in Nat
  BY DEF EvidenceInv, RowsOK, AskedOncePerDay
<1>2. AsksOK'
  BY DEF EvidenceInv, AsksOK, Here
<1>3. \A i : Count(observations, i)' = Count(observations, i) /\ Count(usage, i)' = Count(usage, i)
  BY DEF Count
<1>4. AnswersPaid'
  BY <1>3 DEF EvidenceInv, AnswersPaid
<1> QED
  BY <1>1, <1>2, <1>4

LEMMA CallInv ==
    ASSUME EvidenceInv, NEW a \in asking, Call(a)
    PROVE  EvidenceInv'
<1>1. a.of # 0 /\ asking' = asking \ {a}
      /\ UNCHANGED <<observations, usage, enabled, paid, systemVars>>
  BY DEF Call
<1>2. PICK r : r = a.of
  OBVIOUS
<1>3. /\ r \in DOMAIN requests /\ requests[r].status = "pending"
      /\ \A c \in asking \ {a} : c.of # r
  BY <1>1, <1>2 DEF EvidenceInv, AsksOK
<1>4. CASE Enqueue(INTEGRATIONS, "evidence", a.of) /\ UNCHANGED requests
  <2>1. PICK j : JobShape(j) /\ j.of = r /\ j = NewJob("evidence", a.of)
    BY <1>2, NewJobShape
  <2>2. queue' = [queue EXCEPT ![INTEGRATIONS] = Append(@, j)] /\ UNCHANGED <<later, worker>>
    BY <1>4, <2>1 DEF Enqueue
  <2>3. /\ DOMAIN queue' = Queues /\ \A x \in Queues \ {INTEGRATIONS} : queue'[x] = queue[x]
        /\ \A x \in Queues \ {INTEGRATIONS} : JobsOf(x)' = JobsOf(x)
    BY <2>2 DEF EvidenceInv, RqInv, JobsOf
  <2>4. ASSUME INTEGRATIONS \in Queues
        PROVE  /\ IsSequence(queue'[INTEGRATIONS])
               /\ JobsOf(INTEGRATIONS)' = JobsOf(INTEGRATIONS) \union {j}
    <3>1. queue'[INTEGRATIONS] = Append(queue[INTEGRATIONS], j) /\ IsSequence(queue[INTEGRATIONS])
      BY <2>2, <2>4 DEF EvidenceInv, RqInv
    <3>2. /\ IsSequence(queue'[INTEGRATIONS])
          /\ Elements(queue'[INTEGRATIONS]) = Elements(queue[INTEGRATIONS]) \union {j}
      BY <3>1, AppendElements
    <3> QED
      BY <2>2, <3>2 DEF JobsOf, Elements
  <2>5. RqInv'
    BY <2>1, <2>2, <2>3, <2>4 DEF EvidenceInv, RqInv
  <2>6. JobsKnown'
    BY <1>1, <1>3, <1>4, <2>1, <2>3, <2>4 DEF EvidenceInv, JobsKnown
  <2>7. Claims'
    BY <1>1, <1>4, <2>2 DEF EvidenceInv, Claims, Current
  <2>8. RowsOK' /\ AsksOK' /\ AnswersPaid' /\ AskedOncePerDay' /\ clock' \in Nat
    BY <1>1, <1>4, SameRows DEF systemVars
  <2> QED
    BY <2>5, <2>6, <2>7, <2>8 DEF EvidenceInv
<1>5. CASE requests' = [requests EXCEPT ![a.of].status = "cancelled"] /\ UNCHANGED rqVars
  <2>1. /\ "cancelled" \in RequestStatuses \ {"succeeded"} /\ requests[r].status # "succeeded"
        /\ asking' \subseteq asking /\ (\A c \in asking' : c.of # r)
        /\ requests' = [requests EXCEPT ![r].status = "cancelled"]
        /\ UNCHANGED <<observations, usage, paid, world>>
    BY <1>1, <1>2, <1>3, <1>5 DEF RequestStatuses, systemVars
  <2>2. RowsOK' /\ AsksOK' /\ AnswersPaid' /\ AskedOncePerDay'
    BY <1>3, <2>1, StatusInv
  <2>3. /\ DOMAIN requests' = DOMAIN requests
        /\ \A i \in DOMAIN requests \ {r} : requests'[i] = requests[i]
    BY <1>3, <2>1, StatusFacts
  <2>4. RqInv' /\ \A x \in Queues : JobsOf(x)' = JobsOf(x)
        /\ worker'[x] = worker[x] /\ Current(x)' = Current(x)
    BY <1>5 DEF EvidenceInv, RqInv, JobsOf, Current, rqVars
  <2>5. JobsKnown'
    BY <2>1, <2>3, <2>4, SameJobsKnown DEF EvidenceInv
  <2>6. Claims'
    <3>1. ASSUME NEW x \in Queues, EvidenceWork(worker[x])
          PROVE  requests'[Current(x).of] = requests[Current(x).of]
      <4>1. worker[x].at # "idle"
        BY <3>1 DEF EvidenceWork
      <4>2. worker[x].job = {Current(x)} /\ Current(x) \in JobsOf(x)
        BY <4>1, CurrentFacts DEF EvidenceInv
      <4>3. Current(x).kind = "evidence"
        BY <3>1, <4>2 DEF EvidenceWork
      <4>4. Current(x).of \in DOMAIN requests /\ a.of # Current(x).of
        BY <4>2, <4>3 DEF EvidenceInv, JobsKnown
      <4> QED
        BY <1>2, <2>3, <4>4
    <3> SUFFICES ASSUME NEW x \in Queues, EvidenceWork(worker'[x])
        PROVE  /\ requests'[Current(x)'.of].status = "running"
               /\ worker'[x].at = "answered" => paid'[Current(x)'.of] >= 1
      BY DEF Claims
    <3>2. worker'[x] = worker[x] /\ Current(x)' = Current(x) /\ paid' = paid
      BY <2>1, <2>4
    <3>3. EvidenceWork(worker[x])
      BY <3>2
    <3>4. /\ requests[Current(x).of].status = "running"
          /\ worker[x].at = "answered" => paid[Current(x).of] >= 1
      BY <3>3 DEF EvidenceInv, Claims
    <3> QED
      BY <3>1, <3>2, <3>3, <3>4
  <2> QED
    BY <1>1, <2>2, <2>4, <2>5, <2>6 DEF EvidenceInv, systemVars
<1> QED
  BY <1>4, <1>5 DEF Call

LEMMA ForgetInv ==
    ASSUME EvidenceInv, SwitchControls \/ \E a \in asking : CallDies(a)
    PROVE  EvidenceInv'
<1>1. /\ asking' \subseteq asking /\ clock' = clock /\ world' = world
      /\ UNCHANGED <<requests, observations, usage, paid, rqVars>>
  BY DEF SwitchControls, CallDies, MayDie, systemVars
<1>2. RqInv' /\ \A x \in Queues : JobsOf(x)' = JobsOf(x)
      /\ worker'[x] = worker[x] /\ Current(x)' = Current(x)
  BY <1>1 DEF EvidenceInv, RqInv, JobsOf, Current, rqVars
<1>3. JobsKnown'
  BY <1>1, <1>2, SameJobsKnown DEF EvidenceInv
<1>4. Claims'
  BY <1>1, <1>2 DEF EvidenceInv, Claims
<1>5. RowsOK' /\ AsksOK' /\ AnswersPaid' /\ AskedOncePerDay' /\ clock' \in Nat
  BY <1>1, SameRows
<1> QED
  BY <1>2, <1>3, <1>4, <1>5 DEF EvidenceInv

LEMMA EvidenceInitInv == Init => EvidenceInv
<1> SUFFICES ASSUME Init PROVE EvidenceInv
  OBVIOUS
<1>1. /\ requests = <<>> /\ observations = <<>> /\ usage = <<>> /\ paid = <<>> /\ asking = {}
      /\ queue = [q \in Queues |-> <<>>] /\ later = [q \in Queues |-> {}]
      /\ worker = [q \in Queues |-> Idle] /\ clock \in Nat
  BY RqAssumption DEF Init, RqInit, EvidenceInit, Here
<1>2. \A q \in Queues : JobsOf(q) = {}
  BY <1>1 DEF JobsOf, Elements, Idle
<1>3. IsSequence(<<>>)
  BY DEF IsSequence
<1>4. RqInv /\ JobsKnown /\ Claims
  BY <1>1, <1>2, <1>3 DEF RqInv, JobsKnown, Claims, WorkerShape, EvidenceWork, Idle
<1>5. RowsOK /\ AsksOK /\ AnswersPaid /\ AskedOncePerDay
  BY <1>1 DEF RowsOK, AsksOK, AnswersPaid, AskedOncePerDay
<1> QED
  BY <1>1, <1>4, <1>5 DEF EvidenceInv

\* Only the clock ticks, and the world stays.
LEMMA SystemStep ==
    ASSUME clock \in Nat, RqNext \/ SyncNext \/ ExportNext \/ RenderNext
    PROVE  clock' \in Nat /\ clock' >= clock /\ world' = world /\ deaths' \in {deaths, deaths + 1}
<1>1. CASE RqNext
  <2>1. ASSUME NEW q \in Queues, Take(q) \/ Finish(q) \/ \E j \in later[q] : NextAttempt(q, j)
        PROVE  clock' = clock /\ world' = world /\ deaths' \in {deaths, deaths + 1}
    BY <2>1 DEF Take, Finish, NextAttempt, systemVars
  <2>2. ASSUME NEW q \in Queues, WorkerDies(q)
        PROVE  clock' = clock /\ world' = world /\ deaths' \in {deaths, deaths + 1}
    BY <2>2 DEF WorkerDies, MayDie
  <2>3. Tick => clock' = clock + 1 /\ world' = world /\ deaths' = deaths
    BY DEF Tick
  <2> QED
    BY <1>1, <2>1, <2>2, <2>3 DEF RqNext
<1>2. CASE SyncNext
  <2>1. ASSUME \/ \E s \in Services : \E p \in Properties : Upsert(s, p)
               \/ ChooseKeyEvents
               \/ \E provider \in {"google", "bing", "matomo"} : Connect(provider)
               \/ ScheduleSync \/ AskHistory
               \/ \E s \in Services : ManualRead(s)
               \/ \E i \in manual : ManualEnd(i)
        PROVE  clock' = clock /\ world' = world /\ deaths' \in {deaths, deaths + 1}
    BY <2>1
       DEF Upsert, ChooseKeyEvents, Connect, ScheduleSync, AskHistory, ManualRead, ManualEnd,
           OnlyMapping, systemVars
  <2>2. ASSUME NEW q,
               \/ SyncBegin(q) \/ SyncRead(q) \/ SyncRefused(q) \/ SyncStored(q)
               \/ SyncFailed(q) \/ SyncEnd(q) \/ SyncInspect(q)
        PROVE  clock' = clock /\ world' = world /\ deaths' \in {deaths, deaths + 1}
    BY <2>2
       DEF SyncBegin, SyncRead, SyncRefused, SyncStored, SyncFailed, SyncEnd, SyncInspect,
           OnlyMapping, systemVars
  <2> QED
    BY <1>2, <2>1, <2>2 DEF SyncNext
<1>3. CASE ExportNext
  <2>1. CASE AskExport \/ StoreExport \/ ExportCallDies
             \/ (\E e \in DOMAIN exports : Download(e)) \/ \E j \in dead[EXPORTS] : RequeueExport(j)
    BY <2>1 DEF AskExport, StoreExport, ExportCallDies, Download, RequeueExport, MayDie, systemVars
  <2>2. ASSUME NEW q, Begin(q) \/ Write(q) \/ WriteFails(q)
        PROVE  clock' = clock /\ world' = world /\ deaths' \in {deaths, deaths + 1}
    BY <2>2 DEF Begin, Write, WriteFails, systemVars
  <2> QED
    BY <1>3, <2>1, <2>2 DEF ExportNext
<1>4. CASE RenderNext
  <2>1. ASSUME \/ \E s \in Snapshots : Recheck(s)
               \/ \E o \in rechecking : CallQueue(o) \/ RecheckDies(o)
        PROVE  clock' = clock /\ world' = world /\ deaths' \in {deaths, deaths + 1}
    BY <2>1 DEF Recheck, CallQueue, RecheckDies, MayDie, systemVars
  <2>2. ASSUME NEW q, RenderBegins(q) \/ RenderEnds(q) \/ RenderFails(q)
        PROVE  clock' = clock /\ world' = world /\ deaths' \in {deaths, deaths + 1}
    BY <2>2 DEF RenderBegins, RenderEnds, RenderFails, systemVars
  <2> QED
    BY <1>4, <2>1, <2>2 DEF RenderNext
<1> QED
  BY <1>1, <1>2, <1>3, <1>4

LEMMA EvidenceNextInv == EvidenceInv /\ [Next]_vars => EvidenceInv'
<1> SUFFICES ASSUME EvidenceInv, [Next]_vars PROVE EvidenceInv'
  OBVIOUS
<1>1. CASE EvidenceNext
  BY <1>1, AdmitInv, StoreInv, CallInv, ForgetInv, ClaimInv, AnswerInv, CompleteInv, FailInv
     DEF EvidenceNext
<1>2. ASSUME RqNext \/ SyncNext \/ ExportNext \/ RenderNext, UNCHANGED evidenceVars
      PROVE  EvidenceInv'
  <2>1. Frame
    BY <1>2, RqFrame, SyncFrame, ExportFrame, RenderFrame DEF EvidenceInv
  <2>2. clock' \in Nat /\ world' = world
    BY <1>2, SystemStep DEF EvidenceInv
  <2> QED
    BY <1>2, <2>1, <2>2, OthersInv
<1>3. ASSUME UNCHANGED <<evidenceVars, rqVars, systemVars>>
      PROVE  EvidenceInv'
  <2>1. Frame
    BY <1>3, StutterFrame DEF EvidenceInv
  <2>2. clock' \in Nat /\ world' = world
    BY <1>3 DEF EvidenceInv, systemVars
  <2> QED
    BY <1>3, <2>1, <2>2, OthersInv
<1> QED
  BY <1>1, <1>2, <1>3 DEF Next, OnboardingNext, vars

\* An answer and its cost are recorded together, once, with the request that asked.
THEOREM PaidAnswersKept == Spec => []AnswersPaid
<1>1. EvidenceInv => AnswersPaid
  BY DEF EvidenceInv
<1> QED
  BY <1>1, EvidenceInitInv, EvidenceNextInv, PTL DEF Spec

\* A question is asked once a day.
THEOREM OneRequestPerDay == Spec => []AskedOncePerDay
<1>1. EvidenceInv => AskedOncePerDay
  BY DEF EvidenceInv
<1> QED
  BY <1>1, EvidenceInitInv, EvidenceNextInv, PTL DEF Spec

-----------------------------------------------------------------------------
(***************************************************************************)
(* The types of the queues, and of what the worker of an import works at.  *)
(***************************************************************************)

RangeOK == [from : Nat, to : Nat]

SyncWork(w) ==
    w.at \in {"syncing", "inspecting"} =>
        /\ DOMAIN w = {"job", "at", "todo", "ranges", "import", "failed"}
        /\ w.todo \subseteq Services
        /\ w.ranges \in Seq(RangeOK)
        /\ w.import \subseteq Import
        /\ w.import # {} \/ w.at = "inspecting" => w.todo # {} /\ w.ranges # <<>>

WorkOK == \A q \in Queues : SyncWork(worker[q])

\* The world stays, and the clock and the deaths are numbers.
Advance == world' = world /\ clock' \in Nat /\ deaths' \in Nat

LEMMA SystemAdvance ==
    ASSUME RqTypeOK, UNCHANGED systemVars \/ MayDie
    PROVE  Advance
BY DEF RqTypeOK, Advance, systemVars, MayDie

LEMMA StutterTypes ==
    ASSUME RqTypeOK, WorkOK, Advance, UNCHANGED rqVars
    PROVE  RqTypeOK' /\ WorkOK'
BY DEF RqTypeOK, WorkOK, Advance, rqVars, Job, Here

LEMMA NewJobTyped ==
    ASSUME RqTypeOK, NEW kind \in Kinds, NEW of \in Nat
    PROVE  NewJob(kind, of) \in Job
<1>1. Here.attempts \in Nat \ {0} /\ clock \in Nat
  BY RqAssumption DEF RqTypeOK, Here
<1> QED
  BY <1>1 DEF NewJob, Job

LEMMA EnqueueTypes ==
    ASSUME RqTypeOK, WorkOK, Advance, NEW q, NEW kind \in Kinds, NEW of \in Nat,
           Enqueue(q, kind, of)
    PROVE  RqTypeOK' /\ WorkOK'
<1> DEFINE j == NewJob(kind, of)
<1>1. j \in Job /\ Job' = Job
  BY NewJobTyped DEF Advance, Job, Here
<1>2. queue' = [queue EXCEPT ![q] = Append(@, j)] /\ UNCHANGED <<later, worker, dead>>
  BY DEF Enqueue
<1> HIDE DEF j
<1>3. queue' \in [Queues -> Seq(Job)]
  <2>1. ASSUME q \in Queues PROVE Append(queue[q], j) \in Seq(Job)
    BY <1>1, <2>1 DEF RqTypeOK
  <2> QED
    BY <1>2, <2>1 DEF RqTypeOK
<1> QED
  BY <1>1, <1>2, <1>3 DEF RqTypeOK, WorkOK, Advance

LEMMA CurrentTyped ==
    ASSUME RqTypeOK, RqInv, NEW q \in Queues, worker[q].at # "idle"
    PROVE  Current(q) \in Job
BY CurrentFacts DEF RqTypeOK

LEMMA GoesTypes ==
    ASSUME RqTypeOK, WorkOK, RqInv, Advance, NEW q \in Queues, NEW to, Goes(q, to),
           to.job = worker[q].job, SyncWork(to)
    PROVE  RqTypeOK' /\ WorkOK'
<1>1. /\ worker'[q] = to /\ UNCHANGED <<queue, later, dead>>
      /\ \A x \in Queues \ {q} : worker'[x] = worker[x]
  BY DEF Goes, RqInv
<1>2. Job' = Job
  BY DEF Advance, Job, Here
<1>3. \A x \in Queues : worker'[x].job = worker[x].job
  BY <1>1
<1> QED
  BY <1>1, <1>2, <1>3 DEF RqTypeOK, WorkOK, Advance

LEMMA GoesToTypes ==
    ASSUME RqTypeOK, WorkOK, RqInv, Advance, NEW q \in Queues, worker[q].at # "idle",
           NEW at, at \notin {"syncing", "inspecting"}, GoesTo(q, at)
    PROVE  RqTypeOK' /\ WorkOK'
<1>1. PICK to : to = [worker[q] EXCEPT !.at = at]
  OBVIOUS
<1>2. to.job = worker[q].job /\ to.at = at
  BY <1>1, CurrentFacts
<1>3. Goes(q, to) /\ SyncWork(to)
  BY <1>1, <1>2 DEF GoesTo, SyncWork
<1> QED
  BY <1>2, <1>3, GoesTypes

LEMMA ReleaseTypes ==
    ASSUME RqTypeOK, WorkOK, RqInv, Advance, NEW q \in Queues, worker[q].at # "idle",
           JobDone(q) \/ JobFails(q)
    PROVE  RqTypeOK' /\ WorkOK'
<1> DEFINE j == Current(q)
           again == [j EXCEPT !.left = @ - 1]
           letter == [kind |-> j.kind, of |-> j.of]
<1>1. j \in Job /\ Job' = Job
  BY CurrentTyped DEF Advance, Job, Here
<1>2. j.left > 0 => again \in Job
  <2>1. Here.attempts \in Nat
    BY RqAssumption DEF RqTypeOK, Here
  <2> QED
    BY <1>1, <2>1 DEF Job
<1>3. letter \in [kind : Kinds, of : Nat]
  BY <1>1 DEF Job
<1>4. /\ worker' = [worker EXCEPT ![q] = Idle] /\ UNCHANGED queue
      /\ \/ later' = later
         \/ later' = [later EXCEPT ![q] = @]
         \/ j.left > 0 /\ later' = [later EXCEPT ![q] = @ \union {again}]
      /\ \/ dead' = dead
         \/ dead' = [dead EXCEPT ![q] = @]
         \/ dead' = [dead EXCEPT ![q] = @ \union {letter}]
  BY DEF JobDone, JobFails
<1> HIDE DEF j, again, letter
<1>5. later' \in [Queues -> SUBSET Job]
  <2>1. ASSUME j.left > 0 PROVE later[q] \union {again} \subseteq Job
    BY <1>2, <2>1 DEF RqTypeOK
  <2> QED
    BY <1>4, <2>1 DEF RqTypeOK
<1>6. dead' \in [Queues -> SUBSET [kind : Kinds, of : Nat]]
  <2>1. dead[q] \union {letter} \subseteq [kind : Kinds, of : Nat]
    BY <1>3 DEF RqTypeOK
  <2> QED
    BY <1>4, <2>1 DEF RqTypeOK
<1>7. /\ worker'[q] = Idle /\ \A x \in Queues \ {q} : worker'[x] = worker[x]
      /\ Idle.job = {} /\ SyncWork(Idle)
  BY <1>4 DEF RqInv, Idle, SyncWork
<1>8. \A x \in Queues : worker'[x].job \subseteq Job /\ Cardinality(worker'[x].job) \in 0..1
  <2>1. Cardinality({}) = 0 /\ 0 \in 0..1
    BY FS_EmptySet
  <2> QED
    BY <1>7, <2>1 DEF RqTypeOK
<1> QED
  BY <1>1, <1>4, <1>5, <1>6, <1>7, <1>8 DEF RqTypeOK, WorkOK, Advance

LEMMA RqTypes ==
    ASSUME RqTypeOK, WorkOK, RqInv, RqNext
    PROVE  RqTypeOK' /\ WorkOK'
<1>1. CASE Tick
  <2>1. Advance /\ UNCHANGED rqVars
    BY <1>1 DEF Tick, RqTypeOK, Advance
  <2> QED
    BY <2>1, StutterTypes
<1>2. ASSUME NEW q \in Queues, Take(q) PROVE RqTypeOK' /\ WorkOK'
  <2> DEFINE h == Head(queue[q])
             to == [job |-> {h}, at |-> "begin"]
  <2>1. /\ queue[q] \in Seq(Job) /\ queue[q] # <<>> /\ UNCHANGED <<later, dead, world, clock, deaths>>
        /\ worker' = [worker EXCEPT ![q] = to] /\ queue' = [queue EXCEPT ![q] = Tail(@)]
    BY <1>2 DEF Take, RqTypeOK, systemVars
  <2>2. h \in Job /\ Tail(queue[q]) \in Seq(Job)
    BY <2>1
  <2>a. Job' = Job
    BY <2>1 DEF Job, Here
  <2> HIDE DEF h
  <2>3. queue' \in [Queues -> Seq(Job)]
    BY <2>1, <2>2 DEF RqTypeOK
  <2>4. /\ worker'[q] = to /\ \A x \in Queues \ {q} : worker'[x] = worker[x]
        /\ to.job = {h} /\ SyncWork(to)
    BY <2>1 DEF RqInv, SyncWork
  <2>5. \A x \in Queues : worker'[x].job \subseteq Job /\ Cardinality(worker'[x].job) \in 0..1
    <3>1. Cardinality({h}) = 1 /\ 1 \in 0..1
      BY FS_Singleton
    <3> QED
      BY <2>2, <2>4, <3>1 DEF RqTypeOK
  <2> QED
    BY <2>1, <2>2, <2>a, <2>3, <2>4, <2>5 DEF RqTypeOK, WorkOK
<1>3. ASSUME NEW q \in Queues, Finish(q) \/ WorkerDies(q) PROVE RqTypeOK' /\ WorkOK'
  BY <1>3, SystemAdvance, ReleaseTypes DEF Finish, WorkerDies, At
<1>4. ASSUME NEW q \in Queues, NEW j \in later[q], NextAttempt(q, j) PROVE RqTypeOK' /\ WorkOK'
  <2>1. /\ later' = [later EXCEPT ![q] = @ \ {j}] /\ queue' = [queue EXCEPT ![q] = Append(@, j)]
        /\ UNCHANGED <<worker, dead, world, clock, deaths>>
    BY <1>4 DEF NextAttempt, systemVars
  <2>2. j \in Job /\ Job' = Job /\ queue[q] \in Seq(Job)
    BY <2>1 DEF RqTypeOK, Job, Here
  <2>3. queue' \in [Queues -> Seq(Job)] /\ later' \in [Queues -> SUBSET Job]
    <3>1. Append(queue[q], j) \in Seq(Job)
      BY <2>2
    <3> QED
      BY <2>1, <3>1 DEF RqTypeOK
  <2> QED
    BY <2>1, <2>2, <2>3 DEF RqTypeOK, WorkOK
<1> QED
  BY <1>1, <1>2, <1>3, <1>4 DEF RqNext

-----------------------------------------------------------------------------
(***************************************************************************)
(* Imports.  Nothing is imported before the history it may ask for has     *)
(* begun, and what an import has read is of a property.                    *)
(***************************************************************************)

SyncOK ==
    /\ SyncTypeOK
    /\ Mapped # {} => clock > HistoryDays
    /\ \A s \in Services : s \in Here.mappable => clock > HistoryDays

LEMMA NextOfTodo ==
    ASSUME NEW todo \in SUBSET Services, todo # {}
    PROVE  NextOf(todo) \in todo
<1> DEFINE Is(k) == SyncOrder[k] \in todo /\ \A l \in 1..(k - 1) : SyncOrder[l] \notin todo
<1>1. DOMAIN SyncOrder = 1..4
  BY DEF SyncOrder
<1>2. \E k \in DOMAIN SyncOrder : Is(k)
  <2>1. CASE "search_console" \in todo
    BY <1>1, <2>1, Is(1) DEF SyncOrder
  <2>2. CASE "search_console" \notin todo /\ "ga4" \in todo
    <3>1. Is(2)
      BY <2>2 DEF SyncOrder
    <3> QED
      BY <1>1, <3>1
  <2>3. CASE "search_console" \notin todo /\ "ga4" \notin todo /\ "matomo" \in todo
    <3>1. Is(3)
      BY <2>3 DEF SyncOrder
    <3> QED
      BY <1>1, <3>1
  <2>4. CASE todo = {"bing_webmaster"}
    <3>1. Is(4)
      BY <2>4 DEF SyncOrder
    <3> QED
      BY <1>1, <3>1
  <2> QED
    BY <2>1, <2>2, <2>3, <2>4 DEF Services
<1>3. Is(CHOOSE k \in DOMAIN SyncOrder : Is(k))
  BY <1>2
<1> QED
  BY <1>3 DEF NextOf

\* A day count of a regular import is one of the two.
LEMMA DaysTyped ==
    ASSUME NEW s, NEW from
    PROVE  RegularDays(s, from) \in {HistoryDays, RecentDays}
BY DEF RegularDays, DaysOnce, DaysFromStart

LEMMA ChunksTyped ==
    ASSUME NEW to \in Nat, to >= HistoryDays
    PROVE  Chunks(to) \in Seq(RangeOK) /\ Chunks(to) # <<>>
<1> DEFINE from == to - HistoryDays + 1
           n == (HistoryDays + RecentDays - 1) \div RecentDays
           End(i) == IF from + i * RecentDays - 1 < to THEN from + i * RecentDays - 1 ELSE to
<1>1. HistoryDays \in Nat /\ RecentDays \in Nat /\ RecentDays > 0 /\ RecentDays < HistoryDays
  BY SyncAssumption
<1>2. n \in Nat /\ n >= 1
  BY <1>1
<1>3. from \in Nat /\ from >= 1
  BY <1>1
<1>4. ASSUME NEW i \in 1..n
      PROVE  from + (i - 1) * RecentDays \in Nat /\ End(i) \in Nat
  <2>1. i * RecentDays \in Nat /\ (i - 1) * RecentDays \in Nat
    BY <1>1, <1>2
  <2> QED
    BY <1>3, <2>1
<1> HIDE DEF from, n, End
<1>5. Chunks(to) = [i \in 1..n |-> [from |-> from + (i - 1) * RecentDays, to |-> End(i)]]
  BY DEF Chunks, from, n, End
<1>6. Chunks(to) \in [1..n -> RangeOK]
  BY <1>4, <1>5 DEF RangeOK
<1> QED
  BY <1>2, <1>6

LEMMA RangesTyped ==
    ASSUME NEW s \in Services, NEW kind, clock \in Nat, clock > HistoryDays
    PROVE  /\ Ranges(s, kind) \in Seq(RangeOK) /\ Ranges(s, kind) # <<>>
           /\ kind = "sync" =>
                Ranges(s, kind) =
                  <<[from |-> LastDay(s) - RegularDays(s, mapping[s].settings.from) + 1,
                     to |-> LastDay(s)]>>
<1> DEFINE to == LastDay(s)
           days == IF kind = "sync" THEN RegularDays(s, mapping[s].settings.from) ELSE HistoryDays
<1>1. HistoryDays \in Nat /\ RecentDays \in Nat /\ RecentDays < HistoryDays
  BY SyncAssumption
<1>2. to \in Nat /\ to >= HistoryDays
  BY <1>1 DEF LastDay
<1>3. days \in {HistoryDays, RecentDays}
  BY DaysTyped
<1>4. (Ranges(s, kind) = Chunks(to) /\ kind # "sync")
      \/ Ranges(s, kind) = <<[from |-> to - days + 1, to |-> to]>>
  BY DEF Ranges
<1>7. kind = "sync" =>
        Ranges(s, kind) = <<[from |-> to - RegularDays(s, mapping[s].settings.from) + 1, to |-> to]>>
  BY DEF Ranges
<1> HIDE DEF to, days
<1>5. [from |-> to - days + 1, to |-> to] \in RangeOK
  BY <1>1, <1>2, <1>3 DEF RangeOK
<1>6. Ranges(s, kind) \in Seq(RangeOK) /\ Ranges(s, kind) # <<>>
  <2>1. Chunks(to) \in Seq(RangeOK) /\ Chunks(to) # <<>>
    BY <1>2, ChunksTyped
  <2>2. ASSUME NEW x \in RangeOK PROVE <<x>> \in Seq(RangeOK) /\ <<x>> # <<>>
    OBVIOUS
  <2> QED
    BY <1>4, <1>5, <2>1, <2>2
<1> QED
  BY <1>6, <1>7 DEF to

LEMMA ReadForTyped ==
    ASSUME SyncTypeOK, NEW s \in Mapped, NEW from \in Nat, NEW to \in Nat, NEW regular \in BOOLEAN
    PROVE  ReadFor(s, from, to, regular) \in Import
<1>1. s \in Services /\ mapping[s] \in Mapping /\ mapping[s].property # "none"
  BY DEF Mapped, SyncTypeOK
<1>2. mapping[s].property \in Properties /\ mapping[s].settings \in Settings
  BY <1>1 DEF Mapping
<1> QED
  BY <1>1, <1>2 DEF ReadFor, Import

\* A mapping with other settings and other marks.
LEMMA MappingOf ==
    ASSUME NEW m \in Mapping, NEW error \in BOOLEAN, NEW synced \in Nat, NEW settings \in Settings
    PROVE  /\ [m EXCEPT !.error = error, !.synced = synced, !.settings = settings] \in Mapping
           /\ [m EXCEPT !.error = error, !.settings = settings] \in Mapping
           /\ [m EXCEPT !.settings = settings] \in Mapping
BY DEF Mapping

LEMMA CommitTypes ==
    ASSUME SyncTypeOK, clock \in Nat, NEW i \in Import, Commit(i)
    PROVE  /\ mapping' \in [Services -> Mapping]
           /\ stored' \in [Tables -> [1..Here.end -> Properties \union {"none"}]]
           /\ gaps' \in [Services -> Seq(Nat)]
           /\ \A s \in Services : \A d \in 1..Here.end :
                 stored[s][d] # "none" => stored'[s][d] # "none"
<1> DEFINE s == i.service
           Days == [1..Here.end -> Properties \union {"none"}]
           pages == Replaced(s, i, i.property)
           settings == [i.settings EXCEPT !.from = i.from]
<1>1. /\ s \in Services /\ s \in Tables /\ i.property \in Properties /\ i.property # "none"
      /\ i.from \in Nat /\ i.to \in Nat /\ i.settings \in Settings
  BY SyncAssumption DEF Import, Tables
<1>2. ASSUME NEW t \in Tables, NEW by \in Properties \union {"none"}
      PROVE  Replaced(t, i, by) \in Days
  BY <1>2 DEF Replaced, SyncTypeOK
<1>3. PICK by \in Delivered(i) :
        stored' = [stored EXCEPT ![s] = pages,
                      !["matomo_aggregates"] =
                          IF s = "matomo" THEN Replaced("matomo_aggregates", i, by) ELSE @]
  BY DEF Commit
<1>4. by \in Properties \union {"none"}
  BY <1>1, <1>3 DEF Delivered
<1>5. stored' \in [Tables -> Days] /\ stored'[s] = pages
      /\ \A t \in Services \ {s} : stored'[t] = stored[t]
  <2>1. pages \in Days /\ Replaced("matomo_aggregates", i, by) \in Days
    BY <1>1, <1>2, <1>4 DEF Tables
  <2> HIDE DEF pages
  <2>2. "matomo_aggregates" \notin Services /\ Services \subseteq Tables
    BY DEF Services, Tables
  <2> QED
    BY <1>1, <1>3, <2>1, <2>2 DEF SyncTypeOK
<1>6. mapping' \in [Services -> Mapping]
  <2>1. settings \in Settings
    BY <1>1 DEF Settings
  <2>2. [mapping[s] EXCEPT !.error = FALSE, !.synced = clock, !.settings = settings] \in Mapping
    BY <1>1, <2>1, MappingOf DEF SyncTypeOK
  <2> HIDE DEF settings
  <2>3. mapping' = [mapping EXCEPT ![s] =
                      [mapping[s] EXCEPT !.error = FALSE, !.synced = clock, !.settings = settings]]
    BY <1>1 DEF Commit, settings, SyncTypeOK
  <2> QED
    BY <1>1, <2>2, <2>3 DEF SyncTypeOK
<1>7. gaps' \in [Services -> Seq(Nat)]
  <2>1. gaps[s] \in Seq(Nat) /\ Append(gaps[s], i.to) \in Seq(Nat) /\ <<>> \in Seq(Nat)
    BY <1>1 DEF SyncTypeOK
  <2>2. gaps' = [gaps EXCEPT ![s] = Append(@, i.to)] \/ gaps' = [gaps EXCEPT ![s] = <<>>]
    BY DEF Commit
  <2> QED
    BY <2>1, <2>2 DEF SyncTypeOK
<1>8. ASSUME NEW t \in Services, NEW d \in 1..Here.end, stored[t][d] # "none"
      PROVE  stored'[t][d] # "none"
  BY <1>1, <1>5, <1>8 DEF Replaced
<1> QED
  BY <1>5, <1>6, <1>7, <1>8

LEMMA NotDeliveredTypes ==
    ASSUME SyncTypeOK, NEW i \in Import, NotDelivered(i) \/ NotStored
    PROVE  mapping' \in [Services -> Mapping] /\ UNCHANGED <<stored, gaps>>
<1>1. i.service \in Services /\ i.settings \in Settings
  BY DEF Import
<1>2. [mapping[i.service] EXCEPT !.error = TRUE, !.settings = i.settings] \in Mapping
  <2>1. mapping[i.service] \in Mapping
    BY <1>1 DEF SyncTypeOK
  <2> QED
    BY <1>1, <2>1 DEF Mapping
<1> QED
  BY <1>1, <1>2 DEF NotDelivered, NotStored, SyncTypeOK

LEMMA WithSettingTypes ==
    ASSUME SyncTypeOK, clock \in Nat,
           NEW history \in {"none", "queued", "running", "succeeded", "failed"}, NEW day \in Nat
    PROVE  /\ WithSetting("history", history) \in [Services -> Mapping]
           /\ WithSetting("queued", day) \in [Services -> Mapping]
<1> SUFFICES ASSUME NEW s \in Services
             PROVE  /\ [mapping[s] EXCEPT !.settings["history"] = history] \in Mapping
                    /\ [mapping[s] EXCEPT !.settings["queued"] = day] \in Mapping
                    /\ mapping[s] \in Mapping
  BY DEF WithSetting
<1>1. mapping[s] \in Mapping /\ mapping[s].settings \in Settings
  BY DEF SyncTypeOK, Mapping
<1>2. /\ [mapping[s].settings EXCEPT !["history"] = history] \in Settings
      /\ [mapping[s].settings EXCEPT !["queued"] = day] \in Settings
  BY <1>1 DEF Settings
<1> QED
  BY <1>1, <1>2 DEF Mapping

\* The settings change but not what is mapped, nor where the last import began.
LEMMA WithSettingKeeps ==
    ASSUME SyncTypeOK, NEW field \in {"history", "queued"}, NEW value,
           mapping' = WithSetting(field, value)
    PROVE  /\ Mapped' = Mapped
           /\ \A s \in Services : mapping'[s].property = mapping[s].property
           /\ \A s \in Services : mapping'[s].settings.from = mapping[s].settings.from
<1> SUFFICES ASSUME NEW s \in Services
             PROVE  /\ mapping'[s].property = mapping[s].property
                    /\ mapping'[s].settings.from = mapping[s].settings.from
  BY DEF Mapped
<1>1. mapping[s] \in Mapping /\ mapping[s].settings \in Settings
  BY DEF SyncTypeOK, Mapping
<1>2. PICK settings : settings = [mapping[s].settings EXCEPT ![field] = value]
  OBVIOUS
<1>3. settings.from = mapping[s].settings.from
  BY <1>1, <1>2 DEF Settings
<1>4. mapping'[s] = [mapping[s] EXCEPT !.settings = settings] \/ mapping'[s] = mapping[s]
  BY <1>2 DEF WithSetting
<1> QED
  BY <1>1, <1>3, <1>4 DEF Mapping

LEMMA ImportKeepsMapped ==
    ASSUME SyncTypeOK, NEW i \in Import, Commit(i) \/ NotDelivered(i) \/ NotStored
    PROVE  /\ Mapped' = Mapped
           /\ \A s \in Services : mapping'[s].property = mapping[s].property
<1>1. i.service \in Services /\ mapping[i.service] \in Mapping
  BY DEF Import, SyncTypeOK
<1>2. PICK m : /\ m.property = mapping[i.service].property
               /\ mapping' = [mapping EXCEPT ![i.service] = m] \/ mapping' = mapping
  <2>1. CASE Commit(i)
    <3>1. PICK m : m = [mapping[i.service] EXCEPT !.error = FALSE, !.synced = clock,
                          !.settings = [i.settings EXCEPT !.from = i.from]]
      OBVIOUS
    <3>2. m.property = mapping[i.service].property
      BY <1>1, <3>1 DEF Mapping
    <3>3. mapping' = [mapping EXCEPT ![i.service] = m]
      BY <1>1, <2>1, <3>1 DEF Commit, SyncTypeOK
    <3> QED
      BY <3>2, <3>3
  <2>2. CASE NotDelivered(i)
    <3>1. PICK m : m = [mapping[i.service] EXCEPT !.error = TRUE, !.settings = i.settings]
      OBVIOUS
    <3>2. m.property = mapping[i.service].property
      BY <1>1, <3>1 DEF Mapping
    <3>3. mapping' = [mapping EXCEPT ![i.service] = m]
      BY <1>1, <2>2, <3>1 DEF NotDelivered, SyncTypeOK
    <3> QED
      BY <3>2, <3>3
  <2>3. CASE NotStored
    BY <2>3 DEF NotStored
  <2> QED
    BY <2>1, <2>2, <2>3
<1>3. \A s \in Services : mapping'[s].property = mapping[s].property
  BY <1>1, <1>2 DEF SyncTypeOK
<1> QED
  BY <1>3 DEF Mapped

LEMMA SyncOKKept ==
    ASSUME SyncOK, UNCHANGED systemVars, SyncTypeOK', Mapped' = Mapped
    PROVE  SyncOK'
BY DEF SyncOK, systemVars, Here

\* Requests: mappings, connections, asking for imports, and the import of an administrator.
LEMMA SyncRequestTypes ==
    ASSUME RqTypeOK, WorkOK, SyncOK,
           \/ \E s \in Services : \E p \in Properties : Upsert(s, p)
           \/ ChooseKeyEvents
           \/ \E provider \in {"google", "bing", "matomo"} : Connect(provider)
           \/ ScheduleSync \/ AskHistory
           \/ \E s \in Services : ManualRead(s)
           \/ \E i \in manual : ManualEnd(i)
    PROVE  RqTypeOK' /\ WorkOK' /\ SyncOK'
<1>0. clock \in Nat /\ SyncTypeOK
  BY DEF RqTypeOK, SyncOK
<1>a. UNCHANGED <<rqVars, systemVars>> => RqTypeOK' /\ WorkOK'
  BY SystemAdvance, StutterTypes
<1>1. ASSUME NEW s \in Services, NEW p \in Properties, Upsert(s, p)
      PROVE  RqTypeOK' /\ WorkOK' /\ SyncOK'
  <2>1. UNCHANGED <<connected, stored, manual, gaps, rqVars, systemVars>> /\ s \in Here.mappable
    BY <1>1 DEF Upsert, OnlyMapping
  <2>2. mapping' \in [Services -> Mapping]
    <3>1. PICK m : m = [[mapping[s] EXCEPT !.property = p] EXCEPT !.error = FALSE]
      OBVIOUS
    <3>2. m \in Mapping
      BY <1>0, <3>1 DEF SyncTypeOK, Mapping
    <3>3. mapping' = [mapping EXCEPT ![s] = m]
      BY <1>0, <1>1, <3>1 DEF Upsert, SyncTypeOK
    <3> QED
      BY <1>0, <3>2, <3>3 DEF SyncTypeOK
  <2>3. SyncTypeOK'
    BY <1>0, <2>1, <2>2 DEF SyncTypeOK, systemVars, Here
  <2> QED
    BY <1>a, <2>1, <2>3 DEF SyncOK, systemVars, Here
<1>2. CASE ChooseKeyEvents
  <2>1. UNCHANGED <<connected, stored, manual, gaps, rqVars, systemVars>>
    BY <1>2 DEF ChooseKeyEvents, OnlyMapping
  <2>2. PICK m : /\ m = [mapping["ga4"] EXCEPT !.settings = [mapping["ga4"].settings EXCEPT !.events = TRUE]]
    OBVIOUS
  <2>3. mapping["ga4"] \in Mapping /\ mapping["ga4"].settings \in Settings /\ "ga4" \in Services
    BY <1>0 DEF SyncTypeOK, Mapping, Services
  <2>4. [mapping["ga4"].settings EXCEPT !.events = TRUE] \in Settings
    BY <2>3 DEF Settings
  <2>5. m \in Mapping /\ m.property = mapping["ga4"].property
    BY <2>2, <2>3, <2>4 DEF Mapping
  <2>6. mapping' = [mapping EXCEPT !["ga4"] = m]
    BY <1>0, <1>2, <2>2, <2>3 DEF ChooseKeyEvents, SyncTypeOK
  <2>7. mapping' \in [Services -> Mapping] /\ Mapped' = Mapped
    BY <1>0, <2>3, <2>5, <2>6 DEF SyncTypeOK, Mapped
  <2>8. SyncTypeOK'
    BY <1>0, <2>1, <2>7 DEF SyncTypeOK, systemVars, Here
  <2> QED
    BY <1>a, <2>1, <2>7, <2>8, SyncOKKept
<1>3. ASSUME NEW provider \in {"google", "bing", "matomo"}, Connect(provider)
      PROVE  RqTypeOK' /\ WorkOK' /\ SyncOK'
  <2>1. /\ UNCHANGED <<mapping, stored, manual, gaps, rqVars, systemVars>>
        /\ connected' = connected \union {provider}
    BY <1>3 DEF Connect
  <2>2. SyncTypeOK' /\ Mapped' = Mapped
    BY <1>0, <2>1 DEF SyncTypeOK, systemVars, Here, Mapped
  <2> QED
    BY <1>a, <2>1, <2>2, SyncOKKept
<1>4. CASE ScheduleSync \/ AskHistory
  <2>1. /\ UNCHANGED <<connected, stored, manual, gaps, systemVars>>
        /\ \/ UNCHANGED rqVars
           \/ \E kind \in {"sync", "history"} : Enqueue("integrations", kind, 0)
        /\ \/ mapping' = WithSetting("history", "queued")
           \/ mapping' = WithSetting("queued", clock)
           \/ mapping' = WithSetting("queued", 0)
    BY <1>4 DEF ScheduleSync, AskHistory, OnlyMapping
  <2>2. RqTypeOK' /\ WorkOK'
    <3>1. ASSUME NEW kind \in {"sync", "history"}, Enqueue("integrations", kind, 0)
          PROVE  RqTypeOK' /\ WorkOK'
      BY <2>1, <3>1, SystemAdvance, EnqueueTypes DEF Kinds
    <3> QED
      BY <1>a, <2>1, <3>1
  <2>3. mapping' \in [Services -> Mapping] /\ Mapped' = Mapped
    <3>1. /\ WithSetting("history", "queued") \in [Services -> Mapping]
          /\ WithSetting("queued", clock) \in [Services -> Mapping]
          /\ WithSetting("queued", 0) \in [Services -> Mapping]
      BY <1>0, WithSettingTypes
    <3> QED
      BY <1>0, <2>1, <3>1, WithSettingKeeps
  <2>4. SyncTypeOK'
    BY <1>0, <2>1, <2>3 DEF SyncTypeOK, systemVars, Here
  <2> QED
    BY <2>1, <2>2, <2>3, <2>4, SyncOKKept
<1>5. ASSUME NEW s \in Services, ManualRead(s)
      PROVE  RqTypeOK' /\ WorkOK' /\ SyncOK'
  <2>1. PICK to : /\ UNCHANGED <<mapping, connected, stored, gaps, rqVars, systemVars>>
                  /\ s \in Mapped /\ to = LastDay(s)
                  /\ manual' = {ReadFor(s, to - RecentDays + 1, to, FALSE)}
    BY <1>5 DEF ManualRead, Readable
  <2>2. to \in Nat /\ to - RecentDays + 1 \in Nat
    <3>1. clock > HistoryDays
      BY <2>1 DEF SyncOK
    <3> QED
      BY <1>0, <2>1, <3>1, SyncAssumption DEF LastDay
  <2>3. ReadFor(s, to - RecentDays + 1, to, FALSE) \in Import
    BY <1>0, <2>1, <2>2, ReadForTyped
  <2>4. SyncTypeOK' /\ Mapped' = Mapped
    BY <1>0, <2>1, <2>3 DEF SyncTypeOK, systemVars, Here, Mapped
  <2> QED
    BY <1>a, <2>1, <2>4, SyncOKKept
<1>6. ASSUME NEW i \in manual, ManualEnd(i)
      PROVE  RqTypeOK' /\ WorkOK' /\ SyncOK'
  <2>1. /\ UNCHANGED <<connected, rqVars, systemVars>> /\ manual' = {}
        /\ Commit(i) \/ NotDelivered(i) \/ NotStored
        /\ i \in Import
    BY <1>0, <1>6 DEF ManualEnd, SyncTypeOK
  <2>2. /\ mapping' \in [Services -> Mapping] /\ gaps' \in [Services -> Seq(Nat)]
        /\ stored' \in [Tables -> [1..Here.end -> Properties \union {"none"}]]
    BY <1>0, <2>1, CommitTypes, NotDeliveredTypes DEF SyncTypeOK
  <2>3. SyncTypeOK'
    BY <1>0, <2>1, <2>2 DEF SyncTypeOK, systemVars, Here
  <2> QED
    BY <1>0, <1>a, <2>1, <2>3, ImportKeepsMapped, SyncOKKept
<1> QED
  BY <1>1, <1>2, <1>3, <1>4, <1>5, <1>6

\* The service is done with, or given up.
LEMMA NextServiceTypes ==
    ASSUME NEW w, DOMAIN w = {"job", "at", "todo", "ranges", "import", "failed"},
           w.todo \subseteq Services, w.at = "syncing"
    PROVE  /\ SyncWork(Failed(w)) /\ Failed(w).job = w.job
           /\ SyncWork(Ready(w)) /\ Ready(w).job = w.job
<1>1. PICK todo : todo = w.todo \ {NextOf(w.todo)} /\ todo \subseteq Services
  OBVIOUS
<1>2. <<>> \in Seq(RangeOK)
  OBVIOUS
<1>3. /\ Failed(w).at = "syncing" /\ Failed(w).job = w.job /\ Failed(w).todo = todo
      /\ Failed(w).ranges = <<>> /\ Failed(w).import = {} /\ DOMAIN Failed(w) = DOMAIN w
  BY <1>1 DEF Failed
<1>4. /\ Ready(w).at = "syncing" /\ Ready(w).job = w.job /\ Ready(w).todo = todo
      /\ Ready(w).ranges = <<>> /\ Ready(w).import = {} /\ DOMAIN Ready(w) = DOMAIN w
  BY <1>1 DEF Ready
<1> QED
  BY <1>1, <1>2, <1>3, <1>4 DEF SyncWork

\* The job: the worker reads, imports and inspects one service after the other.
LEMMA SyncJobTypes ==
    ASSUME RqTypeOK, WorkOK, RqInv, SyncOK, NEW q \in Queues,
           \/ worker[q].at = "begin" /\ SyncBegin(q)
           \/ /\ worker[q].at = "syncing"
              /\ SyncRead(q) \/ SyncRefused(q) \/ SyncStored(q) \/ SyncFailed(q) \/ SyncEnd(q)
           \/ worker[q].at = "inspecting" /\ SyncInspect(q)
    PROVE  RqTypeOK' /\ WorkOK' /\ SyncOK'
<1>0. clock \in Nat /\ SyncTypeOK
  BY DEF RqTypeOK, SyncOK
<1>a. ASSUME UNCHANGED systemVars, NEW to, Goes(q, to), to.job = worker[q].job, SyncWork(to)
      PROVE  RqTypeOK' /\ WorkOK'
  BY <1>a, SystemAdvance, GoesTypes
<1>b. UNCHANGED <<syncVars, systemVars>> => SyncOK'
  BY SyncOKKept DEF SyncOK, SyncTypeOK, Mapped, syncVars, systemVars, Here
<1>1. CASE worker[q].at = "begin" /\ SyncBegin(q)
  <2>1. /\ mapping' = WithSetting("history", "running")
        /\ UNCHANGED <<connected, stored, manual, gaps, systemVars>>
    BY <1>1 DEF SyncBegin, ShowHistory, OnlyMapping
  <2>2. PICK to : /\ to = [job |-> worker[q].job, at |-> "syncing", todo |-> Mapped,
                           ranges |-> <<>>, import |-> {}, failed |-> FALSE]
                  /\ Goes(q, to)
    BY <1>1 DEF SyncBegin, Busy
  <2>3. to.job = worker[q].job /\ SyncWork(to)
    <3>1. /\ to.at = "syncing" /\ to.todo = Mapped /\ to.ranges = <<>> /\ to.import = {}
          /\ to.job = worker[q].job
          /\ DOMAIN to = {"job", "at", "todo", "ranges", "import", "failed"}
      BY <2>2
    <3>2. Mapped \subseteq Services /\ <<>> \in Seq(RangeOK)
      BY DEF Mapped
    <3> QED
      BY <3>1, <3>2 DEF SyncWork
  <2>4. RqTypeOK' /\ WorkOK'
    BY <1>a, <2>1, <2>2, <2>3
  <2>5. mapping' \in [Services -> Mapping] /\ Mapped' = Mapped
    BY <1>0, <2>1, WithSettingTypes, WithSettingKeeps
  <2>6. SyncTypeOK'
    BY <1>0, <2>1, <2>5 DEF SyncTypeOK, systemVars, Here
  <2> QED
    BY <2>1, <2>4, <2>5, <2>6, SyncOKKept
<1>2. ASSUME worker[q].at \in {"syncing", "inspecting"}
      PROVE  /\ DOMAIN worker[q] = {"job", "at", "todo", "ranges", "import", "failed"}
             /\ worker[q].todo \subseteq Services
             /\ worker[q].ranges \in Seq(RangeOK)
             /\ worker[q].import \subseteq Import
             /\ worker[q].import # {} \/ worker[q].at = "inspecting"
                => worker[q].todo # {} /\ worker[q].ranges # <<>>
  BY <1>2 DEF WorkOK, SyncWork
<1>3. CASE worker[q].at = "syncing" /\ SyncRead(q)
  <2>1. PICK s, ranges, r, import :
          /\ s = NextOf(worker[q].todo) /\ worker[q].todo # {} /\ s \in Mapped
          /\ ranges = IF worker[q].ranges = <<>> THEN Ranges(s, Current(q).kind) ELSE worker[q].ranges
          /\ r = Head(ranges)
          /\ import = ReadFor(s, r.from, r.to, Current(q).kind = "sync")
          /\ Goes(q, [worker[q] EXCEPT !.ranges = ranges, !.import = {import}])
          /\ UNCHANGED <<syncVars, systemVars>>
    BY <1>3 DEF SyncRead, Busy, Readable
  <2>2. ranges \in Seq(RangeOK) /\ ranges # <<>>
    <3>1. s \in Services /\ clock > HistoryDays
      BY <2>1 DEF SyncOK, Mapped
    <3>2. Ranges(s, Current(q).kind) \in Seq(RangeOK) /\ Ranges(s, Current(q).kind) # <<>>
      BY <1>0, <3>1, RangesTyped
    <3> QED
      BY <1>2, <1>3, <2>1, <3>2
  <2>3. r \in RangeOK
    <3>1. \A x \in Seq(RangeOK) : x # <<>> => Head(x) \in RangeOK
      OBVIOUS
    <3> QED
      BY <2>1, <2>2, <3>1
  <2>4. import \in Import
    <3>1. r.from \in Nat /\ r.to \in Nat /\ (Current(q).kind = "sync") \in BOOLEAN
      BY <2>3 DEF RangeOK
    <3> QED
      BY <1>0, <2>1, <3>1, ReadForTyped
  <2>5. PICK to : to = [worker[q] EXCEPT !.ranges = ranges, !.import = {import}]
    OBVIOUS
  <2>6. /\ to.job = worker[q].job /\ to.at = "syncing" /\ to.todo = worker[q].todo
        /\ to.ranges = ranges /\ to.import = {import} /\ DOMAIN to = DOMAIN worker[q]
    BY <1>2, <1>3, <2>5
  <2>7. SyncWork(to)
    BY <1>2, <1>3, <2>1, <2>2, <2>4, <2>6 DEF SyncWork
  <2> QED
    BY <1>a, <1>b, <2>1, <2>5, <2>6, <2>7
<1>4. CASE worker[q].at = "syncing" /\ SyncRefused(q)
  <2>1. /\ UNCHANGED <<mapping, stored, manual, gaps, systemVars>> /\ connected' \subseteq connected
        /\ Goes(q, Failed(worker[q]))
    BY <1>4 DEF SyncRefused, Refused, Busy
  <2>2. RqTypeOK' /\ WorkOK'
    BY <1>2, <1>4, <1>a, <2>1, NextServiceTypes
  <2>3. SyncTypeOK' /\ Mapped' = Mapped
    BY <1>0, <2>1 DEF SyncTypeOK, systemVars, Here, Mapped
  <2> QED
    BY <2>1, <2>2, <2>3, SyncOKKept
<1>5. ASSUME NEW i \in worker[q].import, Commit(i) \/ NotDelivered(i) \/ NotStored,
             worker[q].at = "syncing", UNCHANGED <<connected, manual, systemVars>>
      PROVE  SyncOK'
  <2>1. i \in Import
    BY <1>2, <1>5
  <2>2. /\ mapping' \in [Services -> Mapping] /\ gaps' \in [Services -> Seq(Nat)]
        /\ stored' \in [Tables -> [1..Here.end -> Properties \union {"none"}]]
    BY <1>0, <1>5, <2>1, CommitTypes, NotDeliveredTypes DEF SyncTypeOK
  <2>3. SyncTypeOK'
    BY <1>0, <1>5, <2>2 DEF SyncTypeOK, systemVars, Here
  <2> QED
    BY <1>0, <1>5, <2>1, <2>3, ImportKeepsMapped, SyncOKKept
<1>6. CASE worker[q].at = "syncing" /\ SyncStored(q)
  <2>a. PICK i \in worker[q].import :
          \E to : /\ Commit(i) /\ Goes(q, to) /\ UNCHANGED <<connected, manual, systemVars>>
                  /\ \/ to = [worker[q] EXCEPT !.ranges = Tail(@), !.import = {}]
                     \/ to = [worker[q] EXCEPT !.at = "inspecting"]
                     \/ to = Ready(worker[q])
    BY <1>6 DEF SyncStored, Busy
  <2>1. PICK to :
          /\ Commit(i) /\ Goes(q, to) /\ UNCHANGED <<connected, manual, systemVars>>
          /\ \/ to = [worker[q] EXCEPT !.ranges = Tail(@), !.import = {}]
             \/ to = [worker[q] EXCEPT !.at = "inspecting"]
             \/ to = Ready(worker[q])
    BY <2>a
  <2>2. to.job = worker[q].job /\ SyncWork(to)
    <3>1. CASE to = [worker[q] EXCEPT !.ranges = Tail(@), !.import = {}]
      <4>1. /\ to.job = worker[q].job /\ to.at = "syncing" /\ to.todo = worker[q].todo
            /\ to.ranges = Tail(worker[q].ranges) /\ to.import = {} /\ DOMAIN to = DOMAIN worker[q]
        BY <1>2, <1>6, <3>1
      <4>2. Tail(worker[q].ranges) \in Seq(RangeOK)
        <5>1. \A x \in Seq(RangeOK) : x # <<>> => Tail(x) \in Seq(RangeOK)
          OBVIOUS
        <5> QED
          BY <1>2, <1>6, <2>1, <5>1
      <4> QED
        BY <1>2, <1>6, <4>1, <4>2 DEF SyncWork
    <3>2. CASE to = [worker[q] EXCEPT !.at = "inspecting"]
      <4>1. /\ to.job = worker[q].job /\ to.at = "inspecting" /\ to.todo = worker[q].todo
            /\ to.ranges = worker[q].ranges /\ to.import = worker[q].import
            /\ DOMAIN to = DOMAIN worker[q]
        BY <1>2, <1>6, <3>2
      <4> QED
        BY <1>2, <1>6, <2>1, <4>1 DEF SyncWork
    <3>3. CASE to = Ready(worker[q])
      BY <1>2, <1>6, <3>3, NextServiceTypes
    <3> QED
      BY <2>1, <3>1, <3>2, <3>3
  <2> QED
    BY <1>5, <1>6, <1>a, <2>1, <2>2
<1>7. CASE worker[q].at = "syncing" /\ SyncFailed(q)
  <2>1. PICK i \in worker[q].import :
          /\ NotDelivered(i) \/ NotStored
          /\ Goes(q, Failed(worker[q])) /\ UNCHANGED <<connected, manual, systemVars>>
    BY <1>7 DEF SyncFailed, Busy
  <2>2. RqTypeOK' /\ WorkOK'
    BY <1>2, <1>7, <1>a, <2>1, NextServiceTypes
  <2> QED
    BY <1>5, <1>7, <2>1, <2>2
<1>8. CASE worker[q].at = "syncing" /\ SyncEnd(q)
  <2>1. /\ JobFails(q) \/ GoesTo(q, "done")
        /\ mapping' = WithSetting("history", "failed") \/ mapping' = WithSetting("history", "succeeded")
        /\ UNCHANGED <<connected, stored, manual, gaps, systemVars>>
    BY <1>8 DEF SyncEnd, ShowHistory, OnlyMapping
  <2>2. RqTypeOK' /\ WorkOK'
    BY <1>8, <2>1, SystemAdvance, ReleaseTypes, GoesToTypes
  <2>3. mapping' \in [Services -> Mapping] /\ Mapped' = Mapped
    BY <1>0, <2>1, WithSettingTypes, WithSettingKeeps
  <2>4. SyncTypeOK'
    BY <1>0, <2>1, <2>3 DEF SyncTypeOK, systemVars, Here
  <2> QED
    BY <2>1, <2>2, <2>3, <2>4, SyncOKKept
<1>9. CASE worker[q].at = "inspecting" /\ SyncInspect(q)
  <2>1. PICK w : w = [worker[q] EXCEPT !.at = "syncing"]
    OBVIOUS
  <2>2. /\ Goes(q, Ready(w)) \/ Goes(q, Failed(w))
        /\ UNCHANGED <<syncVars, systemVars>>
    BY <1>9, <2>1 DEF SyncInspect, Busy
  <2>3. /\ DOMAIN w = {"job", "at", "todo", "ranges", "import", "failed"}
        /\ w.todo \subseteq Services /\ w.at = "syncing" /\ w.job = worker[q].job
    BY <1>2, <1>9, <2>1
  <2> QED
    BY <1>a, <1>b, <2>2, <2>3, NextServiceTypes
<1> QED
  BY <1>1, <1>3, <1>4, <1>6, <1>7, <1>8, <1>9

LEMMA SyncTypes ==
    ASSUME RqTypeOK, WorkOK, RqInv, SyncOK, SyncNext
    PROVE  RqTypeOK' /\ WorkOK' /\ SyncOK'
<1>1. ASSUME NEW at, NEW q \in WorkersIn({"sync", "history"}, at)
      PROVE  q \in Queues /\ worker[q].at = at
  BY <1>1, WorkersInFacts
<1> QED
  BY <1>1, SyncRequestTypes, SyncJobTypes DEF SyncNext

-----------------------------------------------------------------------------
(***************************************************************************)
(* The types of the other services.                                        *)
(***************************************************************************)

\* A row is set, if it is there.
LEMMA SetRow ==
    ASSUME NEW S, NEW s \in Seq(S), NEW i, NEW x, i \in DOMAIN s => x \in S
    PROVE  /\ [s EXCEPT ![i] = x] \in Seq(S) /\ Len([s EXCEPT ![i] = x]) = Len(s)
           /\ DOMAIN [s EXCEPT ![i] = x] = DOMAIN s
<1>1. DOMAIN s = 1..Len(s) /\ Len(s) \in Nat
  OBVIOUS
<1>2. CASE i \in DOMAIN s
  BY <1>2, ExceptSequence
<1>3. CASE i \notin DOMAIN s
  <2>1. [s EXCEPT ![i] = x] = s
    BY <1>1, <1>3
  <2> QED
    BY <2>1
<1> QED
  BY <1>2, <1>3

ExportRow == [status : ExportStatuses, downloaded : BOOLEAN]

LEMMA SetExportTypes ==
    ASSUME ExportTypeOK, NEW e, NEW status \in ExportStatuses, SetExport(e, status),
           UNCHANGED creating
    PROVE  ExportTypeOK' /\ DOMAIN exports' = DOMAIN exports
<1>1. exports \in Seq(ExportRow)
  BY DEF ExportTypeOK, ExportRow
<1>2. PICK x : x = [exports[e] EXCEPT !.status = status]
  OBVIOUS
<1>3. e \in DOMAIN exports => x \in ExportRow
  <2>1. e \in DOMAIN exports => exports[e] \in ExportRow
    BY <1>1
  <2> QED
    BY <1>2, <2>1 DEF ExportRow
<1>4. exports' = [exports EXCEPT ![e] = x]
  BY <1>2 DEF SetExport
<1>5. exports' \in Seq(ExportRow) /\ DOMAIN exports' = DOMAIN exports
  BY <1>1, <1>3, <1>4, SetRow
<1> QED
  BY <1>5 DEF ExportTypeOK, ExportRow

LEMMA ExportTypes ==
    ASSUME RqTypeOK, WorkOK, RqInv, ExportTypeOK, ExportNext
    PROVE  RqTypeOK' /\ WorkOK' /\ ExportTypeOK'
<1>0. exports \in Seq(ExportRow) /\ Len(exports) \in Nat /\ creating \in Nat
  BY DEF ExportTypeOK, ExportRow
<1>a. UNCHANGED rqVars /\ (UNCHANGED systemVars \/ MayDie) => RqTypeOK' /\ WorkOK'
  BY SystemAdvance, StutterTypes
<1>b. ASSUME NEW status \in {"pending", "failed"}, NewExport(status)
      PROVE  exports' \in Seq(ExportRow)
  <2>1. [status |-> status, downloaded |-> FALSE] \in ExportRow
    BY DEF ExportRow, ExportStatuses
  <2>2. \A x \in ExportRow : Append(exports, x) \in Seq(ExportRow)
    BY <1>0
  <2> QED
    BY <1>b, <2>1, <2>2 DEF NewExport
<1>1. CASE AskExport
  <2>1. UNCHANGED <<exports, rqVars, systemVars>> /\ creating' = creating + 1
    BY <1>1 DEF AskExport
  <2> QED
    BY <1>0, <1>a, <2>1 DEF ExportTypeOK
<1>2. CASE StoreExport
  <2>1. /\ creating > 0 /\ creating' = creating - 1 /\ UNCHANGED systemVars
        /\ \/ NewExport("pending") /\ Enqueue(EXPORTS, "export", Len(exports) + 1)
           \/ NewExport("failed") /\ UNCHANGED rqVars
    BY <1>2 DEF StoreExport
  <2>2. RqTypeOK' /\ WorkOK'
    <3>1. Len(exports) + 1 \in Nat /\ "export" \in Kinds
      BY <1>0 DEF Kinds
    <3> QED
      BY <1>a, <2>1, <3>1, SystemAdvance, EnqueueTypes
  <2>3. exports' \in Seq(ExportRow) /\ creating' \in Nat
    BY <1>0, <1>b, <2>1
  <2> QED
    BY <2>2, <2>3 DEF ExportTypeOK, ExportRow
<1>3. CASE ExportCallDies
  <2>1. /\ creating > 0 /\ creating' = creating - 1 /\ UNCHANGED rqVars /\ MayDie
        /\ NewExport("pending")
    BY <1>3 DEF ExportCallDies
  <2>2. exports' \in Seq(ExportRow) /\ creating' \in Nat
    BY <1>0, <1>b, <2>1
  <2> QED
    BY <1>a, <2>1, <2>2 DEF ExportTypeOK, ExportRow
<1>4. ASSUME NEW e \in DOMAIN exports, Download(e)
      PROVE  RqTypeOK' /\ WorkOK' /\ ExportTypeOK'
  <2>1. UNCHANGED <<creating, rqVars, systemVars>>
    BY <1>4 DEF Download
  <2>2. PICK x : x = [exports[e] EXCEPT !.downloaded = TRUE]
    OBVIOUS
  <2>3. x \in ExportRow
    <3>1. exports[e] \in ExportRow
      BY <1>0
    <3> QED
      BY <2>2, <3>1 DEF ExportRow
  <2>4. exports' = [exports EXCEPT ![e] = x]
    BY <1>4, <2>2 DEF Download
  <2>5. exports' \in Seq(ExportRow)
    BY <1>0, <2>3, <2>4, SetRow
  <2> QED
    BY <1>0, <1>a, <2>1, <2>5 DEF ExportTypeOK, ExportRow
<1>5. ASSUME NEW j \in dead[EXPORTS], RequeueExport(j)
      PROVE  RqTypeOK' /\ WorkOK' /\ ExportTypeOK'
  <2>1. PICK new : /\ new = NewJob("export", j.of)
                   /\ queue' = [queue EXCEPT ![EXPORTS] = Append(@, new)]
                   /\ dead' = [dead EXCEPT ![EXPORTS] = @ \ {j}]
                   /\ UNCHANGED <<later, worker, creating, systemVars>>
                   /\ SetExport(j.of, "pending")
    BY <1>5 DEF RequeueExport
  <2>2. EXPORTS \in Queues /\ j.of \in Nat
    <3>1. EXPORTS \in Queues
      BY QueuesAssumption
    <3>2. j \in [kind : Kinds, of : Nat]
      BY <3>1 DEF RqTypeOK
    <3> QED
      BY <3>1, <3>2
  <2>3. new \in Job /\ Job' = Job
    BY <2>1, <2>2, NewJobTyped DEF Job, systemVars, Here, Kinds
  <2>4. Append(queue[EXPORTS], new) \in Seq(Job)
    BY <2>2, <2>3 DEF RqTypeOK
  <2>5. queue' \in [Queues -> Seq(Job)]
    BY <2>1, <2>4 DEF RqTypeOK
  <2>6. dead' \in [Queues -> SUBSET [kind : Kinds, of : Nat]]
    BY <2>1, <2>2 DEF RqTypeOK
  <2>7. ExportTypeOK'
    BY <2>1, SetExportTypes DEF ExportStatuses
  <2> QED
    BY <2>1, <2>3, <2>5, <2>6, <2>7 DEF RqTypeOK, WorkOK, systemVars
<1>6. ASSUME NEW at \in {"begin", "writing"}, NEW q \in WorkersIn({"export"}, at),
             Begin(q) \/ Write(q) \/ WriteFails(q)
      PROVE  RqTypeOK' /\ WorkOK' /\ ExportTypeOK'
  <2>1. q \in Queues /\ worker[q].at # "idle"
    BY WorkersInFacts
  <2>2. /\ JobDone(q) \/ JobFails(q) \/ GoesTo(q, "writing") \/ GoesTo(q, "done")
        /\ UNCHANGED <<creating, systemVars>>
        /\ \/ UNCHANGED exports
           \/ \E status \in {"running", "succeeded", "failed"} : SetExport(Current(q).of, status)
    BY <1>6 DEF Begin, Write, WriteFails
  <2>3. RqTypeOK' /\ WorkOK'
    BY <2>1, <2>2, SystemAdvance, ReleaseTypes, GoesToTypes
  <2>4. ExportTypeOK'
    BY <2>2, SetExportTypes DEF ExportTypeOK, ExportStatuses
  <2> QED
    BY <2>3, <2>4
<1> QED
  BY <1>1, <1>2, <1>3, <1>4, <1>5, <1>6 DEF ExportNext

RenderRow == [snapshot : Snapshots, status : RenderStatuses]

LEMMA SetRenderTypes ==
    ASSUME renders \in Seq(RenderRow), NEW o, NEW status \in RenderStatuses, SetRender(o, status)
    PROVE  renders' \in Seq(RenderRow) /\ DOMAIN renders' = DOMAIN renders
<1>1. PICK x : x = [renders[o] EXCEPT !.status = status]
  OBVIOUS
<1>2. o \in DOMAIN renders => x \in RenderRow
  <2>1. o \in DOMAIN renders => renders[o] \in RenderRow
    OBVIOUS
  <2> QED
    BY <1>1, <2>1 DEF RenderRow
<1>3. renders' = [renders EXCEPT ![o] = x]
  BY <1>1 DEF SetRender
<1> QED
  BY <1>2, <1>3, SetRow

LEMMA ReconciledTypes ==
    ASSUME NEW status \in Statuses \union {"none"}, NEW found
    PROVE  Reconciled(status, found) \in Statuses \union {"none"}
BY DEF Reconciled, Seen, Missed, Statuses, Open, Reopenable

LEMMA RenderTypes ==
    ASSUME RqTypeOK, WorkOK, RqInv, RenderTypeOK, RenderNext
    PROVE  RqTypeOK' /\ WorkOK' /\ RenderTypeOK'
<1>0. /\ renders \in Seq(RenderRow) /\ rechecking \subseteq DOMAIN renders
      /\ rendered \in [Snapshots -> Statuses \union {"none"}]
      /\ DOMAIN renders = 1..Len(renders) /\ Len(renders) \in Nat
  BY DEF RenderTypeOK, RenderRow
<1>a. UNCHANGED rqVars /\ (UNCHANGED systemVars \/ MayDie) => RqTypeOK' /\ WorkOK'
  BY SystemAdvance, StutterTypes
<1>b. UNCHANGED systemVars \/ MayDie => Snapshots' = Snapshots /\ RenderRow' = RenderRow
  BY DEF systemVars, MayDie, Snapshots, Here, RenderRow
<1>1. ASSUME NEW s \in Snapshots, Recheck(s)
      PROVE  RqTypeOK' /\ WorkOK' /\ RenderTypeOK'
  <2>1. PICK x : /\ x = [snapshot |-> s, status |-> "pending"] /\ renders' = Append(renders, x)
                 /\ rechecking' = rechecking \union {Len(renders) + 1}
                 /\ UNCHANGED <<rendered, rqVars, systemVars>>
    BY <1>1 DEF Recheck
  <2>2. x \in RenderRow
    BY <2>1 DEF RenderRow, RenderStatuses
  <2>3. renders' \in Seq(RenderRow) /\ DOMAIN renders' = 1..(Len(renders) + 1)
    BY <1>0, <2>1, <2>2
  <2>4. rechecking' \subseteq DOMAIN renders'
    BY <1>0, <2>1, <2>3
  <2> QED
    BY <1>0, <1>a, <1>b, <2>1, <2>3, <2>4 DEF RenderTypeOK, RenderRow
<1>2. ASSUME NEW o \in rechecking, CallQueue(o)
      PROVE  RqTypeOK' /\ WorkOK' /\ RenderTypeOK'
  <2>1. /\ \/ Enqueue(RENDERS, "render", o) /\ UNCHANGED renders
           \/ SetRender(o, "failed") /\ UNCHANGED rqVars
        /\ rechecking' = rechecking \ {o} /\ UNCHANGED <<rendered, systemVars>>
    BY <1>2 DEF CallQueue
  <2>2. RqTypeOK' /\ WorkOK'
    <3>1. o \in Nat /\ "render" \in Kinds
      BY <1>0 DEF Kinds
    <3> QED
      BY <1>a, <2>1, <3>1, SystemAdvance, EnqueueTypes
  <2>3. renders' \in Seq(RenderRow) /\ DOMAIN renders' = DOMAIN renders
    BY <1>0, <2>1, SetRenderTypes DEF RenderStatuses
  <2> QED
    BY <1>0, <1>b, <2>1, <2>2, <2>3 DEF RenderTypeOK, RenderRow
<1>3. ASSUME NEW o \in rechecking, RecheckDies(o)
      PROVE  RqTypeOK' /\ WorkOK' /\ RenderTypeOK'
  <2>1. MayDie /\ rechecking' = rechecking \ {o} /\ UNCHANGED <<renders, rendered, rqVars>>
    BY <1>3 DEF RecheckDies
  <2> QED
    BY <1>0, <1>a, <1>b, <2>1 DEF RenderTypeOK, RenderRow
<1>4. ASSUME NEW at \in {"begin", "rendering"}, NEW q \in WorkersIn({"render"}, at),
             RenderBegins(q) \/ RenderEnds(q) \/ RenderFails(q)
      PROVE  RqTypeOK' /\ WorkOK' /\ RenderTypeOK'
  <2>1. q \in Queues /\ worker[q].at # "idle"
    BY WorkersInFacts
  <2>2. PICK status \in RenderStatuses :
          /\ SetRender(Observed(q), status)
          /\ JobFails(q) \/ GoesTo(q, "rendering") \/ GoesTo(q, "done")
          /\ UNCHANGED <<rechecking, systemVars>>
    BY <1>4 DEF RenderBegins, RenderEnds, RenderFails, RenderStatuses
  <2>3. RqTypeOK' /\ WorkOK'
    BY <2>1, <2>2, SystemAdvance, ReleaseTypes, GoesToTypes
  <2>4. renders' \in Seq(RenderRow) /\ DOMAIN renders' = DOMAIN renders
    BY <1>0, <2>2, SetRenderTypes
  <2>5. rendered' \in [Snapshots -> Statuses \union {"none"}]
    <3>1. CASE UNCHANGED rendered
      BY <1>0, <3>1
    <3>2. CASE RenderEnds(q)
      <4>a. PICK found \in BOOLEAN :
              \E s : rendered' = [rendered EXCEPT ![s] = Reconciled(rendered[s], found)]
        BY <3>2 DEF RenderEnds
      <4>1. PICK s : rendered' = [rendered EXCEPT ![s] = Reconciled(rendered[s], found)]
        BY <4>a
      <4>2. s \in Snapshots => Reconciled(rendered[s], found) \in Statuses \union {"none"}
        BY <1>0, ReconciledTypes
      <4> QED
        BY <1>0, <4>1, <4>2
    <3> QED
      BY <1>4, <3>1, <3>2 DEF RenderBegins, RenderFails
  <2> QED
    BY <1>0, <1>b, <2>2, <2>3, <2>4, <2>5 DEF RenderTypeOK, RenderRow
<1> QED
  BY <1>1, <1>2, <1>3, <1>4 DEF RenderNext

LEMMA OnboardingTypes ==
    ASSUME ProofInv, OnboardingTypeOK, OnboardingStep
    PROVE  OnboardingTypeOK'
<1> USE OnboardingAssumption DEF OnboardingTypeOK
<1>1. OnboardingRows' /\ onboarding'.crawl <= Len(firstJobs')
  <2>1. ProofInv'
    BY SiteStepInv, CheckStepInv, CrawlStepInv DEF OnboardingStep
  <2> QED
    BY <2>1 DEF ProofInv
<1>2. onboarding'.crawl \in 0..Len(firstJobs')
  <2>1. onboarding'.crawl \in Nat /\ Len(firstJobs') \in Nat
    BY <1>1 DEF OnboardingRows
  <2> QED
    BY <1>1, <2>1
<1> SUFFICES /\ proof'.token \in 0..Tokens
             /\ checking' \subseteq Urls
             /\ starting' \in Seq({0})
             /\ placed' \in [Urls -> 0..Tokens]
             /\ proven' \in Urls \union {"none"}
  BY <1>1, <1>2 DEF OnboardingRows
<1>3. proof'.token \in 0..Tokens
  <2>1. \/ UNCHANGED proof
        \/ \E s, d : proof' = [proof EXCEPT !.status = s] \/ proof' = [proof EXCEPT !.due = d]
        \/ proof' = [proof EXCEPT !.token = 1]
        \/ /\ proof.token < Tokens
           /\ proof' = [status |-> "pending", token |-> proof.token + 1, due |-> FALSE]
    BY DEF OnboardingStep, FileExpires, Renew, CheckExpired, CheckBegins, CheckFails, AskCrawl,
           StartCrawl, RetryCrawl, Reconcile, CheckSucceeds, StartOnboarding, ChangeDetails,
           PlaceFile, Patch, JobMoves
  <2> QED
    BY <2>1
<1>4. checking' \subseteq Urls
  BY DEF OnboardingStep, FileExpires, Renew, CheckExpired, CheckBegins, CheckFails, AskCrawl,
         StartCrawl, RetryCrawl, Reconcile, CheckSucceeds, StartOnboarding, ChangeDetails,
         PlaceFile, Patch, JobMoves
<1>5. starting' \in Seq({0})
  <2>1. \/ starting' = starting
        \/ \E crawl \in {0} : starting' = Append(starting, crawl)
        \/ starting # <<>> /\ starting' = Tail(starting)
    <3>1. CASE AskCrawl
      BY <3>1 DEF AskCrawl
    <3>2. CASE StartCrawl
      BY <3>2 DEF StartCrawl
    <3>3. CASE ~AskCrawl /\ ~StartCrawl
      BY <3>3 DEF OnboardingStep, FileExpires, Renew, CheckExpired, CheckBegins, CheckFails,
             RetryCrawl, Reconcile, CheckSucceeds, StartOnboarding, ChangeDetails,
             PlaceFile, Patch, JobMoves
    <3> QED
      BY <3>1, <3>2, <3>3
  <2>2. \A s \in Seq({0}) : Append(s, 0) \in Seq({0}) /\ (s # <<>> => Tail(s) \in Seq({0}))
    OBVIOUS
  <2> QED
    BY <2>1, <2>2
<1>6. placed' \in [Urls -> 0..Tokens]
  <2>1. placed' = placed \/ \E u \in Urls, token \in 0..Tokens : placed' = [placed EXCEPT ![u] = token]
    BY DEF OnboardingStep, FileExpires, Renew, CheckExpired, CheckBegins, CheckFails, AskCrawl,
           StartCrawl, RetryCrawl, Reconcile, CheckSucceeds, StartOnboarding, ChangeDetails,
           PlaceFile, Patch, JobMoves
  <2> QED
    BY <2>1
<1>7. proven' \in Urls \union {"none"}
  BY DEF OnboardingStep, FileExpires, Renew, CheckExpired, CheckBegins, CheckFails, AskCrawl,
         StartCrawl, RetryCrawl, Reconcile, CheckSucceeds, StartOnboarding, ChangeDetails,
         PlaceFile, Patch, JobMoves
<1> QED
  BY <1>3, <1>4, <1>5, <1>6, <1>7

LEMMA Retyped ==
    ASSUME NEW S, NEW T, NEW s \in Seq(S), \A i \in DOMAIN s : s[i] \in T
    PROVE  s \in Seq(T)
OBVIOUS

\* Evidence: what the invariant says of the rows is their type.
LEMMA EvidenceTyped ==
    ASSUME EvidenceInv, enabled \in BOOLEAN
    PROVE  EvidenceTypeOK
<1>0. RowsOK /\ AsksOK
  BY DEF EvidenceInv
<1>1. requests \in Seq([question : Questions, day : Nat, status : RequestStatuses])
  BY <1>0 DEF RowsOK, RequestRow
<1>2. observations \in Seq([question : Questions, of : DOMAIN requests, expires : Nat])
  <2>1. PICK S : S = [question : Questions, of : Nat, expires : Nat]
    OBVIOUS
  <2>2. observations \in Seq(S) /\ \A i \in DOMAIN observations : observations[i] \in S
    BY <1>0, <2>1, SequenceFacts DEF RowsOK
  <2>3. \A i \in DOMAIN observations :
           observations[i] \in [question : Questions, of : DOMAIN requests, expires : Nat]
    BY <1>0, <2>1, <2>2 DEF RowsOK
  <2> QED
    BY <2>2, <2>3, Retyped
<1>3. usage \in Seq([of : DOMAIN requests, month : Nat])
  <2>1. PICK S : S = [of : Nat, month : Nat]
    OBVIOUS
  <2>2. usage \in Seq(S) /\ \A i \in DOMAIN usage : usage[i] \in S
    BY <1>0, <2>1, SequenceFacts DEF RowsOK
  <2>3. \A i \in DOMAIN usage : usage[i] \in [of : DOMAIN requests, month : Nat]
    BY <1>0, <2>1, <2>2 DEF RowsOK
  <2> QED
    BY <2>2, <2>3, Retyped
<1>4. asking \subseteq [caller : Nat, question : Questions, day : Nat, of : DOMAIN requests \union {0}]
  <2> SUFFICES ASSUME NEW a \in asking
               PROVE  a \in [caller : Nat, question : Questions, day : Nat,
                             of : DOMAIN requests \union {0}]
    OBVIOUS
  <2>1. a \in [caller : 1..Here.overlap, question : Questions, day : Nat, of : Nat]
    BY <1>0 DEF AsksOK
  <2>2. a.of \in DOMAIN requests \union {0}
    BY <1>0 DEF AsksOK
  <2>3. 1..Here.overlap \subseteq Nat
    OBVIOUS
  <2> QED
    BY <2>1, <2>2, <2>3
<1>5. paid \in [DOMAIN requests -> Nat]
  <2>1. DOMAIN requests = 1..Len(requests) /\ DOMAIN paid = 1..Len(paid)
    BY <1>0 DEF RowsOK
  <2> QED
    BY <1>0, <2>1 DEF RowsOK
<1> QED
  BY <1>1, <1>2, <1>3, <1>4, <1>5 DEF EvidenceTypeOK

\* The queues and the switch, in a step of evidence.
LEMMA EvidenceStepTypes ==
    ASSUME RqTypeOK, WorkOK, EvidenceInv, enabled \in BOOLEAN, EvidenceNext
    PROVE  RqTypeOK' /\ WorkOK' /\ enabled' \in BOOLEAN
<1>0. RqInv
  BY DEF EvidenceInv
<1>1. CASE \/ \E c \in 1..Here.overlap : \E q \in Questions : Admit(c, q)
           \/ \E a \in asking : Store(a) \/ CallDies(a)
  <2>1. UNCHANGED <<rqVars, enabled>> /\ (UNCHANGED systemVars \/ MayDie)
    BY <1>1 DEF Admit, Store, CallDies
  <2> QED
    BY <2>1, SystemAdvance, StutterTypes
<1>2. CASE SwitchControls
  <2>1. UNCHANGED <<rqVars, systemVars>> /\ enabled' \in BOOLEAN
    BY <1>2 DEF SwitchControls
  <2> QED
    BY <2>1, SystemAdvance, StutterTypes
<1>3. ASSUME NEW a \in asking, Call(a)
      PROVE  RqTypeOK' /\ WorkOK' /\ enabled' \in BOOLEAN
  <2>1. /\ UNCHANGED <<enabled, systemVars>>
        /\ Enqueue(INTEGRATIONS, "evidence", a.of) \/ UNCHANGED rqVars
    BY <1>3 DEF Call
  <2>2. a.of \in Nat /\ "evidence" \in Kinds
    BY DEF EvidenceInv, AsksOK, Kinds
  <2> QED
    BY <2>1, <2>2, SystemAdvance, StutterTypes, EnqueueTypes
<1>4. ASSUME NEW at \in {"begin", "claimed", "answered", "lost"},
             NEW q \in WorkersIn({"evidence"}, at),
             Claim(q) \/ Answer(q) \/ NoAnswer(q) \/ Complete(q) \/ Fail(q)
      PROVE  RqTypeOK' /\ WorkOK' /\ enabled' \in BOOLEAN
  <2>1. q \in Queues /\ worker[q].at # "idle"
    BY WorkersInFacts
  <2>2. /\ UNCHANGED <<enabled, systemVars>>
        /\ JobFails(q) \/ \E to \in {"claimed", "answered", "lost", "done"} : GoesTo(q, to)
    BY <1>4 DEF Claim, Answer, NoAnswer, Complete, Fail, evidenceVars
  <2> QED
    BY <1>0, <2>1, <2>2, SystemAdvance, ReleaseTypes, GoesToTypes
<1> QED
  BY <1>1, <1>2, <1>3, <1>4 DEF EvidenceNext

-----------------------------------------------------------------------------
(***************************************************************************)
(* The services together.                                                  *)
(***************************************************************************)

TypeInv ==
    /\ EvidenceInv /\ ProofInv
    /\ RqTypeOK /\ WorkOK
    /\ enabled \in BOOLEAN
    /\ SyncOK
    /\ ExportTypeOK /\ RenderTypeOK /\ OnboardingTypeOK

LEMMA TypeInitInv == Init => TypeInv
<1> SUFFICES ASSUME Init PROVE TypeInv
  OBVIOUS
<1>1. EvidenceInv /\ ProofInv
  BY EvidenceInitInv, ProofInitInv DEF Init
<1>2. clock \in Nat /\ clock = Here.start /\ world \in DOMAIN Worlds
  BY RqAssumption DEF Init, RqInit, Here
<1>3. RqTypeOK /\ WorkOK
  <2>1. Cardinality({}) \in 0..1
    BY FS_EmptySet
  <2>2. <<>> \in Seq(Job)
    OBVIOUS
  <2> QED
    BY <1>2, <2>1, <2>2 DEF Init, RqInit, RqTypeOK, WorkOK, SyncWork, Idle
<1>4. SyncOK
  <2>1. /\ Here.mapped \union Here.mappable # {}
           => Here.property \in Properties /\ Here.start > HistoryDays
    BY <1>2, SyncAssumption DEF Here
  <2>2. NoMapping \in Mapping
    BY DEF NoMapping, Mapping, NoSettings, Settings
  <2>3. ASSUME NEW s \in Services, s \in Here.mapped
        PROVE  [NoMapping EXCEPT !.property = Here.property] \in Mapping
    <3>1. Here.property \in Properties
      BY <2>1, <2>3
    <3> QED
      BY <2>2, <3>1 DEF Mapping
  <2>4. mapping \in [Services -> Mapping]
    BY <2>2, <2>3 DEF Init, SyncInit
  <2>5. SyncTypeOK
    <3>1. <<>> \in Seq(Nat)
      OBVIOUS
    <3> QED
      BY <2>4, <3>1 DEF Init, SyncInit, SyncTypeOK
  <2>6. \A s \in Mapped : s \in Here.mapped
    BY DEF Init, SyncInit, Mapped, NoMapping
  <2> QED
    BY <1>2, <2>1, <2>5, <2>6 DEF SyncOK
<1>5. ExportTypeOK /\ RenderTypeOK
  BY DEF Init, ExportInit, ExportTypeOK, RenderInit, RenderTypeOK
<1>6. OnboardingTypeOK
  <2>1. <<>> \in Seq({0}) /\ <<>> \in Seq(JobStatuses) /\ Len(<<>>) = 0
    OBVIOUS
  <2>2. OnboardingInit
    BY DEF Init
  <2>3. (CHOOSE u \in Urls : TRUE) \in Urls
    BY OnboardingAssumption
  <2> QED
    BY <2>1, <2>2, <2>3, OnboardingAssumption
       DEF OnboardingInit, OnboardingTypeOK, OnboardingStatuses
<1>7. enabled \in BOOLEAN
  BY DEF Init, EvidenceInit
<1> QED
  BY <1>1, <1>3, <1>4, <1>5, <1>6, <1>7 DEF TypeInv

\* The rows of a service stay what they are in the steps of the others.
LEMMA OthersTypes ==
    ASSUME TypeInv, world' = world, clock' \in Nat, clock' >= clock
    PROVE  /\ UNCHANGED syncVars => SyncOK'
           /\ UNCHANGED exportVars => ExportTypeOK'
           /\ UNCHANGED renderVars => RenderTypeOK'
           /\ UNCHANGED onboardingVars => OnboardingTypeOK'
           /\ UNCHANGED evidenceVars => enabled' \in BOOLEAN
<1>1. UNCHANGED syncVars => SyncOK'
  <2>1. clock \in Nat /\ HistoryDays \in Nat
    BY SyncAssumption DEF TypeInv, RqTypeOK
  <2>2. SyncOK
    BY DEF TypeInv
  <2> QED
    BY <2>1, <2>2 DEF SyncOK, SyncTypeOK, syncVars, Mapped, Here
<1>2. UNCHANGED exportVars => ExportTypeOK'
  BY DEF TypeInv, ExportTypeOK, exportVars
<1>3. UNCHANGED renderVars => RenderTypeOK'
  BY DEF TypeInv, RenderTypeOK, renderVars, Snapshots, Here
<1>4. UNCHANGED onboardingVars => OnboardingTypeOK'
  BY DEF TypeInv, OnboardingTypeOK, onboardingVars
<1> QED
  BY <1>1, <1>2, <1>3, <1>4 DEF TypeInv, evidenceVars

LEMMA StepAdvance ==
    ASSUME TypeInv, [Next]_vars
    PROVE  world' = world /\ clock' \in Nat /\ clock' >= clock /\ deaths' \in {deaths, deaths + 1}
<1>0. clock \in Nat
  BY DEF TypeInv, RqTypeOK
<1>1. CASE RqNext \/ SyncNext \/ ExportNext \/ RenderNext
  BY <1>0, <1>1, SystemStep
<1>2. CASE EvidenceNext
  <2>1. ASSUME NEW q, Claim(q) \/ Answer(q) \/ NoAnswer(q) \/ Complete(q) \/ Fail(q)
        PROVE  UNCHANGED systemVars
    BY <2>1 DEF Claim, Answer, NoAnswer, Complete, Fail
  <2>2. ASSUME NEW a, Store(a) \/ Call(a) \/ CallDies(a)
        PROVE  UNCHANGED systemVars \/ MayDie
    BY <2>2 DEF Store, Call, CallDies
  <2>3. ASSUME NEW c, NEW q, Admit(c, q) \/ SwitchControls
        PROVE  UNCHANGED systemVars
    BY <2>3 DEF Admit, SwitchControls
  <2>4. UNCHANGED systemVars \/ MayDie
    BY <1>2, <2>1, <2>2, <2>3 DEF EvidenceNext
  <2> QED
    BY <1>0, <2>4 DEF systemVars, MayDie
<1> QED
  BY <1>0, <1>1, <1>2 DEF Next, OnboardingNext, vars, systemVars

LEMMA TypeNextInv == TypeInv /\ [Next]_vars => TypeInv'
<1> SUFFICES ASSUME TypeInv, [Next]_vars PROVE TypeInv'
  OBVIOUS
<1>0. EvidenceInv' /\ ProofInv' /\ RqInv
  BY EvidenceNextInv, ProofNextInv DEF TypeInv, EvidenceInv
<1>1. /\ UNCHANGED syncVars => SyncOK'
      /\ UNCHANGED exportVars => ExportTypeOK'
      /\ UNCHANGED renderVars => RenderTypeOK'
      /\ UNCHANGED onboardingVars => OnboardingTypeOK'
      /\ UNCHANGED evidenceVars => enabled' \in BOOLEAN
  BY StepAdvance, OthersTypes
<1>2. UNCHANGED <<rqVars, systemVars>> => RqTypeOK' /\ WorkOK'
  BY SystemAdvance, StutterTypes DEF TypeInv
<1> USE DEF TypeInv
<1>3. CASE RqNext /\ UNCHANGED <<evidenceVars, syncVars, exportVars, renderVars, onboardingVars>>
  BY <1>0, <1>1, <1>3, RqTypes
<1>4. CASE EvidenceNext /\ UNCHANGED <<syncVars, exportVars, renderVars, onboardingVars>>
  BY <1>0, <1>1, <1>4, EvidenceStepTypes
<1>5. CASE SyncNext /\ UNCHANGED <<evidenceVars, exportVars, renderVars, onboardingVars>>
  BY <1>0, <1>1, <1>5, SyncTypes
<1>6. CASE ExportNext /\ UNCHANGED <<evidenceVars, syncVars, renderVars, onboardingVars>>
  BY <1>0, <1>1, <1>6, ExportTypes
<1>7. CASE RenderNext /\ UNCHANGED <<evidenceVars, syncVars, exportVars, onboardingVars>>
  BY <1>0, <1>1, <1>7, RenderTypes
<1>8. CASE OnboardingNext /\ UNCHANGED <<evidenceVars, syncVars, exportVars, renderVars>>
  <2>1. OnboardingTypeOK' /\ UNCHANGED <<rqVars, systemVars>>
    BY <1>8, OnboardingTypes DEF OnboardingNext
  <2> QED
    BY <1>0, <1>1, <1>2, <1>8, <2>1
<1>9. CASE UNCHANGED vars
  BY <1>0, <1>1, <1>2, <1>9 DEF vars
<1> QED
  BY <1>3, <1>4, <1>5, <1>6, <1>7, <1>8, <1>9 DEF Next

\* The rows, queues and workers keep their shapes.
THEOREM TypeCorrect == Spec => []TypeOK
<1>1. TypeInv => TypeOK
  BY EvidenceTyped DEF TypeInv, TypeOK, SyncOK
<1> QED
  BY <1>1, TypeInitInv, TypeNextInv, PTL DEF Spec

-----------------------------------------------------------------------------
(***************************************************************************)
(* What the imports promise.                                               *)
(***************************************************************************)

Kept ==
    \A s \in Services : \A d \in 1..Here.end :
        stored[s][d] # "none" => stored'[s][d] # "none"

\* Metrics are written by an import that commits, and by nothing else.
LEMMA KeptStep ==
    ASSUME TypeInv, [Next]_vars
    PROVE  Kept
<1>0. SyncTypeOK /\ clock \in Nat /\ WorkOK
  BY DEF TypeInv, SyncOK, RqTypeOK
<1>a. UNCHANGED stored => Kept
  BY DEF Kept
<1>b. ASSUME NEW i \in Import, Commit(i) \/ NotDelivered(i) \/ NotStored PROVE Kept
  BY <1>0, <1>a, <1>b, CommitTypes, NotDeliveredTypes DEF Kept
<1>1. CASE SyncNext
  <2>1. ASSUME \/ \E s \in Services : \E p \in Properties : Upsert(s, p)
               \/ ChooseKeyEvents
               \/ \E provider \in {"google", "bing", "matomo"} : Connect(provider)
               \/ ScheduleSync \/ AskHistory
               \/ \E s \in Services : ManualRead(s)
        PROVE  UNCHANGED stored
    BY <2>1
       DEF Upsert, ChooseKeyEvents, Connect, ScheduleSync, AskHistory, ManualRead, OnlyMapping
  <2>2. ASSUME NEW i \in manual, ManualEnd(i) PROVE Kept
    <3>1. i \in Import
      BY <1>0 DEF SyncTypeOK
    <3> QED
      BY <1>b, <2>2, <3>1 DEF ManualEnd
  <2>3. ASSUME NEW q, SyncBegin(q) \/ SyncRead(q) \/ SyncRefused(q) \/ SyncEnd(q) \/ SyncInspect(q)
        PROVE  UNCHANGED stored
    BY <2>3 DEF SyncBegin, SyncRead, SyncRefused, SyncEnd, SyncInspect, OnlyMapping, syncVars
  <2>4. ASSUME NEW q \in WorkersIn({"sync", "history"}, "syncing"), SyncStored(q) \/ SyncFailed(q)
        PROVE  Kept
    <3>1. worker[q].import \subseteq Import
      BY <1>0, WorkersInFacts DEF WorkOK, SyncWork
    <3>2. \E i \in worker[q].import : Commit(i) \/ NotDelivered(i) \/ NotStored
      BY <2>4 DEF SyncStored, SyncFailed, Busy
    <3> QED
      BY <1>b, <3>1, <3>2
  <2> QED
    BY <1>1, <1>a, <2>1, <2>2, <2>3, <2>4 DEF SyncNext
<1>2. CASE UNCHANGED syncVars
  BY <1>2, <1>a DEF syncVars
<1> QED
  BY <1>1, <1>2 DEF Next, vars

\* Metrics of pages that were imported for a day are never lost.
THEOREM MetricsAreKept == Spec => MetricsKept
<1>1. TypeInv /\ [Next]_vars => [Kept]_stored
  BY KeptStep
<1>2. Spec => [][Kept]_stored
  BY <1>1, TypeInitInv, TypeNextInv, PTL DEF Spec
<1>3. [][Kept]_stored => MetricsKept
  BY PTL DEF Kept, MetricsKept
<1> QED
  BY <1>2, <1>3, PTL

-----------------------------------------------------------------------------
(***************************************************************************)
(* Where the jobs are.  Every queue has the jobs of its kinds only, and a  *)
(* job or dead letter of an export is of an export that is stored.         *)
(***************************************************************************)

HomeOf(kind) == CASE kind = "export" -> EXPORTS [] kind = "render" -> RENDERS [] OTHER -> INTEGRATIONS

Letter(j) == [kind |-> j.kind, of |-> j.of]

Letters(q) == {Letter(j) : j \in JobsOf(q)} \union dead[q]

JobsHome ==
    \A q \in Queues : \A l \in Letters(q) :
        /\ q = HomeOf(l.kind)
        /\ l.kind = "export" => l.of \in DOMAIN exports

LettersStay == \A q \in Queues : Letters(q)' \subseteq Letters(q)

\* One queue changes, and gets no letter it had not.
LEMMA OneQueueLetters ==
    ASSUME NEW q, Letters(q)' \subseteq Letters(q),
           \A x \in Queues \ {q} :
              /\ queue'[x] = queue[x] /\ later'[x] = later[x]
              /\ worker'[x] = worker[x] /\ dead'[x] = dead[x]
    PROVE  LettersStay
BY DEF LettersStay, Letters, JobsOf

LEMMA StutterLetters ==
    ASSUME UNCHANGED rqVars
    PROVE  LettersStay
BY DEF LettersStay, Letters, JobsOf, rqVars

LEMMA GoesLetters ==
    ASSUME RqInv, NEW q \in Queues, NEW to, Goes(q, to), to.job = worker[q].job
    PROVE  LettersStay
<1>1. /\ worker' = [worker EXCEPT ![q] = to] /\ UNCHANGED <<queue, later, dead>>
      /\ worker'[q] = to /\ \A x \in Queues \ {q} : worker'[x] = worker[x]
  BY DEF Goes, RqInv
<1>2. Letters(q)' = Letters(q)
  BY <1>1 DEF Letters, JobsOf
<1> QED
  BY <1>1, <1>2, OneQueueLetters

LEMMA GoesToLetters ==
    ASSUME RqInv, NEW q \in Queues, worker[q].at # "idle", NEW at, GoesTo(q, at)
    PROVE  LettersStay
<1>1. PICK to : to = [worker[q] EXCEPT !.at = at]
  OBVIOUS
<1>2. to.job = worker[q].job /\ Goes(q, to)
  BY <1>1, CurrentFacts DEF GoesTo
<1> QED
  BY <1>2, GoesLetters

LEMMA ReleaseLetters ==
    ASSUME RqInv, RqTypeOK, NEW q \in Queues, worker[q].at # "idle", JobDone(q) \/ JobFails(q)
    PROVE  LettersStay
<1> DEFINE j == Current(q)
           again == [j EXCEPT !.left = @ - 1]
<1>1. JobShape(j) /\ j \in JobsOf(q)
  BY CurrentFacts
<1>2. Letter(again) = Letter(j) /\ Letter(j) = [kind |-> j.kind, of |-> j.of]
  BY <1>1 DEF JobShape, Letter
<1>3. /\ worker' = [worker EXCEPT ![q] = Idle] /\ UNCHANGED queue
      /\ \/ later' = later
         \/ later' = [later EXCEPT ![q] = @]
         \/ later' = [later EXCEPT ![q] = @ \union {again}]
      /\ \/ dead' = dead
         \/ dead' = [dead EXCEPT ![q] = @]
         \/ dead' = [dead EXCEPT ![q] = @ \union {Letter(j)}]
  BY <1>2 DEF JobDone, JobFails
<1> HIDE DEF j, again
<1>4. /\ worker'[q] = Idle /\ Idle.job = {}
      /\ later'[q] = later[q] \/ later'[q] = later[q] \union {again}
      /\ dead'[q] = dead[q] \/ dead'[q] = dead[q] \union {Letter(j)}
      /\ \A x \in Queues \ {q} :
            worker'[x] = worker[x] /\ later'[x] = later[x] /\ dead'[x] = dead[x]
  BY <1>3 DEF RqInv, RqTypeOK, Idle
<1>5. \A k \in JobsOf(q)' : k \in JobsOf(q) \/ k = again
  BY <1>3, <1>4 DEF JobsOf
<1>6. Letters(q)' \subseteq Letters(q)
  BY <1>1, <1>2, <1>4, <1>5 DEF Letters
<1> QED
  BY <1>3, <1>4, <1>6, OneQueueLetters

LEMMA RqLetters ==
    ASSUME RqInv, RqTypeOK, RqNext
    PROVE  LettersStay
<1>1. CASE Tick
  BY <1>1, StutterLetters DEF Tick
<1>2. ASSUME NEW q \in Queues, Take(q) PROVE LettersStay
  <2>1. PICK to : to = [job |-> {Head(queue[q])}, at |-> "begin"]
    OBVIOUS
  <2>2. /\ queue[q] # <<>> /\ IsSequence(queue[q])
        /\ worker' = [worker EXCEPT ![q] = to]
        /\ queue' = [queue EXCEPT ![q] = Tail(@)] /\ UNCHANGED <<later, dead>>
    BY <1>2, <2>1 DEF Take, RqInv
  <2>3. /\ worker'[q] = to /\ queue'[q] = Tail(queue[q]) /\ to.job = {Head(queue[q])}
        /\ \A x \in Queues \ {q} : worker'[x] = worker[x] /\ queue'[x] = queue[x]
    BY <2>1, <2>2 DEF RqInv
  <2>4. JobsOf(q)' \subseteq JobsOf(q)
    <3>1. /\ Elements(Tail(queue[q])) \subseteq Elements(queue[q])
          /\ Head(queue[q]) \in Elements(queue[q])
      BY <2>2, TailElements
    <3> QED
      BY <2>2, <2>3, <3>1 DEF JobsOf
  <2>5. Letters(q)' \subseteq Letters(q)
    BY <2>2, <2>4 DEF Letters
  <2> QED
    BY <2>2, <2>3, <2>5, OneQueueLetters
<1>3. ASSUME NEW q \in Queues, Finish(q) \/ WorkerDies(q) PROVE LettersStay
  BY <1>3, ReleaseLetters DEF Finish, WorkerDies, At
<1>4. ASSUME NEW q \in Queues, NEW j \in later[q], NextAttempt(q, j) PROVE LettersStay
  <2>1. /\ later' = [later EXCEPT ![q] = @ \ {j}] /\ queue' = [queue EXCEPT ![q] = Append(@, j)]
        /\ UNCHANGED <<worker, dead>> /\ IsSequence(queue[q])
    BY <1>4 DEF NextAttempt, RqInv
  <2>2. /\ later'[q] = later[q] \ {j} /\ queue'[q] = Append(queue[q], j)
        /\ \A x \in Queues \ {q} : later'[x] = later[x] /\ queue'[x] = queue[x]
    BY <2>1 DEF RqInv
  <2>3. JobsOf(q)' = JobsOf(q)
    <3>1. Elements(queue'[q]) = Elements(queue[q]) \union {j}
      BY <2>1, <2>2, AppendElements
    <3> QED
      BY <2>1, <2>2, <3>1 DEF JobsOf
  <2>4. Letters(q)' \subseteq Letters(q)
    BY <2>1, <2>3 DEF Letters
  <2> QED
    BY <2>1, <2>2, <2>4, OneQueueLetters
<1> QED
  BY <1>1, <1>2, <1>3, <1>4 DEF RqNext

\* A job is appended to a queue, and nothing else is new.
LEMMA AppendLetters ==
    ASSUME RqInv, RqTypeOK, NEW q \in Queues, NEW new, UNCHANGED <<later, worker>>,
           queue' = [queue EXCEPT ![q] = Append(@, new)],
           \A x \in Queues : dead'[x] \subseteq dead[x]
    PROVE  \A x \in Queues : \A l \in Letters(x)' :
              l \in Letters(x) \/ (x = q /\ l = Letter(new))
<1>1. /\ queue'[q] = Append(queue[q], new) /\ IsSequence(queue[q])
      /\ \A x \in Queues \ {q} : queue'[x] = queue[x]
  BY DEF RqInv
<1>2. JobsOf(q)' = JobsOf(q) \union {new}
  <2>1. Elements(queue'[q]) = Elements(queue[q]) \union {new}
    BY <1>1, AppendElements
  <2> QED
    BY <2>1 DEF JobsOf
<1>3. \A x \in Queues \ {q} : JobsOf(x)' = JobsOf(x)
  BY <1>1 DEF JobsOf
<1>4. \A x \in Queues \ {q} : Letters(x)' \subseteq Letters(x)
  BY <1>3 DEF Letters
<1>5. Letters(q)' \subseteq Letters(q) \union {Letter(new)}
  <2>1. {Letter(k) : k \in JobsOf(q)'} = {Letter(k) : k \in JobsOf(q)} \union {Letter(new)}
    BY <1>2
  <2>2. Letters(q)' = {Letter(k) : k \in JobsOf(q)'} \union dead'[q]
    BY DEF Letters, Letter
  <2> QED
    BY <2>1, <2>2 DEF Letters
<1> QED
  BY <1>4, <1>5

LEMMA EnqueueHome ==
    ASSUME RqInv, RqTypeOK, JobsHome, NEW q \in Queues, NEW kind, NEW of, Enqueue(q, kind, of),
           q = HomeOf(kind), kind = "export" => of \in DOMAIN exports',
           DOMAIN exports \subseteq DOMAIN exports'
    PROVE  JobsHome'
<1>a. PICK new : new = NewJob(kind, of)
  OBVIOUS
<1>1. new = NewJob(kind, of) /\ Letter(new) = [kind |-> kind, of |-> of]
  BY <1>a, NewJobShape DEF Letter
<1>2. \A x \in Queues : \A l \in Letters(x)' : l \in Letters(x) \/ (x = q /\ l = Letter(new))
  <2>1. /\ queue' = [queue EXCEPT ![q] = Append(@, new)] /\ UNCHANGED <<later, worker, dead>>
        /\ \A x \in Queues : dead'[x] \subseteq dead[x]
    BY <1>1 DEF Enqueue
  <2> QED
    BY <2>1, AppendLetters
<1> QED
  BY <1>1, <1>2 DEF JobsHome

LEMMA StayHome ==
    ASSUME JobsHome, LettersStay, DOMAIN exports \subseteq DOMAIN exports'
    PROVE  JobsHome'
BY DEF JobsHome, LettersStay

\* What a component does to the queues: nothing, a new job of its own, or a step of a
\* worker that has one of its jobs.
ActsOn(kinds) ==
    \/ UNCHANGED rqVars
    \/ \E q \in Queues, kind \in kinds, of \in Nat : q = HomeOf(kind) /\ Enqueue(q, kind, of)
    \/ \E q \in Queues :
          /\ worker[q].at # "idle" /\ Current(q).kind \in kinds
          /\ \/ JobDone(q) \/ JobFails(q)
             \/ \E to : Goes(q, to) /\ to.job = worker[q].job

Home == HomeOf("evidence") = INTEGRATIONS /\ HomeOf("sync") = INTEGRATIONS
        /\ HomeOf("history") = INTEGRATIONS /\ HomeOf("export") = EXPORTS
        /\ HomeOf("render") = RENDERS /\ {INTEGRATIONS, EXPORTS, RENDERS} \subseteq Queues

LEMMA Homes == Home
BY QueuesAssumption DEF Home, HomeOf

LEMMA GoesToActs ==
    ASSUME RqInv, NEW kinds, NEW q \in Queues, worker[q].at # "idle", Current(q).kind \in kinds,
           NEW at, GoesTo(q, at)
    PROVE  ActsOn(kinds)
<1>1. PICK to : to = [worker[q] EXCEPT !.at = at]
  OBVIOUS
<1>2. to.job = worker[q].job /\ Goes(q, to)
  BY <1>1, CurrentFacts DEF GoesTo
<1> QED
  BY <1>2 DEF ActsOn

LEMMA SyncActs ==
    ASSUME RqInv, SyncNext
    PROVE  ActsOn({"sync", "history"})
<1> DEFINE kinds == {"sync", "history"}
<1>1. CASE \/ \E s \in Services : \E p \in Properties : Upsert(s, p)
           \/ ChooseKeyEvents
           \/ \E provider \in {"google", "bing", "matomo"} : Connect(provider)
           \/ \E s \in Services : ManualRead(s)
           \/ \E i \in manual : ManualEnd(i)
  <2>1. UNCHANGED rqVars
    BY <1>1 DEF Upsert, ChooseKeyEvents, Connect, ManualRead, ManualEnd
  <2> QED
    BY <2>1 DEF ActsOn
<1>2. CASE ScheduleSync \/ AskHistory
  <2>1. \/ UNCHANGED rqVars
        \/ \E kind \in kinds : Enqueue(INTEGRATIONS, kind, 0)
    BY <1>2 DEF ScheduleSync, AskHistory, INTEGRATIONS
  <2> QED
    BY <2>1, Homes DEF Home, ActsOn
<1>3. ASSUME NEW at \in {"begin", "syncing", "inspecting"}, NEW q \in WorkersIn(kinds, at)
      PROVE  /\ q \in Queues /\ worker[q].at = at /\ worker[q].at # "idle"
             /\ Current(q).kind \in kinds /\ {"job", "at"} \subseteq DOMAIN worker[q]
  BY WorkersInFacts, CurrentFacts
<1>4. ASSUME NEW at \in {"begin", "syncing", "inspecting"}, NEW q \in WorkersIn(kinds, at),
             JobFails(q) \/ GoesTo(q, "done") \/ \E to : Goes(q, to) /\ to.job = worker[q].job
      PROVE  ActsOn(kinds)
  <2>1. q \in Queues /\ worker[q].at # "idle" /\ Current(q).kind \in kinds
    BY <1>3
  <2> QED
    BY <1>4, <2>1, GoesToActs DEF ActsOn
<1>5. ASSUME NEW w, {"job", "at"} \subseteq DOMAIN w
      PROVE  Failed(w).job = w.job /\ Ready(w).job = w.job
  BY <1>5 DEF Failed, Ready
<1>6. ASSUME NEW q \in WorkersIn(kinds, "begin"), SyncBegin(q) PROVE ActsOn(kinds)
  <2>1. PICK to : Goes(q, to) /\ to = [job |-> worker[q].job, at |-> "syncing", todo |-> Mapped,
                                       ranges |-> <<>>, import |-> {}, failed |-> FALSE]
    BY <1>6 DEF SyncBegin, Busy
  <2> QED
    BY <1>4, <2>1
<1>7. ASSUME NEW q \in WorkersIn(kinds, "syncing"),
             SyncRead(q) \/ SyncRefused(q) \/ SyncStored(q) \/ SyncFailed(q) \/ SyncEnd(q)
      PROVE  ActsOn(kinds)
  <2>1. CASE SyncRead(q)
    <3>1. PICK ranges, import :
            Goes(q, [worker[q] EXCEPT !.ranges = ranges, !.import = import])
      BY <2>1 DEF SyncRead, Busy
    <3>2. PICK to : to = [worker[q] EXCEPT !.ranges = ranges, !.import = import]
      OBVIOUS
    <3>3. to.job = worker[q].job
      BY <1>3, <3>2
    <3> QED
      BY <1>4, <3>1, <3>2, <3>3
  <2>2. CASE SyncRefused(q) \/ SyncFailed(q)
    <3>1. Goes(q, Failed(worker[q]))
      BY <2>2 DEF SyncRefused, SyncFailed, Busy
    <3> QED
      BY <1>3, <1>4, <1>5, <3>1
  <2>3. CASE SyncStored(q)
    <3>1. PICK to :
            /\ Goes(q, to)
            /\ \/ to = [worker[q] EXCEPT !.ranges = Tail(@), !.import = {}]
               \/ to = [worker[q] EXCEPT !.at = "inspecting"]
               \/ to = Ready(worker[q])
      BY <2>3 DEF SyncStored, Busy
    <3>2. to.job = worker[q].job
      BY <1>3, <1>5, <3>1
    <3> QED
      BY <1>4, <3>1, <3>2
  <2>4. CASE SyncEnd(q)
    BY <1>4, <2>4 DEF SyncEnd
  <2> QED
    BY <1>7, <2>1, <2>2, <2>3, <2>4
<1>8. ASSUME NEW q \in WorkersIn(kinds, "inspecting"), SyncInspect(q) PROVE ActsOn(kinds)
  <2>1. PICK w : w = [worker[q] EXCEPT !.at = "syncing"]
    OBVIOUS
  <2>2. {"job", "at"} \subseteq DOMAIN w /\ w.job = worker[q].job
    BY <1>3, <2>1
  <2>3. Goes(q, Ready(w)) \/ Goes(q, Failed(w))
    BY <1>8, <2>1 DEF SyncInspect, Busy
  <2> QED
    BY <1>4, <1>5, <2>2, <2>3
<1> QED
  BY <1>1, <1>2, <1>6, <1>7, <1>8 DEF SyncNext

LEMMA EvidenceActs ==
    ASSUME EvidenceInv, EvidenceNext
    PROVE  ActsOn({"evidence"})
<1> DEFINE kinds == {"evidence"}
<1>0. RqInv
  BY DEF EvidenceInv
<1>1. CASE \/ \E c \in 1..Here.overlap : \E q \in Questions : Admit(c, q)
           \/ SwitchControls
           \/ \E a \in asking : Store(a) \/ CallDies(a)
  BY <1>1 DEF Admit, SwitchControls, Store, CallDies, ActsOn
<1>2. ASSUME NEW a \in asking, Call(a) PROVE ActsOn(kinds)
  <2>1. UNCHANGED rqVars \/ Enqueue(INTEGRATIONS, "evidence", a.of)
    BY <1>2 DEF Call
  <2>2. a.of \in Nat
    BY DEF EvidenceInv, AsksOK
  <2> QED
    BY <2>1, <2>2, Homes DEF Home, ActsOn
<1>3. ASSUME NEW at \in {"begin", "claimed", "answered", "lost"}, NEW q \in WorkersIn(kinds, at),
             Claim(q) \/ Answer(q) \/ NoAnswer(q) \/ Complete(q) \/ Fail(q)
      PROVE  ActsOn(kinds)
  <2>1. q \in Queues /\ worker[q].at # "idle" /\ Current(q).kind \in kinds
    BY WorkersInFacts
  <2>2. JobFails(q) \/ \E to : GoesTo(q, to)
    BY <1>3 DEF Claim, Answer, NoAnswer, Complete, Fail
  <2> QED
    BY <1>0, <2>1, <2>2, GoesToActs DEF ActsOn
<1> QED
  BY <1>1, <1>2, <1>3 DEF EvidenceNext

LEMMA RenderActs ==
    ASSUME RqInv, RenderTypeOK, RenderNext
    PROVE  ActsOn({"render"})
<1> DEFINE kinds == {"render"}
<1>1. CASE \/ \E s \in Snapshots : Recheck(s)
           \/ \E o \in rechecking : RecheckDies(o)
  BY <1>1 DEF Recheck, RecheckDies, ActsOn
<1>2. ASSUME NEW o \in rechecking, CallQueue(o) PROVE ActsOn(kinds)
  <2>1. UNCHANGED rqVars \/ Enqueue(RENDERS, "render", o)
    BY <1>2 DEF CallQueue
  <2>2. o \in Nat
    BY DEF RenderTypeOK
  <2> QED
    BY <2>1, <2>2, Homes DEF Home, ActsOn
<1>3. ASSUME NEW at \in {"begin", "rendering"}, NEW q \in WorkersIn(kinds, at),
             RenderBegins(q) \/ RenderEnds(q) \/ RenderFails(q)
      PROVE  ActsOn(kinds)
  <2>1. q \in Queues /\ worker[q].at # "idle" /\ Current(q).kind \in kinds
    BY WorkersInFacts
  <2>2. JobFails(q) \/ \E to : GoesTo(q, to)
    BY <1>3 DEF RenderBegins, RenderEnds, RenderFails
  <2> QED
    BY <2>1, <2>2, GoesToActs DEF ActsOn
<1> QED
  BY <1>1, <1>2, <1>3 DEF RenderNext

\* Exports; a dead letter that is started again has its own shape.
LEMMA ExportActs ==
    ASSUME RqInv, ExportTypeOK, ExportNext
    PROVE  ActsOn({"export"}) \/ \E j \in dead[EXPORTS] : RequeueExport(j)
<1> DEFINE kinds == {"export"}
<1>1. CASE AskExport \/ ExportCallDies \/ \E e \in DOMAIN exports : Download(e)
  BY <1>1 DEF AskExport, ExportCallDies, Download, ActsOn
<1>2. CASE StoreExport
  <2>1. UNCHANGED rqVars \/ Enqueue(EXPORTS, "export", Len(exports) + 1)
    BY <1>2 DEF StoreExport
  <2>2. Len(exports) + 1 \in Nat
    BY DEF ExportTypeOK
  <2> QED
    BY <2>1, <2>2, Homes DEF Home, ActsOn
<1>3. ASSUME NEW at \in {"begin", "writing"}, NEW q \in WorkersIn(kinds, at),
             Begin(q) \/ Write(q) \/ WriteFails(q)
      PROVE  ActsOn(kinds)
  <2>1. q \in Queues /\ worker[q].at # "idle" /\ Current(q).kind \in kinds
    BY WorkersInFacts
  <2>2. JobDone(q) \/ JobFails(q) \/ \E to : GoesTo(q, to)
    BY <1>3 DEF Begin, Write, WriteFails
  <2> QED
    BY <2>1, <2>2, GoesToActs DEF ActsOn
<1> QED
  BY <1>1, <1>2, <1>3 DEF ExportNext

LEMMA WorkerHome ==
    ASSUME RqInv, JobsHome, NEW q \in Queues, worker[q].at # "idle"
    PROVE  /\ q = HomeOf(Current(q).kind)
           /\ Current(q).kind = "export" => Current(q).of \in DOMAIN exports
<1>1. Letter(Current(q)) \in Letters(q)
  BY CurrentFacts DEF Letters
<1> QED
  BY <1>1 DEF JobsHome, Letter

LEMMA ActsHome ==
    ASSUME RqInv, RqTypeOK, JobsHome, NEW kinds, "export" \notin kinds, ActsOn(kinds),
           UNCHANGED exports
    PROVE  JobsHome'
<1>1. CASE UNCHANGED rqVars
  BY <1>1, StutterLetters, StayHome
<1>2. ASSUME NEW q \in Queues, NEW kind \in kinds, NEW of \in Nat, q = HomeOf(kind),
             Enqueue(q, kind, of)
      PROVE  JobsHome'
  BY <1>2, EnqueueHome
<1>3. ASSUME NEW q \in Queues, worker[q].at # "idle",
             \/ JobDone(q) \/ JobFails(q)
             \/ \E to : Goes(q, to) /\ to.job = worker[q].job
      PROVE  JobsHome'
  BY <1>3, ReleaseLetters, GoesLetters, StayHome
<1> QED
  BY <1>1, <1>2, <1>3 DEF ActsOn

\* An export gets a status, if it is there.
LEMMA SetExportFacts ==
    ASSUME ExportTypeOK, NEW e, NEW status, SetExport(e, status)
    PROVE  /\ DOMAIN exports' = DOMAIN exports
           /\ \A x \in DOMAIN exports :
                 exports'[x].status = IF x = e THEN status ELSE exports[x].status
<1>1. \A x \in DOMAIN exports : exports[x] \in ExportRow
  BY SequenceFacts DEF ExportTypeOK, ExportRow
<1>2. \A x \in DOMAIN exports : [exports[x] EXCEPT !.status = status].status = status
  BY <1>1 DEF ExportRow
<1> QED
  BY <1>1, <1>2 DEF SetExport

LEMMA NewExportFacts ==
    ASSUME ExportTypeOK, NEW status, NewExport(status)
    PROVE  /\ DOMAIN exports' = DOMAIN exports \union {Len(exports) + 1}
           /\ \A x \in DOMAIN exports : exports'[x] = exports[x]
<1>1. exports \in Seq(ExportRow)
  BY DEF ExportTypeOK, ExportRow
<1>2. PICK x : exports' = Append(exports, x)
  BY DEF NewExport
<1> QED
  BY <1>1, <1>2

\* A job of the queue "exports" is the job of an export.
LEMMA ExportsOnly ==
    ASSUME NEW kind, HomeOf(kind) = EXPORTS
    PROVE  kind = "export"
BY DEF HomeOf, EXPORTS, RENDERS, INTEGRATIONS

ExportInv ==
    \A q \in Queues :
        worker[q].at = "writing" /\ Current(q).kind = "export"
        => exports[Current(q).of].status \in {"pending", "running"}

ExportStep ==
    \A e \in DOMAIN exports :
        exports[e].status = "succeeded" /\ ~DeadLetterOf(e) => exports'[e].status = "succeeded"

\* The worker of the exports is the only one that writes one.
LEMMA ExportNextInv ==
    ASSUME RqInv, RqInv', RqTypeOK, JobsHome, ExportTypeOK, ExportInv, ExportNext
    PROVE  JobsHome' /\ ExportInv' /\ ExportStep
<1>a. ASSUME DOMAIN exports \subseteq DOMAIN exports', UNCHANGED worker,
             \A e \in DOMAIN exports :
                exports'[e].status = exports[e].status \/ exports'[e].status = "pending"
      PROVE  ExportInv'
  <2>1. \A q \in Queues : Current(q)' = Current(q)
    BY <1>a DEF Current
  <2> QED
    BY <1>a, <2>1, WorkerHome DEF ExportInv
<1>1. CASE AskExport
  <2>1. UNCHANGED <<exports, rqVars>> /\ UNCHANGED worker
    BY <1>1 DEF AskExport, rqVars
  <2> QED
    BY <1>a, <2>1, StutterLetters, StayHome DEF ExportStep
<1>2. CASE StoreExport \/ ExportCallDies
  <2>1. \E status : NewExport(status)
    BY <1>2 DEF StoreExport, ExportCallDies
  <2>2. /\ DOMAIN exports' = DOMAIN exports \union {Len(exports) + 1}
        /\ \A x \in DOMAIN exports : exports'[x] = exports[x]
    BY <2>1, NewExportFacts
  <2>3. UNCHANGED rqVars \/ Enqueue(EXPORTS, "export", Len(exports) + 1)
    BY <1>2 DEF StoreExport, ExportCallDies
  <2>4. JobsHome'
    BY <2>2, <2>3, StutterLetters, StayHome, EnqueueHome, Homes DEF Home
  <2>5. UNCHANGED worker
    BY <2>3 DEF rqVars, Enqueue
  <2> QED
    BY <1>a, <2>2, <2>4, <2>5 DEF ExportStep
<1>3. ASSUME NEW e \in DOMAIN exports, Download(e)
      PROVE  JobsHome' /\ ExportInv' /\ ExportStep
  <2>1. UNCHANGED rqVars /\ UNCHANGED worker
    BY <1>3 DEF Download, rqVars
  <2>2. \A x \in DOMAIN exports : exports[x] \in ExportRow
    BY SequenceFacts DEF ExportTypeOK, ExportRow
  <2>3. /\ DOMAIN exports' = DOMAIN exports
        /\ \A x \in DOMAIN exports : exports'[x].status = exports[x].status
    BY <1>3, <2>2 DEF Download, ExportRow
  <2> QED
    BY <1>a, <2>1, <2>3, StutterLetters, StayHome DEF ExportStep
<1>4. ASSUME NEW j \in dead[EXPORTS], RequeueExport(j)
      PROVE  JobsHome' /\ ExportInv' /\ ExportStep
  <2>1. PICK new : new = NewJob("export", j.of)
    OBVIOUS
  <2>2. /\ queue' = [queue EXCEPT ![EXPORTS] = Append(@, new)]
        /\ dead' = [dead EXCEPT ![EXPORTS] = @ \ {j}]
        /\ UNCHANGED <<later, worker>> /\ SetExport(j.of, "pending")
    BY <1>4, <2>1 DEF RequeueExport
  <2>3. Letter(new) = [kind |-> "export", of |-> j.of] /\ EXPORTS \in Queues
    BY <2>1, NewJobShape, QueuesAssumption DEF Letter
  <2>4. j.kind = "export" /\ j.of \in DOMAIN exports
    <3>1. j \in Letters(EXPORTS)
      BY DEF Letters
    <3> QED
      BY <2>3, <3>1, ExportsOnly DEF JobsHome
  <2>5. j = [kind |-> "export", of |-> j.of]
    <3>1. j \in [kind : Kinds, of : Nat]
      BY <2>3 DEF RqTypeOK
    <3> QED
      BY <2>4, <3>1
  <2>6. /\ DOMAIN exports' = DOMAIN exports
        /\ \A x \in DOMAIN exports :
              exports'[x].status = IF x = j.of THEN "pending" ELSE exports[x].status
    BY <2>2, SetExportFacts
  <2>7. \A x \in Queues : dead'[x] \subseteq dead[x]
    BY <2>2 DEF RqTypeOK
  <2>8. \A x \in Queues : \A l \in Letters(x)' :
           l \in Letters(x) \/ (x = EXPORTS /\ l = Letter(new))
    BY <2>2, <2>3, <2>7, AppendLetters
  <2>9. JobsHome'
    BY <2>3, <2>4, <2>6, <2>8, Homes DEF JobsHome, Home
  <2>10. ExportStep
    BY <2>5, <2>6 DEF ExportStep, DeadLetterOf
  <2> QED
    BY <1>a, <2>2, <2>6, <2>9, <2>10
<1>5. ASSUME NEW at \in {"begin", "writing"}, NEW q \in WorkersIn({"export"}, at),
             \/ at = "begin" /\ Begin(q)
             \/ at = "writing" /\ (Write(q) \/ WriteFails(q))
      PROVE  JobsHome' /\ ExportInv' /\ ExportStep
  <2>1. q \in Queues /\ worker[q].at = at /\ Current(q).kind = "export" /\ worker[q].at # "idle"
    BY WorkersInFacts
  <2>2. q = EXPORTS /\ Current(q).of \in DOMAIN exports
    BY <2>1, WorkerHome, Homes DEF Home
  <2>3. PICK e : e = Current(q).of /\ e \in DOMAIN exports
    BY <2>2
  <2>4. \A x \in Queues \ {q} : worker[x].at # "idle" => Current(x).kind # "export"
    BY <2>2, WorkerHome, Homes DEF Home
  <2>5. \A x \in Queues \ {q} : worker'[x] = worker[x] /\ Current(x)' = Current(x)
    <3>1. /\ DOMAIN worker = Queues
          /\ \E to : worker' = [worker EXCEPT ![q] = to]
      BY <1>5 DEF RqInv, Begin, Write, WriteFails, JobDone, JobFails, GoesTo, Goes
    <3> QED
      BY <3>1 DEF Current
  <2>6. DOMAIN exports' = DOMAIN exports
    BY <1>5, SetExportFacts DEF Begin, Write, WriteFails
  <2>7. JobsHome'
    <3>1. JobDone(q) \/ JobFails(q) \/ \E to : GoesTo(q, to)
      BY <1>5 DEF Begin, Write, WriteFails
    <3> QED
      BY <2>1, <2>6, <3>1, ReleaseLetters, GoesToLetters, StayHome
  <2>8. worker'[q].at = "writing" =>
           Current(q)' = Current(q) /\ exports[e].status = "pending" /\ SetExport(e, "running")
    <3>1. CASE JobDone(q) \/ JobFails(q)
      <4>1. worker'[q] = Idle
        BY <2>1, <3>1 DEF JobDone, JobFails, RqInv
      <4> QED
        BY <4>1 DEF Idle
    <3>2. ASSUME NEW to, GoesTo(q, to)
          PROVE  worker'[q].at = to /\ Current(q)' = Current(q)
      <4>1. PICK w : w = [worker[q] EXCEPT !.at = to]
        OBVIOUS
      <4>2. w.at = to /\ w.job = worker[q].job
        BY <2>1, <4>1, CurrentFacts
      <4>3. worker'[q] = w
        BY <2>1, <3>2, <4>1 DEF GoesTo, Goes, RqInv
      <4> QED
        BY <4>2, <4>3 DEF Current
    <3> QED
      BY <1>5, <2>3, <3>1, <3>2 DEF Begin, Write, WriteFails
  <2>9. ExportInv'
    <3>1. worker'[q].at = "writing" => exports'[Current(q)'.of].status = "running"
      BY <2>3, <2>8, SetExportFacts
    <3>2. ASSUME NEW x \in Queues \ {q}, worker'[x].at = "writing", Current(x)'.kind = "export"
          PROVE  FALSE
      BY <2>4, <2>5, <3>2
    <3> QED
      BY <3>1, <3>2 DEF ExportInv
  <2>10. ExportStep
    <3>1. CASE Begin(q)
      <4>1. UNCHANGED exports \/ (exports[e].status = "pending" /\ SetExport(e, "running"))
        BY <2>3, <3>1 DEF Begin
      <4> QED
        BY <4>1, SetExportFacts DEF ExportStep
    <3>2. CASE Write(q)
      BY <3>2, SetExportFacts DEF Write, ExportStep
    <3>3. CASE at = "writing" /\ WriteFails(q)
      <4>1. exports[e].status # "succeeded"
        BY <2>1, <2>3, <3>3 DEF ExportInv
      <4> QED
        BY <2>3, <3>3, <4>1, SetExportFacts DEF WriteFails, ExportStep
    <3> QED
      BY <1>5, <3>1, <3>2, <3>3
  <2> QED
    BY <2>7, <2>9, <2>10
<1> QED
  BY <1>1, <1>2, <1>3, <1>4, <1>5 DEF ExportNext

\* A worker that a component moves has a job of its kinds, and keeps or loses it.
LEMMA ActsLeaves ==
    ASSUME RqInv, NEW kinds, ActsOn(kinds), NEW q \in Queues
    PROVE  \/ worker'[q] = worker[q]
           \/ /\ worker[q].at # "idle" /\ Current(q).kind \in kinds
              /\ worker'[q] = Idle \/ (worker'[q].job = worker[q].job /\ Current(q)' = Current(q))
<1>1. CASE UNCHANGED rqVars
  BY <1>1 DEF rqVars
<1>2. ASSUME NEW x \in Queues, NEW kind, NEW of, Enqueue(x, kind, of)
      PROVE  worker'[q] = worker[q]
  BY <1>2 DEF Enqueue
<1>3. ASSUME NEW x \in Queues, JobDone(x) \/ JobFails(x)
      PROVE  worker'[q] = worker[q] \/ (q = x /\ worker'[q] = Idle)
  BY <1>3 DEF JobDone, JobFails, RqInv
<1>4. ASSUME NEW x \in Queues, NEW to, Goes(x, to), to.job = worker[x].job
      PROVE  worker'[q] = worker[q] \/ (q = x /\ worker'[q].job = worker[q].job)
  BY <1>4 DEF Goes, RqInv
<1>5. worker'[q].job = worker[q].job => Current(q)' = Current(q)
  BY DEF Current
<1> QED
  BY <1>1, <1>2, <1>3, <1>4, <1>5 DEF ActsOn

LEMMA RqLeaves ==
    ASSUME RqInv, RqNext, NEW q \in Queues
    PROVE  worker'[q] = worker[q] \/ worker'[q] = Idle \/ worker'[q].at = "begin"
<1>1. ASSUME NEW x \in Queues, Finish(x) \/ WorkerDies(x)
      PROVE  worker'[q] = worker[q] \/ worker'[q] = Idle
  BY <1>1 DEF Finish, WorkerDies, JobDone, JobFails, RqInv
<1>2. ASSUME NEW x \in Queues, Take(x)
      PROVE  worker'[q] = worker[q] \/ worker'[q].at = "begin"
  BY <1>2 DEF Take, RqInv
<1>3. ASSUME NEW x \in Queues, NEW j \in later[x], NextAttempt(x, j)
      PROVE  worker'[q] = worker[q]
  BY <1>3 DEF NextAttempt
<1>4. Tick => worker'[q] = worker[q]
  BY DEF Tick, rqVars
<1> QED
  BY <1>1, <1>2, <1>3, <1>4 DEF RqNext

LEMMA ExportOthersInv ==
    ASSUME RqInv, ExportInv, UNCHANGED exports,
           RqNext \/ \E kinds : "export" \notin kinds /\ ActsOn(kinds)
    PROVE  ExportInv'
<1> SUFFICES ASSUME NEW q \in Queues, worker'[q].at = "writing", Current(q)'.kind = "export"
             PROVE  worker'[q] = worker[q]
  BY DEF ExportInv, Current
<1>1. CASE RqNext
  BY <1>1, RqLeaves DEF Idle
<1>2. ASSUME NEW kinds, "export" \notin kinds, ActsOn(kinds)
      PROVE  worker'[q] = worker[q]
  BY <1>2, ActsLeaves DEF Idle
<1> QED
  BY <1>1, <1>2

PromiseInv == TypeInv /\ JobsHome /\ ExportInv

LEMMA PromiseInitInv == Init => PromiseInv
<1> SUFFICES ASSUME Init PROVE PromiseInv
  OBVIOUS
<1>1. TypeInv
  BY TypeInitInv
<1>2. /\ queue = [q \in Queues |-> <<>>] /\ later = [q \in Queues |-> {}]
      /\ worker = [q \in Queues |-> Idle] /\ dead = [q \in Queues |-> {}]
  BY DEF Init, RqInit
<1>3. \A q \in Queues : JobsOf(q) = {}
  BY <1>2 DEF JobsOf, Elements, Idle
<1>4. \A q \in Queues : Letters(q) = {}
  BY <1>2, <1>3 DEF Letters
<1>5. ExportInv
  BY <1>2 DEF ExportInv, Idle
<1> QED
  BY <1>1, <1>4, <1>5 DEF PromiseInv, JobsHome

LEMMA PromiseNextInv ==
    ASSUME PromiseInv, [Next]_vars
    PROVE  PromiseInv' /\ ExportStep
<1>0. TypeInv' /\ RqInv /\ RqInv' /\ RqTypeOK /\ ExportTypeOK /\ RenderTypeOK /\ EvidenceInv
  BY TypeNextInv DEF PromiseInv, TypeInv, EvidenceInv
<1>1. CASE ExportNext
  BY <1>0, <1>1, ExportNextInv DEF PromiseInv
<1>2. ASSUME UNCHANGED exports
      PROVE  ExportStep
  BY <1>2 DEF ExportStep
<1>3. CASE RqNext /\ UNCHANGED exportVars
  BY <1>0, <1>2, <1>3, RqLetters, StayHome, ExportOthersInv DEF PromiseInv, exportVars
<1>4. CASE (EvidenceNext \/ SyncNext \/ RenderNext \/ UNCHANGED rqVars) /\ UNCHANGED exportVars
  <2>1. ActsOn({"evidence"}) \/ ActsOn({"sync", "history"}) \/ ActsOn({"render"})
    BY <1>0, <1>4, EvidenceActs, SyncActs, RenderActs DEF ActsOn
  <2>2. UNCHANGED exports
    BY <1>4 DEF exportVars
  <2>3. JobsHome' /\ ExportInv'
    BY <1>0, <2>1, <2>2, ActsHome, ExportOthersInv DEF PromiseInv
  <2> QED
    BY <1>0, <1>2, <2>2, <2>3 DEF PromiseInv
<1> QED
  BY <1>1, <1>3, <1>4 DEF Next, OnboardingNext, vars

\* An export that was made stays made, unless a dead letter starts it again.
THEOREM ExportsAreKept == Spec => ExportKept
<1>1. PromiseInv /\ [Next]_vars => PromiseInv'
  BY PromiseNextInv
<1>2. PromiseInv /\ [Next]_vars => [ExportStep]_exports
  BY PromiseNextInv
<1>3. Spec => [][ExportStep]_exports
  BY <1>1, <1>2, PromiseInitInv, PTL DEF Spec
<1>4. [][ExportStep]_exports => ExportKept
  BY PTL DEF ExportStep, ExportKept
<1> QED
  BY <1>3, <1>4, PTL

-----------------------------------------------------------------------------
(***************************************************************************)
(* What is waited for.  A pending row has a job that waits or that its     *)
(* worker has begun with, or a request that has yet to call the queue; a   *)
(* running row is what the worker of its queue works at.                   *)
(***************************************************************************)

Waiting(q) == Elements(queue[q]) \union later[q]

Coming(q, kind, r) ==
    \/ \E j \in Waiting(q) : j.kind = kind /\ j.of = r
    \/ worker[q].at # "done" /\ \E j \in worker[q].job : j.kind = kind /\ j.of = r

Working(q, at, kind, r) ==
    worker[q].at \in at /\ \E j \in worker[q].job : j.kind = kind /\ j.of = r

\* The worker of q has the job of r.
Has(q, kind, r) == worker[q].at # "idle" /\ Current(q).kind = kind /\ Current(q).of = r

LEMMA HasFacts ==
    ASSUME RqInv, NEW q \in Queues, NEW kind, NEW r
    PROVE  (\E j \in worker[q].job : j.kind = kind /\ j.of = r) <=> Has(q, kind, r)
<1>1. CASE worker[q].at = "idle"
  BY <1>1 DEF RqInv, WorkerShape, Has
<1>2. CASE worker[q].at # "idle"
  BY <1>2, CurrentFacts DEF Has
<1> QED
  BY <1>1, <1>2

\* A new job waits.
LEMMA AppendWaiting ==
    ASSUME RqInv, NEW q \in Queues, NEW x \in Queues, NEW new, UNCHANGED later,
           queue' = [queue EXCEPT ![q] = Append(@, new)]
    PROVE  Waiting(x) \subseteq Waiting(x)' /\ new \in Waiting(q)'
<1>1. /\ queue'[q] = Append(queue[q], new) /\ IsSequence(queue[q])
      /\ \A y \in Queues \ {q} : queue'[y] = queue[y]
  BY DEF RqInv
<1>2. Elements(queue'[q]) = Elements(queue[q]) \union {new}
  BY <1>1, AppendElements
<1> QED
  BY <1>1, <1>2 DEF Waiting

\* Jobs that wait go on waiting, whatever the components do.
LEMMA ActsWaiting ==
    ASSUME RqInv, NEW kinds, ActsOn(kinds), NEW q \in Queues
    PROVE  Waiting(q) \subseteq Waiting(q)'
<1>1. CASE UNCHANGED rqVars
  BY <1>1 DEF rqVars, Waiting
<1>2. ASSUME NEW x \in Queues, NEW kind, NEW of, Enqueue(x, kind, of)
      PROVE  Waiting(q) \subseteq Waiting(q)'
  <2>1. PICK new : new = NewJob(kind, of)
    OBVIOUS
  <2>2. queue' = [queue EXCEPT ![x] = Append(@, new)] /\ UNCHANGED later
    BY <1>2, <2>1 DEF Enqueue
  <2> QED
    BY <2>2, AppendWaiting
<1>3. ASSUME NEW x \in Queues, JobDone(x) \/ JobFails(x) \/ \E to : Goes(x, to)
      PROVE  Waiting(q) \subseteq Waiting(q)'
  <2>1. UNCHANGED queue /\ later[q] \subseteq later'[q]
    <3>1. CASE JobDone(x) \/ \E to : Goes(x, to)
      BY <3>1 DEF JobDone, Goes
    <3>2. CASE JobFails(x)
      <4>1. PICK more : later' = [later EXCEPT ![x] = @ \union more] \/ later' = [later EXCEPT ![x] = @]
        BY <3>2 DEF JobFails
      <4> QED
        BY <3>2, <4>1 DEF JobFails, RqInv
    <3> QED
      BY <1>3, <3>1, <3>2
  <2> QED
    BY <2>1 DEF Waiting
<1> QED
  BY <1>1, <1>2, <1>3 DEF ActsOn

\* What is not the worker's job of this step goes on coming.
LEMMA ComingStays ==
    ASSUME RqInv, NEW q \in Queues, NEW kind, NEW r, Coming(q, kind, r), ~Has(q, kind, r),
           Waiting(q) \subseteq Waiting(q)'
    PROVE  Coming(q, kind, r)'
BY HasFacts DEF Coming

LEMMA OthersCarry ==
    ASSUME RqInv, NEW kinds, ActsOn(kinds), NEW q \in Queues, NEW kind, kind \notin kinds, NEW r
    PROVE  /\ Coming(q, kind, r) => Coming(q, kind, r)'
           /\ \A at : Working(q, at, kind, r) => Working(q, at, kind, r)'
<1>1. Waiting(q) \subseteq Waiting(q)'
  BY ActsWaiting
<1>2. Has(q, kind, r) => worker'[q] = worker[q]
  BY ActsLeaves DEF Has
<1>3. Coming(q, kind, r) => Coming(q, kind, r)'
  BY <1>1, <1>2, ComingStays DEF Coming
<1>4. ASSUME NEW at, Working(q, at, kind, r) PROVE Working(q, at, kind, r)'
  BY <1>2, <1>4, HasFacts DEF Working
<1> QED
  BY <1>3, <1>4

\* The queues themselves lose nothing, as long as nothing dies.
LEMMA RqCarry ==
    ASSUME RqInv, RqTypeOK, RqNext, deaths' = deaths, NEW q \in Queues, NEW kind, NEW r
    PROVE  /\ Coming(q, kind, r) => Coming(q, kind, r)'
           /\ \A at : "idle" \notin at /\ "done" \notin at /\ Working(q, at, kind, r)
                      => Working(q, at, kind, r)'
<1>1. CASE Tick
  BY <1>1 DEF Tick, rqVars, Coming, Working, Waiting
<1>2. ASSUME NEW x \in Queues, Take(x)
      PROVE  /\ Coming(q, kind, r) => Coming(q, kind, r)'
             /\ \A at : "idle" \notin at /\ "done" \notin at /\ Working(q, at, kind, r)
                        => Working(q, at, kind, r)'
  <2>1. PICK to : to = [job |-> {Head(queue[x])}, at |-> "begin"]
    OBVIOUS
  <2>2. /\ worker[x].at = "idle" /\ queue[x] # <<>>
        /\ worker' = [worker EXCEPT ![x] = to] /\ queue' = [queue EXCEPT ![x] = Tail(@)]
        /\ UNCHANGED later
    BY <1>2, <2>1 DEF Take, At
  <2>3. /\ \A y \in Queues \ {x} : worker'[y] = worker[y] /\ queue'[y] = queue[y]
        /\ worker'[x] = to /\ queue'[x] = Tail(queue[x]) /\ worker[x].job = {}
    BY <2>2 DEF RqInv, WorkerShape
  <2>4. CASE q # x
    BY <2>2, <2>3, <2>4 DEF Coming, Working, Waiting
  <2>5. CASE q = x
    <3>1. Elements(queue[x]) \subseteq Elements(Tail(queue[x])) \union {Head(queue[x])}
      BY <2>2, HeadOrTail DEF RqInv
    <3>2. Waiting(x) \subseteq Waiting(x)' \union {Head(queue[x])}
      BY <2>2, <2>3, <3>1 DEF Waiting
    <3>3. worker'[x].job = {Head(queue[x])} /\ worker'[x].at = "begin"
      BY <2>1, <2>3
    <3> QED
      BY <2>2, <2>3, <2>5, <3>2, <3>3 DEF Coming, Working
  <2> QED
    BY <2>4, <2>5
<1>3. ASSUME NEW x \in Queues, Finish(x)
      PROVE  /\ Coming(q, kind, r) => Coming(q, kind, r)'
             /\ \A at : "idle" \notin at /\ "done" \notin at /\ Working(q, at, kind, r)
                        => Working(q, at, kind, r)'
  <2>1. /\ worker[x].at = "done" /\ worker'[x] = Idle /\ UNCHANGED <<queue, later>>
        /\ \A y \in Queues \ {x} : worker'[y] = worker[y]
    BY <1>3 DEF Finish, JobDone, RqInv, At
  <2> QED
    BY <2>1 DEF Coming, Working, Waiting
<1>4. ASSUME NEW x \in Queues, NEW j \in later[x], NextAttempt(x, j)
      PROVE  /\ Coming(q, kind, r) => Coming(q, kind, r)'
             /\ \A at : "idle" \notin at /\ "done" \notin at /\ Working(q, at, kind, r)
                        => Working(q, at, kind, r)'
  <2>1. /\ UNCHANGED worker
        /\ later' = [later EXCEPT ![x] = @ \ {j}] /\ queue' = [queue EXCEPT ![x] = Append(@, j)]
    BY <1>4 DEF NextAttempt
  <2>2. /\ later'[x] = later[x] \ {j} /\ queue'[x] = Append(queue[x], j) /\ IsSequence(queue[x])
        /\ \A y \in Queues \ {x} : later'[y] = later[y] /\ queue'[y] = queue[y]
    BY <2>1 DEF RqInv
  <2>3. Elements(queue'[x]) = Elements(queue[x]) \union {j}
    BY <2>2, AppendElements
  <2>4. Waiting(q) \subseteq Waiting(q)'
    BY <2>2, <2>3 DEF Waiting
  <2> QED
    BY <2>1, <2>4 DEF Coming, Working
<1>5. ASSUME NEW x \in Queues, WorkerDies(x) PROVE FALSE
  BY <1>5 DEF WorkerDies, MayDie, RqTypeOK
<1> QED
  BY <1>1, <1>2, <1>3, <1>4, <1>5 DEF RqNext

EvidenceWaits ==
    \A r \in DOMAIN requests :
        /\ requests[r].status = "pending" =>
              Coming(INTEGRATIONS, "evidence", r) \/ \E a \in asking : a.of = r
        /\ requests[r].status = "running" =>
              Working(INTEGRATIONS, {"claimed", "answered", "lost"}, "evidence", r)

ExportWaits ==
    \A e \in DOMAIN exports :
        /\ exports[e].status = "pending" => Coming(EXPORTS, "export", e)
        /\ exports[e].status = "running" => Working(EXPORTS, {"writing"}, "export", e)

RenderWaits ==
    \A o \in DOMAIN renders :
        /\ renders[o].status = "pending" => Coming(RENDERS, "render", o) \/ o \in rechecking
        /\ renders[o].status = "running" => Working(RENDERS, {"rendering"}, "render", o)

\* A component that another one's step leaves alone.
LEMMA WaitsStay ==
    ASSUME RqInv, RqTypeOK, NEW q \in Queues, NEW kind, NEW r, NEW at,
           "idle" \notin at, "done" \notin at,
           \/ RqNext /\ deaths' = deaths
           \/ \E kinds : kind \notin kinds /\ ActsOn(kinds)
    PROVE  /\ Coming(q, kind, r) => Coming(q, kind, r)'
           /\ Working(q, at, kind, r) => Working(q, at, kind, r)'
<1>1. CASE RqNext /\ deaths' = deaths
  BY <1>1, RqCarry
<1>2. CASE \E kinds : kind \notin kinds /\ ActsOn(kinds)
  BY <1>2, OthersCarry
<1> QED
  BY <1>1, <1>2

\* The worker goes on with its job.
LEMMA GoesToWorking ==
    ASSUME RqInv, NEW q \in Queues, NEW at, GoesTo(q, at), NEW kind, NEW r, Has(q, kind, r)
    PROVE  /\ worker'[q].at = at /\ worker'[q].job = worker[q].job
           /\ \A in : at \in in => Working(q, in, kind, r)'
           /\ at # "done" => Coming(q, kind, r)'
<1>1. PICK w : w = [worker[q] EXCEPT !.at = at]
  OBVIOUS
<1>2. w.at = at /\ w.job = worker[q].job
  BY <1>1, CurrentFacts DEF Has
<1>3. worker'[q] = w
  BY <1>1 DEF GoesTo, Goes, RqInv
<1>4. \E j \in w.job : j.kind = kind /\ j.of = r
  BY <1>2, HasFacts
<1>5. \A in : at \in in => Working(q, in, kind, r)'
  BY <1>2, <1>3, <1>4 DEF Working
<1>6. at # "done" => Coming(q, kind, r)'
  BY <1>2, <1>3, <1>4 DEF Coming
<1> QED
  BY <1>2, <1>3, <1>5, <1>6

\* A row that is running is the row of the worker's job.
LEMMA WorkingIsCurrent ==
    ASSUME RqInv, NEW q \in Queues, NEW at, NEW kind, NEW r, Working(q, at, kind, r)
    PROVE  Has(q, kind, r) /\ worker[q].at \in at
BY HasFacts DEF Working

LEMMA EvidenceWaitsNext ==
    ASSUME EvidenceInv, RqTypeOK, JobsHome, EvidenceWaits, EvidenceNext, deaths' = deaths
    PROVE  EvidenceWaits'
<1> DEFINE Q == INTEGRATIONS
           K == "evidence"
           A == {"claimed", "answered", "lost"}
<1>0. /\ RqInv /\ Q \in Queues /\ ActsOn({"evidence"})
      /\ requests \in Seq(RequestRow) /\ DOMAIN requests = 1..Len(requests) /\ Len(requests) \in Nat
  BY EvidenceActs, QueuesAssumption DEF EvidenceInv, RowsOK
<1>a. ASSUME UNCHANGED rqVars, NEW r
      PROVE  /\ Coming(Q, K, r) => Coming(Q, K, r)'
             /\ Working(Q, A, K, r) => Working(Q, A, K, r)'
  BY <1>a DEF rqVars, Coming, Working, Waiting
<1>b. \A a \in asking : MayDie => FALSE
  BY DEF MayDie, RqTypeOK
<1>1. ASSUME NEW c \in 1..Here.overlap, NEW q \in Questions, Admit(c, q)
      PROVE  EvidenceWaits'
  <2>1. UNCHANGED <<requests, rqVars>> /\ asking \subseteq asking'
    BY <1>1 DEF Admit
  <2> QED
    BY <1>a, <2>1 DEF EvidenceWaits
<1>2. CASE SwitchControls
  <2>1. UNCHANGED <<requests, rqVars>> /\ asking \subseteq asking'
    BY <1>2 DEF SwitchControls
  <2> QED
    BY <1>a, <2>1 DEF EvidenceWaits
<1>3. ASSUME NEW a \in asking, Store(a)
      PROVE  EvidenceWaits'
  <2>1. a.of = 0 /\ UNCHANGED rqVars
    BY <1>3 DEF Store
  <2>2. CASE UNCHANGED requests /\ asking' = asking \ {a}
    BY <1>0, <1>a, <2>1, <2>2 DEF EvidenceWaits
  <2>3. CASE /\ requests' = Append(requests,
                   [question |-> a.question, day |-> a.day, status |-> "pending"])
             /\ asking' = (asking \ {a}) \union {[a EXCEPT !.of = Len(requests) + 1]}
    <3>1. PICK row : row.status = "pending" /\ requests' = Append(requests, row)
      BY <2>3
    <3>2. PICK b : b = [a EXCEPT !.of = Len(requests) + 1] /\ asking' = (asking \ {a}) \union {b}
      BY <2>3
    <3>3. b.of = Len(requests) + 1
      BY <3>2 DEF EvidenceInv, AsksOK
    <3>4. /\ DOMAIN requests' = DOMAIN requests \union {Len(requests) + 1}
          /\ \A r \in DOMAIN requests : requests'[r] = requests[r]
          /\ requests'[Len(requests) + 1] = row
      BY <1>0, <3>1
    <3>5. ASSUME NEW r \in DOMAIN requests
          PROVE  (\E c \in asking : c.of = r) => (\E c \in asking' : c.of = r)
      BY <1>0, <2>1, <3>2
    <3> QED
      BY <1>a, <2>1, <3>1, <3>2, <3>3, <3>4, <3>5 DEF EvidenceWaits
  <2> QED
    BY <1>3, <2>2, <2>3 DEF Store
<1>4. ASSUME NEW a \in asking, Call(a)
      PROVE  EvidenceWaits'
  <2>1. asking' = asking \ {a} /\ a.of \in DOMAIN requests
    BY <1>4 DEF Call, EvidenceInv, AsksOK
  <2>2. CASE Enqueue(Q, "evidence", a.of) /\ UNCHANGED requests
    <3>1. PICK new : new = NewJob("evidence", a.of) /\ new.kind = K /\ new.of = a.of
      BY NewJobShape
    <3>2. /\ queue' = [queue EXCEPT ![Q] = Append(@, new)] /\ UNCHANGED <<later, worker>>
      BY <2>2, <3>1 DEF Enqueue
    <3>3. Waiting(Q) \subseteq Waiting(Q)' /\ new \in Waiting(Q)'
      BY <1>0, <3>2, AppendWaiting
    <3>4. \A r : Coming(Q, K, r) => Coming(Q, K, r)'
      BY <3>2, <3>3 DEF Coming
    <3>5. \A r : Working(Q, A, K, r) => Working(Q, A, K, r)'
      BY <3>2 DEF Working
    <3>6. Coming(Q, K, a.of)'
      BY <3>1, <3>3 DEF Coming
    <3> QED
      BY <2>1, <2>2, <3>4, <3>5, <3>6 DEF EvidenceWaits
  <2>3. CASE requests' = [requests EXCEPT ![a.of].status = "cancelled"] /\ UNCHANGED rqVars
    <3>1. /\ DOMAIN requests' = DOMAIN requests
          /\ \A r \in DOMAIN requests \ {a.of} : requests'[r] = requests[r]
          /\ requests'[a.of].status = "cancelled"
      BY <2>1, <2>3, StatusFacts DEF RequestStatuses
    <3> QED
      BY <1>a, <2>1, <2>3, <3>1 DEF EvidenceWaits
  <2> QED
    BY <1>4, <2>2, <2>3 DEF Call
<1>5. ASSUME NEW a \in asking, CallDies(a)
      PROVE  FALSE
  BY <1>5, <1>b DEF CallDies
<1>6. ASSUME NEW at \in {"begin", "claimed", "answered", "lost"}, NEW q \in WorkersIn({"evidence"}, at),
             \/ at = "begin" /\ Claim(q)
             \/ at = "claimed" /\ (Answer(q) \/ NoAnswer(q))
             \/ at = "answered" /\ Complete(q)
             \/ at = "lost" /\ Fail(q)
      PROVE  EvidenceWaits'
  <2>1. /\ q = Q /\ worker[Q].at = at /\ worker[Q].at # "idle" /\ Current(Q).kind = K
        /\ Current(Q).of \in DOMAIN requests
    <3>1. q \in Queues /\ worker[q].at = at /\ worker[q].at # "idle" /\ Current(q).kind = K
      BY WorkersInFacts
    <3>2. Current(q) \in JobsOf(q)
      BY <1>0, <3>1, CurrentFacts
    <3> QED
      BY <3>1, <3>2 DEF EvidenceInv, JobsKnown
  <2>2. PICK r0 \in DOMAIN requests : r0 = Current(Q).of /\ Has(Q, K, r0)
    BY <2>1 DEF Has
  <2>3. \A r \in DOMAIN requests \ {r0} : Coming(Q, K, r) => Coming(Q, K, r)'
    <3>1. \A r \in DOMAIN requests \ {r0} : ~Has(Q, K, r)
      BY <2>2 DEF Has
    <3> QED
      BY <1>0, <3>1, ActsWaiting, ComingStays
  <2>4. \A r \in DOMAIN requests \ {r0} : requests[r].status # "running"
    BY <1>0, <2>2, WorkingIsCurrent DEF EvidenceWaits, Has
  <2>5. asking' = asking
    BY <1>6 DEF Claim, Answer, NoAnswer, Complete, Fail, evidenceVars
  <2>6. ASSUME NEW s \in RequestStatuses, requests' = [requests EXCEPT ![r0].status = s],
               s \notin {"pending", "running"} \/ (s = "running" /\ Working(Q, A, K, r0)')
        PROVE  EvidenceWaits'
    <3>1. /\ DOMAIN requests' = DOMAIN requests
          /\ \A r \in DOMAIN requests \ {r0} : requests'[r] = requests[r]
          /\ requests'[r0].status = s
      BY <2>6, StatusFacts
    <3> QED
      BY <2>3, <2>4, <2>5, <2>6, <3>1 DEF EvidenceWaits
  <2>7. CASE at = "begin" /\ Claim(q)
    <3>1. CASE /\ requests' = [requests EXCEPT ![r0].status = "running"] /\ GoesTo(Q, "claimed")
      <4>1. Working(Q, A, K, r0)'
        BY <1>0, <2>2, <3>1, GoesToWorking
      <4> QED
        BY <2>6, <3>1, <4>1 DEF RequestStatuses, ActiveStatuses
    <3>2. CASE requests[r0].status \notin {"pending", "failed"} /\ UNCHANGED requests
      <4>1. requests[r0].status # "running"
        BY <1>0, <2>1, <2>7, WorkingIsCurrent DEF EvidenceWaits
      <4> QED
        BY <2>3, <2>4, <2>5, <3>2, <4>1 DEF EvidenceWaits
    <3> QED
      BY <2>1, <2>2, <2>7, <3>1, <3>2 DEF Claim, EvidenceAt
  <2>8. CASE at = "claimed" /\ (Answer(q) \/ NoAnswer(q))
    <3>1. PICK to \in {"answered", "lost"} : GoesTo(Q, to) /\ UNCHANGED requests
      BY <2>1, <2>8 DEF Answer, NoAnswer, evidenceVars
    <3>2. Working(Q, A, K, r0)' /\ Coming(Q, K, r0)'
      BY <1>0, <2>2, <3>1, GoesToWorking
    <3> QED
      BY <2>3, <2>4, <2>5, <3>1, <3>2 DEF EvidenceWaits
  <2>9. CASE (at = "answered" /\ Complete(q)) \/ (at = "lost" /\ Fail(q))
    <3>1. PICK s \in {"succeeded", "failed"} : requests' = [requests EXCEPT ![r0].status = s]
      BY <2>1, <2>2, <2>9 DEF Complete, Fail, EvidenceAt
    <3> QED
      BY <2>6, <3>1 DEF RequestStatuses
  <2> QED
    BY <1>6, <2>7, <2>8, <2>9
<1> QED
  BY <1>1, <1>2, <1>3, <1>4, <1>5, <1>6 DEF EvidenceNext

\* A step of the worker is about the row of its job only.
LEMMA OthersComing ==
    ASSUME RqInv, NEW kinds, ActsOn(kinds), NEW q \in Queues, NEW kind, NEW r0,
           Has(q, kind, r0), NEW r, r # r0
    PROVE  /\ Coming(q, kind, r) => Coming(q, kind, r)'
           /\ \A at : ~Working(q, at, kind, r)
<1>1. ~Has(q, kind, r)
  BY DEF Has
<1> QED
  BY <1>1, ActsWaiting, ComingStays, WorkingIsCurrent

LEMMA ExportWaitsNext ==
    ASSUME RqInv, RqTypeOK, JobsHome, ExportTypeOK, ExportWaits, ExportNext, deaths' = deaths
    PROVE  ExportWaits'
<1> DEFINE Q == EXPORTS
           K == "export"
           A == {"writing"}
<1>0. Q \in Queues /\ DOMAIN exports = 1..Len(exports) /\ Len(exports) \in Nat
  BY QueuesAssumption DEF ExportTypeOK
<1>a. ASSUME UNCHANGED rqVars, NEW e
      PROVE  /\ Coming(Q, K, e) => Coming(Q, K, e)'
             /\ Working(Q, A, K, e) => Working(Q, A, K, e)'
  BY <1>a DEF rqVars, Coming, Working, Waiting
<1>b. ASSUME NEW of, NEW new, new.kind = K, new.of = of, UNCHANGED <<later, worker>>,
             queue' = [queue EXCEPT ![Q] = Append(@, new)], NEW e
      PROVE  /\ Coming(Q, K, e) => Coming(Q, K, e)'
             /\ Working(Q, A, K, e) => Working(Q, A, K, e)'
             /\ Coming(Q, K, of)'
  <2>1. Waiting(Q) \subseteq Waiting(Q)' /\ new \in Waiting(Q)'
    BY <1>0, <1>b, AppendWaiting
  <2> QED
    BY <1>b, <2>1 DEF Coming, Working
<1>1. CASE AskExport
  BY <1>a, <1>1 DEF AskExport, ExportWaits
<1>2. CASE StoreExport
  <2>1. PICK new : new = NewJob("export", Len(exports) + 1) /\ new.kind = K
                   /\ new.of = Len(exports) + 1
    BY NewJobShape
  <2>2. ASSUME NEW status, NewExport(status)
        PROVE  /\ DOMAIN exports' = DOMAIN exports \union {Len(exports) + 1}
               /\ \A e \in DOMAIN exports : exports'[e] = exports[e]
               /\ exports'[Len(exports) + 1].status = status
    <3>1. PICK row : row = [status |-> status, downloaded |-> FALSE]
      OBVIOUS
    <3>2. exports' = Append(exports, row) /\ row.status = status
      BY <2>2, <3>1 DEF NewExport
    <3> QED
      BY <1>0, <2>2, <3>2, NewExportFacts DEF ExportTypeOK
  <2>3. CASE NewExport("failed") /\ UNCHANGED rqVars
    BY <1>a, <2>2, <2>3 DEF ExportWaits
  <2>4. CASE NewExport("pending") /\ Enqueue(EXPORTS, "export", Len(exports) + 1)
    <3>1. queue' = [queue EXCEPT ![Q] = Append(@, new)] /\ UNCHANGED <<later, worker>>
      BY <2>1, <2>4 DEF Enqueue
    <3>2. PICK e0 : e0 = Len(exports) + 1
      OBVIOUS
    <3>3. Coming(Q, K, e0)' /\ \A e : /\ Coming(Q, K, e) => Coming(Q, K, e)'
                                      /\ Working(Q, A, K, e) => Working(Q, A, K, e)'
      BY <1>b, <2>1, <3>1, <3>2
    <3> QED
      BY <2>2, <2>4, <3>2, <3>3 DEF ExportWaits
  <2> QED
    BY <1>2, <2>3, <2>4 DEF StoreExport
<1>3. CASE ExportCallDies
  BY <1>3 DEF ExportCallDies, MayDie, RqTypeOK
<1>4. ASSUME NEW e \in DOMAIN exports, Download(e)
      PROVE  ExportWaits'
  <2>1. \A x \in DOMAIN exports : exports[x] \in ExportRow
    BY SequenceFacts DEF ExportTypeOK, ExportRow
  <2>2. /\ DOMAIN exports' = DOMAIN exports
        /\ \A x \in DOMAIN exports : exports'[x].status = exports[x].status
    BY <1>4, <2>1 DEF Download, ExportRow
  <2> QED
    BY <1>a, <1>4, <2>2 DEF Download, ExportWaits
<1>5. ASSUME NEW j \in dead[EXPORTS], RequeueExport(j)
      PROVE  ExportWaits'
  <2>1. PICK new : new = NewJob("export", j.of) /\ new.kind = K /\ new.of = j.of
    BY NewJobShape
  <2>2. /\ queue' = [queue EXCEPT ![Q] = Append(@, new)]
        /\ UNCHANGED <<later, worker>> /\ SetExport(j.of, "pending")
    BY <1>5, <2>1 DEF RequeueExport
  <2>3. /\ DOMAIN exports' = DOMAIN exports
        /\ \A x \in DOMAIN exports :
              exports'[x].status = IF x = j.of THEN "pending" ELSE exports[x].status
    BY <2>2, SetExportFacts
  <2> QED
    BY <1>b, <2>1, <2>2, <2>3 DEF ExportWaits
<1>6. ASSUME NEW at \in {"begin", "writing"}, NEW q \in WorkersIn({"export"}, at),
             \/ at = "begin" /\ Begin(q)
             \/ at = "writing" /\ (Write(q) \/ WriteFails(q))
      PROVE  ExportWaits'
  <2>1. /\ q = Q /\ worker[Q].at = at /\ worker[Q].at # "idle" /\ Current(Q).kind = K
        /\ Current(Q).of \in DOMAIN exports
    BY WorkersInFacts, WorkerHome, Homes DEF Home
  <2>2. PICK e0 \in DOMAIN exports : e0 = Current(Q).of /\ Has(Q, K, e0)
    BY <2>1 DEF Has
  <2>3. ActsOn({"export"})
    <3>1. JobDone(Q) \/ JobFails(Q) \/ \E to : GoesTo(Q, to)
      BY <1>6, <2>1 DEF Begin, Write, WriteFails
    <3> QED
      BY <1>0, <2>1, <3>1, GoesToActs DEF ActsOn
  <2>4. \A e \in DOMAIN exports \ {e0} :
           /\ Coming(Q, K, e) => Coming(Q, K, e)'
           /\ exports[e].status # "running"
    BY <1>0, <2>2, <2>3, OthersComing DEF ExportWaits
  <2>5. ASSUME NEW s, SetExport(e0, s),
               s \notin {"pending", "running"} \/ (s = "running" /\ Working(Q, A, K, e0)')
        PROVE  ExportWaits'
    BY <2>4, <2>5, SetExportFacts DEF ExportWaits
  <2>6. CASE at = "begin" /\ Begin(q)
    <3>1. CASE SetExport(e0, "running") /\ GoesTo(Q, "writing")
      <4>1. Working(Q, A, K, e0)'
        BY <1>0, <2>2, <3>1, GoesToWorking
      <4> QED
        BY <2>5, <3>1, <4>1
    <3>2. CASE exports[e0].status # "pending" /\ UNCHANGED exports
      <4>1. exports[e0].status # "running"
        BY <1>0, <2>1, <2>6, WorkingIsCurrent DEF ExportWaits
      <4> QED
        BY <2>4, <3>2, <4>1 DEF ExportWaits
    <3> QED
      BY <2>1, <2>2, <2>6, <3>1, <3>2 DEF Begin
  <2>7. CASE at = "writing" /\ (Write(q) \/ WriteFails(q))
    <3>1. PICK s \in {"succeeded", "failed"} : SetExport(e0, s)
      BY <2>1, <2>2, <2>7 DEF Write, WriteFails
    <3> QED
      BY <2>5, <3>1
  <2> QED
    BY <1>6, <2>6, <2>7
<1> QED
  BY <1>1, <1>2, <1>3, <1>4, <1>5, <1>6 DEF ExportNext

\* An inspection gets a status.
LEMMA SetRenderFacts ==
    ASSUME RenderTypeOK, NEW o, NEW status, SetRender(o, status)
    PROVE  /\ DOMAIN renders' = DOMAIN renders
           /\ \A x \in DOMAIN renders :
                 renders'[x].status = IF x = o THEN status ELSE renders[x].status
<1>1. \A x \in DOMAIN renders : renders[x] \in RenderRow
  BY SequenceFacts DEF RenderTypeOK, RenderRow
<1>2. \A x \in DOMAIN renders : [renders[x] EXCEPT !.status = status].status = status
  BY <1>1 DEF RenderRow
<1> QED
  BY <1>1, <1>2 DEF SetRender

LEMMA RenderWaitsNext ==
    ASSUME RqInv, RqTypeOK, JobsHome, JobsKnown, RenderTypeOK, RenderWaits, RenderNext,
           deaths' = deaths
    PROVE  RenderWaits'
<1> DEFINE Q == RENDERS
           K == "render"
           A == {"rendering"}
<1>0. Q \in Queues /\ DOMAIN renders = 1..Len(renders) /\ Len(renders) \in Nat
  BY QueuesAssumption DEF RenderTypeOK
<1>a. ASSUME UNCHANGED rqVars, NEW o
      PROVE  /\ Coming(Q, K, o) => Coming(Q, K, o)'
             /\ Working(Q, A, K, o) => Working(Q, A, K, o)'
  BY <1>a DEF rqVars, Coming, Working, Waiting
<1>1. ASSUME NEW s \in Snapshots, Recheck(s)
      PROVE  RenderWaits'
  <2>1. PICK row : row = [snapshot |-> s, status |-> "pending"]
    OBVIOUS
  <2>2. PICK o0 : o0 = Len(renders) + 1
    OBVIOUS
  <2>3. /\ renders' = Append(renders, row) /\ row.status = "pending" /\ UNCHANGED rqVars
        /\ rechecking' = rechecking \union {o0}
    BY <1>1, <2>1, <2>2 DEF Recheck
  <2>4. /\ DOMAIN renders' = DOMAIN renders \union {o0} /\ renders'[o0] = row
        /\ \A x \in DOMAIN renders : renders'[x] = renders[x]
    BY <1>0, <2>2, <2>3 DEF RenderTypeOK
  <2> QED
    BY <1>a, <2>3, <2>4 DEF RenderWaits
<1>2. ASSUME NEW o \in rechecking, CallQueue(o)
      PROVE  RenderWaits'
  <2>1. rechecking' = rechecking \ {o}
    BY <1>2 DEF CallQueue
  <2>2. CASE Enqueue(RENDERS, "render", o) /\ UNCHANGED renders
    <3>1. PICK new : new = NewJob("render", o) /\ new.kind = K /\ new.of = o
      BY NewJobShape
    <3>2. /\ queue' = [queue EXCEPT ![Q] = Append(@, new)] /\ UNCHANGED <<later, worker>>
      BY <2>2, <3>1 DEF Enqueue
    <3>3. Waiting(Q) \subseteq Waiting(Q)' /\ new \in Waiting(Q)'
      BY <1>0, <3>2, AppendWaiting
    <3>4. \A x : /\ Coming(Q, K, x) => Coming(Q, K, x)'
                 /\ Working(Q, A, K, x) => Working(Q, A, K, x)'
      BY <3>2, <3>3 DEF Coming, Working
    <3>5. Coming(Q, K, o)'
      BY <3>1, <3>3 DEF Coming
    <3> QED
      BY <2>1, <2>2, <3>4, <3>5 DEF RenderWaits
  <2>3. CASE SetRender(o, "failed") /\ UNCHANGED rqVars
    BY <1>a, <2>1, <2>3, SetRenderFacts DEF RenderWaits
  <2> QED
    BY <1>2, <2>2, <2>3 DEF CallQueue
<1>3. ASSUME NEW o \in rechecking, RecheckDies(o) PROVE FALSE
  BY <1>3 DEF RecheckDies, MayDie, RqTypeOK
<1>4. ASSUME NEW at \in {"begin", "rendering"}, NEW q \in WorkersIn({"render"}, at),
             \/ at = "begin" /\ RenderBegins(q)
             \/ at = "rendering" /\ (RenderEnds(q) \/ RenderFails(q))
      PROVE  RenderWaits'
  <2>1. /\ q = Q /\ worker[Q].at = at /\ worker[Q].at # "idle" /\ Current(Q).kind = K
    BY WorkersInFacts, WorkerHome, Homes DEF Home
  <2>2. PICK o0 : o0 = Observed(Q) /\ Has(Q, K, o0)
    BY <2>1 DEF Has, Observed
  <2>3. ActsOn({"render"})
    <3>1. JobDone(Q) \/ JobFails(Q) \/ \E to : GoesTo(Q, to)
      BY <1>4, <2>1 DEF RenderBegins, RenderEnds, RenderFails
    <3> QED
      BY <1>0, <2>1, <3>1, GoesToActs DEF ActsOn
  <2>4. rechecking' = rechecking
    BY <1>4 DEF RenderBegins, RenderEnds, RenderFails
  <2>5. \A o \in DOMAIN renders \ {o0} :
           /\ Coming(Q, K, o) => Coming(Q, K, o)'
           /\ renders[o].status # "running"
    BY <1>0, <2>2, <2>3, OthersComing DEF RenderWaits
  <2>6. ASSUME NEW s, SetRender(o0, s),
               s \notin {"pending", "running"} \/ (s = "running" /\ Working(Q, A, K, o0)')
        PROVE  RenderWaits'
    BY <2>4, <2>5, <2>6, SetRenderFacts DEF RenderWaits
  <2>7. CASE at = "begin" /\ RenderBegins(q)
    <3>1. SetRender(o0, "running") /\ GoesTo(Q, "rendering")
      BY <2>1, <2>2, <2>7 DEF RenderBegins
    <3>2. Working(Q, A, K, o0)'
      BY <1>0, <2>2, <3>1, GoesToWorking
    <3> QED
      BY <2>6, <3>1, <3>2
  <2>8. CASE at = "rendering" /\ (RenderEnds(q) \/ RenderFails(q))
    <3>1. PICK s \in {"succeeded", "failed"} : SetRender(o0, s)
      BY <2>1, <2>2, <2>8 DEF RenderEnds, RenderFails
    <3> QED
      BY <2>6, <3>1
  <2> QED
    BY <1>4, <2>7, <2>8
<1> QED
  BY <1>1, <1>2, <1>3, <1>4 DEF RenderNext

WaitInv == deaths = 0 => EvidenceWaits /\ ExportWaits /\ RenderWaits

LEMMA WaitInitInv == Init => WaitInv
BY DEF Init, EvidenceInit, ExportInit, RenderInit, WaitInv, EvidenceWaits, ExportWaits, RenderWaits

LEMMA EvidenceWaitsStay ==
    ASSUME RqInv, RqTypeOK, EvidenceWaits, UNCHANGED <<requests, asking>>,
           \/ RqNext /\ deaths' = deaths
           \/ \E kinds : "evidence" \notin kinds /\ ActsOn(kinds)
    PROVE  EvidenceWaits'
BY WaitsStay, QueuesAssumption DEF EvidenceWaits

LEMMA ExportWaitsStay ==
    ASSUME RqInv, RqTypeOK, ExportWaits, UNCHANGED exports,
           \/ RqNext /\ deaths' = deaths
           \/ \E kinds : "export" \notin kinds /\ ActsOn(kinds)
    PROVE  ExportWaits'
BY WaitsStay, QueuesAssumption DEF ExportWaits

LEMMA RenderWaitsStay ==
    ASSUME RqInv, RqTypeOK, RenderWaits, UNCHANGED <<renders, rechecking>>,
           \/ RqNext /\ deaths' = deaths
           \/ \E kinds : "render" \notin kinds /\ ActsOn(kinds)
    PROVE  RenderWaits'
BY WaitsStay, QueuesAssumption DEF RenderWaits

LEMMA WaitNextInv ==
    ASSUME PromiseInv, WaitInv, [Next]_vars
    PROVE  WaitInv'
<1> SUFFICES ASSUME deaths' = 0 PROVE (EvidenceWaits /\ ExportWaits /\ RenderWaits)'
  BY DEF WaitInv
<1>0. /\ RqInv /\ RqTypeOK /\ JobsHome /\ EvidenceInv /\ ExportTypeOK /\ RenderTypeOK /\ JobsKnown
  BY DEF PromiseInv, TypeInv, EvidenceInv
<1>1. deaths = 0
  <2>1. deaths' \in {deaths, deaths + 1}
    BY StepAdvance DEF PromiseInv
  <2> QED
    BY <1>0, <2>1 DEF RqTypeOK
<1>2. EvidenceWaits /\ ExportWaits /\ RenderWaits /\ deaths' = deaths
  BY <1>1 DEF WaitInv
<1>3. CASE RqNext /\ UNCHANGED <<evidenceVars, syncVars, exportVars, renderVars, onboardingVars>>
  BY <1>0, <1>2, <1>3, EvidenceWaitsStay, ExportWaitsStay, RenderWaitsStay
     DEF evidenceVars, exportVars, renderVars
<1>4. CASE EvidenceNext /\ UNCHANGED <<syncVars, exportVars, renderVars, onboardingVars>>
  <2>1. ActsOn({"evidence"})
    BY <1>0, <1>4, EvidenceActs
  <2>2. EvidenceWaits'
    BY <1>0, <1>2, <1>4, EvidenceWaitsNext
  <2> QED
    BY <1>0, <1>2, <1>4, <2>1, <2>2, ExportWaitsStay, RenderWaitsStay DEF exportVars, renderVars
<1>5. CASE \/ SyncNext /\ UNCHANGED <<evidenceVars, exportVars, renderVars, onboardingVars>>
           \/ OnboardingNext /\ UNCHANGED <<evidenceVars, syncVars, exportVars, renderVars>>
           \/ UNCHANGED vars
  <2>1. ActsOn({"sync", "history"})
    BY <1>0, <1>5, SyncActs DEF OnboardingNext, vars, ActsOn
  <2>2. UNCHANGED <<requests, asking, exports, renders, rechecking>>
    BY <1>5 DEF vars, evidenceVars, exportVars, renderVars
  <2> QED
    BY <1>0, <1>2, <2>1, <2>2, EvidenceWaitsStay, ExportWaitsStay, RenderWaitsStay
<1>6. CASE ExportNext /\ UNCHANGED <<evidenceVars, syncVars, renderVars, onboardingVars>>
  <2>1. ExportWaits'
    BY <1>0, <1>2, <1>6, ExportWaitsNext
  <2>2. UNCHANGED <<requests, asking, renders, rechecking>>
    BY <1>6 DEF evidenceVars, renderVars
  <2>3. CASE ActsOn({"export"})
    BY <1>0, <1>2, <2>1, <2>2, <2>3, EvidenceWaitsStay, RenderWaitsStay
  <2>4. ASSUME NEW j \in dead[EXPORTS], RequeueExport(j)
        PROVE  EvidenceWaits' /\ RenderWaits'
    <3>1. \A q \in Queues : Waiting(q) \subseteq Waiting(q)'
      <4>1. PICK new : new = NewJob("export", j.of)
        OBVIOUS
      <4>2. queue' = [queue EXCEPT ![EXPORTS] = Append(@, new)] /\ UNCHANGED later
        BY <2>4, <4>1 DEF RequeueExport
      <4> QED
        BY <1>0, <4>2, AppendWaiting, QueuesAssumption
    <3>2. UNCHANGED worker
      BY <2>4 DEF RequeueExport
    <3>3. \A q \in Queues : \A kind, r :
             /\ Coming(q, kind, r) => Coming(q, kind, r)'
             /\ \A at : Working(q, at, kind, r) => Working(q, at, kind, r)'
      BY <3>1, <3>2 DEF Coming, Working
    <3> QED
      BY <1>2, <2>2, <3>3, QueuesAssumption DEF EvidenceWaits, RenderWaits
  <2> QED
    BY <1>0, <1>6, <2>1, <2>3, <2>4, ExportActs
<1>7. CASE RenderNext /\ UNCHANGED <<evidenceVars, syncVars, exportVars, onboardingVars>>
  <2>1. ActsOn({"render"})
    BY <1>0, <1>7, RenderActs
  <2>2. RenderWaits'
    BY <1>0, <1>2, <1>7, RenderWaitsNext
  <2> QED
    BY <1>0, <1>2, <1>7, <2>1, <2>2, EvidenceWaitsStay, ExportWaitsStay DEF evidenceVars, exportVars
<1> QED
  BY <1>3, <1>4, <1>5, <1>6, <1>7 DEF Next

LEMMA ComingHasJob ==
    ASSUME NEW q \in Queues, NEW kind, NEW r
    PROVE  /\ Coming(q, kind, r) => HasJob(q, kind, r)
           /\ \A at : Working(q, at, kind, r) => HasJob(q, kind, r)
BY DEF Coming, Working, Waiting, HasJob, Elements

\* What a row says is waiting or running is on its way, as long as no process dies.
THEOREM WaitedForAreComing == Spec => []WaitedForComes
<1>1. Init => PromiseInv /\ WaitInv
  BY PromiseInitInv, WaitInitInv
<1>2. PromiseInv /\ WaitInv /\ [Next]_vars => (PromiseInv /\ WaitInv)'
  BY PromiseNextInv, WaitNextInv
<1>3. WaitInv => WaitedForComes
  BY ComingHasJob, QueuesAssumption
     DEF WaitInv, WaitedForComes, EvidenceWaits, ExportWaits, RenderWaits
<1> QED
  BY <1>1, <1>2, <1>3, PTL DEF Spec

-----------------------------------------------------------------------------
(***************************************************************************)
(* Holes.  Without an import of an administrator the job is the only one    *)
(* that writes, so an import commits over the first day it has read; a hole  *)
(* is left only by an import of the recent days, and then that first day     *)
(* says where the hole is.                                                  *)
(***************************************************************************)

FromStart == {"search_console", "ga4"}
SyncKinds == {"sync", "history"}

\* The first day of a regular import that ends at day `to`, by DaysFromStart.
RegularFrom(to, from) ==
    to - (IF from = 0 \/ from + HistoryDays > to + 1 THEN HistoryDays ELSE RecentDays) + 1

IsRegular(w) == \E j \in w.job : j.kind = "sync"

\* What the job has read is still so.
ImportOK(w) ==
    /\ IsRegular(w) => Len(w.ranges) <= 1 /\ (w.import = {} => w.ranges = <<>>)
    /\ \A i \in w.import :
          /\ i.settings.from = mapping[i.service].settings.from
          /\ i.regular = IsRegular(w)
          /\ i.regular /\ i.service \in FromStart => i.from = RegularFrom(i.to, i.settings.from)

FarApart(days) ==
    \A k, l \in DOMAIN days : k < l => days[l] - days[k] >= HistoryDays - RecentDays

LastGap(s) ==
    /\ FarApart(gaps[s])
    /\ gaps[s] # <<>> => mapping[s].settings.from = gaps[s][Len(gaps[s])] - RecentDays + 1

HolesInv ==
    "manual" \notin Here.events =>
        /\ manual = {}
        /\ \A q \in Queues :
              worker[q].at = "syncing" /\ Current(q).kind \in SyncKinds => ImportOK(worker[q])
        /\ \A s \in FromStart : LastGap(s)

\* A hole after the last one is far from all of them.
LEMMA AppendFarApart ==
    ASSUME NEW days \in Seq(Nat), FarApart(days), NEW to \in Nat,
           days # <<>> => to - days[Len(days)] >= HistoryDays - RecentDays
    PROVE  FarApart(Append(days, to))
<1> DEFINE more == Append(days, to)
           n == Len(days)
           gap == HistoryDays - RecentDays
<1>1. /\ n \in Nat /\ DOMAIN days = 1..n /\ DOMAIN more = 1..(n + 1) /\ more[n + 1] = to
      /\ \A k \in 1..n : more[k] = days[k] /\ days[k] \in Nat
  OBVIOUS
<1>2. gap \in Nat
  BY SyncAssumption
<1>a. \A k, l \in 1..n : k < l => days[l] - days[k] >= gap
  BY <1>1 DEF FarApart
<1> SUFFICES ASSUME NEW k \in 1..(n + 1), NEW l \in 1..(n + 1), k < l
             PROVE  more[l] - more[k] >= gap
  BY <1>1 DEF FarApart
<1>b. days # <<>> => to - days[n] >= gap
  OBVIOUS
<1> HIDE DEF more, gap, n
<1>3. CASE l \in 1..n
  <2>1. k \in 1..n /\ days[l] - days[k] >= gap
    BY <1>1, <1>3, <1>a
  <2> QED
    BY <1>1, <1>3, <2>1
<1>4. CASE l = n + 1
  <2>1. k \in 1..n /\ n \in 1..n /\ days # <<>> /\ to - days[n] >= gap
    <3>1. k \in 1..n /\ n \in 1..n
      BY <1>1, <1>4
    <3>2. days # <<>>
      BY <1>1, <3>1
    <3> QED
      BY <1>b, <3>1, <3>2
  <2>2. k = n \/ days[n] - days[k] >= gap
    <3>1. k # n => k < n
      BY <1>1, <2>1
    <3> QED
      BY <1>a, <2>1, <3>1
  <2>3. to - days[k] >= gap
    <3>1. days[k] \in Nat /\ days[n] \in Nat
      BY <1>1, <2>1
    <3>2. ASSUME NEW a \in Nat, NEW b \in Nat, to - b >= gap, a = b \/ b - a >= gap
          PROVE  to - a >= gap
      BY <1>2, <3>2
    <3>3. k = n => days[k] = days[n]
      OBVIOUS
    <3> QED
      BY <2>1, <2>2, <3>1, <3>2, <3>3
  <2> QED
    BY <1>1, <1>4, <2>1, <2>3
<1> QED
  BY <1>1, <1>3, <1>4

LEMMA CommitFacts ==
    ASSUME SyncTypeOK, NEW i \in Import, Commit(i)
    PROVE  /\ mapping'[i.service].settings.from = i.from
           /\ gaps'[i.service] =
                IF i.regular /\ ~HistoryFull(Replaced(i.service, i, i.property), i.to)
                THEN Append(gaps[i.service], i.to) ELSE <<>>
           /\ \A s \in Services \ {i.service} : mapping'[s] = mapping[s] /\ gaps'[s] = gaps[s]
<1> DEFINE s == i.service
<1>1. s \in Services /\ i.settings \in Settings /\ mapping[s] \in Mapping
      /\ DOMAIN mapping = Services /\ DOMAIN gaps = Services
  BY DEF Import, SyncTypeOK
<1>2. PICK settings : settings = [i.settings EXCEPT !.from = i.from]
  OBVIOUS
<1>3. settings.from = i.from
  BY <1>1, <1>2 DEF Settings
<1>4. PICK m : m = [mapping[s] EXCEPT !.error = FALSE, !.synced = clock, !.settings = settings]
  OBVIOUS
<1>5. m.settings = settings
  BY <1>1, <1>4 DEF Mapping
<1>6. mapping' = [mapping EXCEPT ![s] = m]
  BY <1>1, <1>2, <1>4 DEF Commit
<1>7. PICK days : days = IF i.regular /\ ~HistoryFull(Replaced(s, i, i.property), i.to)
                         THEN Append(gaps[s], i.to) ELSE <<>>
  OBVIOUS
<1>8. gaps' = [gaps EXCEPT ![s] = days]
  BY <1>1, <1>7 DEF Commit
<1> QED
  BY <1>1, <1>3, <1>5, <1>6, <1>7, <1>8

\* An import of the whole history leaves no hole.
LEMMA WholeHistory ==
    ASSUME NEW i \in Import, i.from = i.to - HistoryDays + 1
    PROVE  HistoryFull(Replaced(i.service, i, i.property), i.to)
<1>1. i.property # "none" /\ i.to \in Nat
  BY SyncAssumption DEF Import
<1> QED
  BY <1>1 DEF HistoryFull, Replaced

LEMMA CommitGap ==
    ASSUME SyncTypeOK, NEW i \in Import, Commit(i), NEW s \in FromStart, LastGap(s),
           i.settings.from = mapping[i.service].settings.from,
           i.regular /\ i.service \in FromStart => i.from = RegularFrom(i.to, i.settings.from)
    PROVE  LastGap(s)'
<1>1. s \in Services /\ gaps[s] \in Seq(Nat) /\ i.to \in Nat /\ i.settings.from \in Nat
      /\ HistoryDays \in Nat /\ RecentDays \in Nat /\ RecentDays < HistoryDays
  BY SyncAssumption DEF FromStart, Services, SyncTypeOK, Import, Settings
<1>2. CASE s # i.service
  <2>1. mapping'[s] = mapping[s] /\ gaps'[s] = gaps[s]
    BY <1>1, <1>2, CommitFacts
  <2> QED
    BY <2>1 DEF LastGap
<1>3. CASE s = i.service /\ gaps'[s] = <<>>
  BY <1>3 DEF LastGap, FarApart
<1>4. CASE s = i.service /\ gaps'[s] # <<>>
  <2>1. /\ i.regular /\ ~HistoryFull(Replaced(s, i, i.property), i.to)
        /\ gaps'[s] = Append(gaps[s], i.to) /\ mapping'[s].settings.from = i.from
    BY <1>4, CommitFacts
  <2>2. i.from # i.to - HistoryDays + 1
    BY <1>4, <2>1, WholeHistory
  <2>3. /\ i.settings.from # 0 /\ i.settings.from + HistoryDays <= i.to + 1
        /\ i.from = i.to - RecentDays + 1
    <3>1. i.from = RegularFrom(i.to, i.settings.from)
      BY <1>4, <2>1
    <3>2. PICK from, to : from = i.settings.from /\ to = i.to
      OBVIOUS
    <3>3. i.from = to - (IF from = 0 \/ from + HistoryDays > to + 1 THEN HistoryDays ELSE RecentDays) + 1
      BY <3>1, <3>2 DEF RegularFrom
    <3>4. ~(from = 0 \/ from + HistoryDays > to + 1)
      BY <2>2, <3>2, <3>3
    <3>5. from # 0 /\ i.from = to - RecentDays + 1
      BY <3>3, <3>4
    <3>6. from \in Nat /\ to \in Nat
      BY <1>1, <3>2
    <3>7. from + HistoryDays <= to + 1
      BY <1>1, <3>4, <3>6
    <3> QED
      BY <3>2, <3>5, <3>7
  <2>4. gaps[s] # <<>> => i.to - gaps[s][Len(gaps[s])] >= HistoryDays - RecentDays
    <3>1. gaps[s] # <<>> => gaps[s][Len(gaps[s])] \in Nat
      BY <1>1
    <3>2. gaps[s] # <<>> => i.settings.from = gaps[s][Len(gaps[s])] - RecentDays + 1
      BY <1>4 DEF LastGap
    <3>3. ASSUME NEW last \in Nat, i.settings.from = last - RecentDays + 1
          PROVE  i.to - last >= HistoryDays - RecentDays
      BY <1>1, <2>3, <3>3
    <3> QED
      BY <3>1, <3>2, <3>3
  <2>5. FarApart(gaps'[s])
    BY <1>1, <2>1, <2>4, AppendFarApart DEF LastGap
  <2>6. gaps'[s][Len(gaps'[s])] = i.to
    BY <1>1, <2>1
  <2> QED
    BY <2>1, <2>3, <2>5, <2>6 DEF LastGap
<1> QED
  BY <1>3, <1>4, <1>2

LEMMA GapStays ==
    ASSUME UNCHANGED gaps, NEW s, mapping'[s].settings.from = mapping[s].settings.from
    PROVE  LastGap(s) => LastGap(s)'
BY DEF LastGap

\* A worker that syncs is as it was, and so are the first days.
LEMMA HolesStay ==
    ASSUME HolesInv, WorkOK, world' = world, UNCHANGED <<manual, gaps>>,
           \A s \in Services : mapping'[s].settings.from = mapping[s].settings.from,
           \A q \in Queues :
              worker'[q].at = "syncing" /\ Current(q)'.kind \in SyncKinds
              => worker'[q] = worker[q]
    PROVE  HolesInv'
<1> SUFFICES ASSUME "manual" \notin Here.events
             PROVE  /\ \A q \in Queues :
                          worker'[q].at = "syncing" /\ Current(q)'.kind \in SyncKinds
                          => ImportOK(worker[q])'
                    /\ \A s \in FromStart : LastGap(s)'
  BY DEF HolesInv, Here, ImportOK
<1>1. ASSUME NEW q \in Queues, worker'[q].at = "syncing", Current(q)'.kind \in SyncKinds
      PROVE  ImportOK(worker[q])'
  <2>1. PICK w : w = worker[q] /\ w = worker'[q]
    BY <1>1
  <2>2. Current(q)' = Current(q)
    BY <2>1 DEF Current
  <2>3. w.at = "syncing" /\ ImportOK(w)
    BY <1>1, <2>1, <2>2 DEF HolesInv
  <2>4. \A i \in w.import : i.service \in Services
    <3>1. SyncWork(w)
      BY <2>1 DEF WorkOK
    <3> QED
      BY <2>3, <3>1 DEF SyncWork, Import
  <2>5. ImportOK(w)'
    BY <2>3, <2>4 DEF ImportOK
  <2> QED
    BY <2>1, <2>5 DEF ImportOK
<1>2. ASSUME NEW s \in FromStart PROVE LastGap(s)'
  BY GapStays DEF HolesInv, FromStart, Services
<1> QED
  BY <1>1, <1>2

\* The only worker with such a job goes on.
LEMMA HolesMove ==
    ASSUME HolesInv, RqInv, JobsHome, world' = world, UNCHANGED manual,
           NEW q \in Queues, worker[q].at # "idle", Current(q).kind \in SyncKinds,
           NEW w, worker' = [worker EXCEPT ![q] = w],
           "manual" \notin Here.events =>
              /\ w.at = "syncing" => ImportOK(w)'
              /\ \A s \in FromStart : LastGap(s)'
    PROVE  HolesInv'
<1>1. /\ worker'[q] = w
      /\ \A x \in Queues \ {q} : worker'[x] = worker[x] /\ Current(x)' = Current(x)
  BY DEF RqInv, Current
<1>2. q = INTEGRATIONS
  BY WorkerHome, Homes DEF Home, SyncKinds
<1>3. ASSUME NEW x \in Queues \ {q}, worker'[x].at = "syncing", Current(x)'.kind \in SyncKinds
      PROVE  FALSE
  <2>1. worker[x].at # "idle" /\ Current(x).kind \in SyncKinds
    BY <1>1, <1>3
  <2> QED
    BY <1>2, <2>1, WorkerHome, Homes DEF Home, SyncKinds
<1>4. ImportOK(w)' => ImportOK(worker[q])'
  BY <1>1 DEF ImportOK
<1> QED
  BY <1>1, <1>3, <1>4 DEF HolesInv, Here

\* Requests do not touch the job.
LEMMA HolesRequests ==
    ASSUME TypeInv, HolesInv,
           \/ \E s \in Services : \E p \in Properties : Upsert(s, p)
           \/ ChooseKeyEvents
           \/ \E provider \in {"google", "bing", "matomo"} : Connect(provider)
           \/ ScheduleSync \/ AskHistory
           \/ \E s \in Services : ManualRead(s)
           \/ \E i \in manual : ManualEnd(i)
    PROVE  HolesInv'
<1>0. SyncTypeOK /\ WorkOK
  BY DEF TypeInv, SyncOK
<1>1. CASE (\E s \in Services : ManualRead(s)) \/ \E i \in manual : ManualEnd(i)
  <2>1. UNCHANGED systemVars
    BY <1>1 DEF ManualRead, ManualEnd
  <2>2. "manual" \in Here.events
    BY <1>1 DEF ManualRead, ManualEnd, HolesInv
  <2> QED
    BY <2>1, <2>2 DEF HolesInv, Here, systemVars
<1>2. CASE \/ \E s \in Services : \E p \in Properties : Upsert(s, p)
           \/ ChooseKeyEvents
           \/ \E provider \in {"google", "bing", "matomo"} : Connect(provider)
           \/ ScheduleSync \/ AskHistory
  <2>1. UNCHANGED <<manual, gaps, worker>> /\ world' = world
    BY <1>2
       DEF Upsert, ChooseKeyEvents, Connect, ScheduleSync, AskHistory, OnlyMapping, Enqueue,
           rqVars, systemVars
  <2>2. \A s \in Services : mapping[s] \in Mapping /\ mapping[s].settings \in Settings
    BY <1>0 DEF SyncTypeOK, Mapping
  <2>3. ASSUME NEW s \in Services, NEW p \in Properties, Upsert(s, p)
        PROVE  \A x \in Services : mapping'[x].settings.from = mapping[x].settings.from
    <3>1. PICK m : m = [[mapping[s] EXCEPT !.property = p] EXCEPT !.error = FALSE]
      OBVIOUS
    <3>2. m.settings = mapping[s].settings
      BY <2>2, <3>1 DEF Mapping
    <3>3. mapping' = [mapping EXCEPT ![s] = m]
      BY <1>0, <2>3, <3>1 DEF Upsert, SyncTypeOK
    <3> QED
      BY <1>0, <3>2, <3>3 DEF SyncTypeOK
  <2>4. ASSUME ChooseKeyEvents
        PROVE  \A x \in Services : mapping'[x].settings.from = mapping[x].settings.from
    <3>1. PICK settings : settings = [mapping["ga4"].settings EXCEPT !.events = TRUE]
      OBVIOUS
    <3>2. "ga4" \in Services /\ settings.from = mapping["ga4"].settings.from
      BY <2>2, <3>1 DEF Services, Settings
    <3>3. PICK m : m = [mapping["ga4"] EXCEPT !.settings = settings]
      OBVIOUS
    <3>4. m.settings = settings
      BY <2>2, <3>2, <3>3 DEF Mapping
    <3>5. mapping' = [mapping EXCEPT !["ga4"] = m]
      BY <1>0, <2>4, <3>1, <3>2, <3>3 DEF ChooseKeyEvents, SyncTypeOK
    <3> QED
      BY <1>0, <3>2, <3>4, <3>5 DEF SyncTypeOK
  <2>5. CASE ScheduleSync \/ AskHistory
    <3>a. PICK field \in {"history", "queued"} : \E value : mapping' = WithSetting(field, value)
      BY <2>5 DEF ScheduleSync, AskHistory
    <3>1. PICK value : mapping' = WithSetting(field, value)
      BY <3>a
    <3> QED
      BY <1>0, <2>1, <3>1, WithSettingKeeps, HolesStay
  <2>6. CASE \E provider \in {"google", "bing", "matomo"} : Connect(provider)
    BY <1>0, <2>1, <2>6, HolesStay DEF Connect
  <2> QED
    BY <1>0, <1>2, <2>1, <2>3, <2>4, <2>5, <2>6, HolesStay
<1> QED
  BY <1>1, <1>2

\* A job that begins, or that stops at a service, has read nothing.
LEMMA NothingRead ==
    ASSUME NEW w, w.ranges = <<>>, w.import = {}
    PROVE  ImportOK(w)'
BY DEF ImportOK

LEMMA HolesJob ==
    ASSUME PromiseInv, HolesInv, NEW q \in Queues, worker[q].at # "idle",
           Current(q).kind \in SyncKinds,
           \/ worker[q].at = "begin" /\ SyncBegin(q)
           \/ /\ worker[q].at = "syncing"
              /\ SyncRead(q) \/ SyncRefused(q) \/ SyncStored(q) \/ SyncFailed(q) \/ SyncEnd(q)
           \/ worker[q].at = "inspecting" /\ SyncInspect(q)
    PROVE  HolesInv'
<1>0. SyncTypeOK /\ WorkOK /\ RqInv /\ JobsHome /\ clock \in Nat
  BY DEF PromiseInv, TypeInv, SyncOK, EvidenceInv, RqTypeOK
<1>1. world' = world /\ UNCHANGED manual
  BY DEF SyncBegin, SyncRead, SyncRefused, SyncStored, SyncFailed, SyncEnd, SyncInspect,
         OnlyMapping, syncVars, systemVars
<1>2. "manual" \notin Here.events => \A s \in FromStart : LastGap(s)
  BY DEF HolesInv
<1>3. ASSUME UNCHANGED gaps,
             \A s \in Services : mapping'[s].settings.from = mapping[s].settings.from
      PROVE  "manual" \notin Here.events => \A s \in FromStart : LastGap(s)'
  BY <1>2, <1>3, GapStays DEF FromStart, Services
<1>4. CASE worker[q].at = "begin" /\ SyncBegin(q)
  <2>1. PICK w : w = [job |-> Busy(q).job, at |-> "syncing", todo |-> Mapped, ranges |-> <<>>,
                      import |-> {}, failed |-> FALSE]
    OBVIOUS
  <2>2. worker' = [worker EXCEPT ![q] = w] /\ w.ranges = <<>> /\ w.import = {} /\ UNCHANGED gaps
    BY <1>4, <2>1 DEF SyncBegin, Goes, OnlyMapping
  <2>3. \A s \in Services : mapping'[s].settings.from = mapping[s].settings.from
    BY <1>0, <1>4, WithSettingKeeps DEF SyncBegin, ShowHistory
  <2> QED
    BY <1>0, <1>1, <1>3, <2>2, <2>3, NothingRead, HolesMove
<1>5. CASE worker[q].at = "inspecting" /\ SyncInspect(q)
  <2>1. PICK w0 : w0 = [Busy(q) EXCEPT !.at = "syncing"]
    OBVIOUS
  <2>2. {"todo", "ranges", "import", "failed"} \subseteq DOMAIN w0
    BY <1>0, <1>5, <2>1 DEF Busy, WorkOK, SyncWork
  <2>3. PICK w : (w = Ready(w0) \/ w = Failed(w0)) /\ Goes(q, w)
    BY <1>5, <2>1 DEF SyncInspect
  <2>4. w.ranges = <<>> /\ w.import = {}
    BY <2>2, <2>3 DEF Ready, Failed
  <2>5. worker' = [worker EXCEPT ![q] = w] /\ UNCHANGED <<gaps, mapping>>
    BY <1>5, <2>3 DEF SyncInspect, Goes, syncVars
  <2> QED
    BY <1>0, <1>1, <1>3, <2>4, <2>5, NothingRead, HolesMove
<1>6. CASE worker[q].at = "syncing" /\ SyncEnd(q)
  <2>1. PICK w : worker' = [worker EXCEPT ![q] = w] /\ w.at # "syncing"
    <3>1. CASE JobFails(q)
      <4>1. worker' = [worker EXCEPT ![q] = Idle] /\ Idle.at # "syncing"
        BY <3>1 DEF JobFails, Idle
      <4> QED
        BY <4>1
    <3>2. CASE GoesTo(q, "done")
      <4>1. PICK w : w = [worker[q] EXCEPT !.at = "done"]
        OBVIOUS
      <4>2. w.at = "done"
        BY <1>0, <4>1 DEF RqInv, WorkerShape
      <4> QED
        BY <3>2, <4>1, <4>2 DEF GoesTo, Goes
    <3> QED
      BY <1>6, <3>1, <3>2 DEF SyncEnd
  <2>2. \A s \in Services : mapping'[s].settings.from = mapping[s].settings.from
    BY <1>0, <1>6, WithSettingKeeps DEF SyncEnd, ShowHistory
  <2>3. UNCHANGED gaps
    BY <1>6 DEF SyncEnd, OnlyMapping
  <2> QED
    BY <1>0, <1>1, <1>3, <2>1, <2>2, <2>3, HolesMove
<1>7. CASE worker[q].at = "syncing"
           /\ (SyncRead(q) \/ SyncRefused(q) \/ SyncStored(q) \/ SyncFailed(q))
  <2> DEFINE w1 == Busy(q)
  <2>1. /\ {"todo", "ranges", "import", "failed", "at", "job"} = DOMAIN w1
        /\ w1.at = "syncing" /\ w1.import \subseteq Import /\ w1.ranges \in Seq(RangeOK)
        /\ w1.todo \subseteq Services
        /\ w1.import # {} => w1.ranges # <<>>
    BY <1>0, <1>7 DEF Busy, WorkOK, SyncWork
  <2>2. "manual" \notin Here.events => ImportOK(w1)
    BY <1>7 DEF HolesInv, Busy
  <2>3. Failed(w1).ranges = <<>> /\ Failed(w1).import = {}
    BY <2>1 DEF Failed
  <2>4. IsRegular(w1) <=> Current(q).kind = "sync"
    BY <1>0, CurrentFacts DEF Busy, IsRegular
  <2>5. CASE SyncRefused(q)
    <3>1. PICK w : w = Failed(w1)
      OBVIOUS
    <3>2. worker' = [worker EXCEPT ![q] = w] /\ UNCHANGED <<gaps, mapping>>
      BY <2>5, <3>1 DEF SyncRefused, Goes
    <3> QED
      BY <1>0, <1>1, <1>3, <2>3, <3>1, <3>2, NothingRead, HolesMove
  <2>6. CASE SyncFailed(q)
    <3>1. PICK w : w = Failed(w1)
      OBVIOUS
    <3>2. worker' = [worker EXCEPT ![q] = w] /\ UNCHANGED gaps
      BY <2>6, <3>1 DEF SyncFailed, Goes, NotDelivered, NotStored
    <3>3. PICK i \in w1.import : NotDelivered(i) \/ NotStored
      BY <2>6 DEF SyncFailed
    <3>4. "manual" \notin Here.events =>
            \A s \in Services : mapping'[s].settings.from = mapping[s].settings.from
      <4> SUFFICES ASSUME "manual" \notin Here.events, NotDelivered(i)
                   PROVE  \A s \in Services : mapping'[s].settings.from = mapping[s].settings.from
        BY <3>3 DEF NotStored
      <4>1. i.service \in Services /\ i.settings.from = mapping[i.service].settings.from
        BY <2>1, <2>2 DEF ImportOK, Import
      <4>2. PICK m : m = [mapping[i.service] EXCEPT !.error = TRUE, !.settings = i.settings]
        OBVIOUS
      <4>3. m.settings = i.settings
        BY <1>0, <4>1, <4>2 DEF SyncTypeOK, Mapping
      <4>4. mapping' = [mapping EXCEPT ![i.service] = m]
        BY <1>0, <4>1, <4>2 DEF NotDelivered, SyncTypeOK
      <4> QED
        BY <1>0, <4>1, <4>3, <4>4 DEF SyncTypeOK
    <3> QED
      BY <1>0, <1>1, <1>3, <2>3, <3>1, <3>2, <3>4, NothingRead, HolesMove
  <2>7. CASE SyncStored(q)
    <3>1. PICK i \in w1.import : Commit(i)
      BY <2>7 DEF SyncStored
    <3>2. PICK w : /\ worker' = [worker EXCEPT ![q] = w]
                   /\ w = IF Len(w1.ranges) > 1
                          THEN [w1 EXCEPT !.ranges = Tail(@), !.import = {}]
                          ELSE IF NextOf(w1.todo) = "search_console" THEN [w1 EXCEPT !.at = "inspecting"]
                          ELSE Ready(w1)
      BY <2>7 DEF SyncStored, Goes
    <3>3. "manual" \notin Here.events /\ w.at = "syncing" => ImportOK(w)'
      <4> SUFFICES ASSUME "manual" \notin Here.events, w.at = "syncing" PROVE ImportOK(w)'
        OBVIOUS
      <4>1. CASE Len(w1.ranges) > 1
        <5>1. w.job = w1.job /\ w.import = {}
          BY <2>1, <3>2, <4>1
        <5>2. ~IsRegular(w1)
          BY <2>1, <2>2, <4>1 DEF ImportOK
        <5> QED
          BY <5>1, <5>2 DEF ImportOK, IsRegular
      <4>2. CASE Len(w1.ranges) <= 1
        <5>1. w = Ready(w1)
          <6>1. [w1 EXCEPT !.at = "inspecting"].at = "inspecting"
            BY <2>1
          <6>2. ~(Len(w1.ranges) > 1)
            BY <2>1, <4>2
          <6> QED
            BY <3>2, <6>1, <6>2
        <5>2. w.ranges = <<>> /\ w.import = {}
          BY <2>1, <5>1 DEF Ready
        <5> QED
          BY <5>2, NothingRead
      <4> QED
        BY <2>1, <4>1, <4>2
    <3>4. "manual" \notin Here.events => \A s \in FromStart : LastGap(s)'
      BY <1>0, <1>2, <2>1, <2>2, <3>1, CommitGap DEF ImportOK
    <3> QED
      BY <1>0, <1>1, <3>2, <3>3, <3>4, HolesMove
  <2>8. CASE SyncRead(q)
    <3>1. PICK s : s = NextOf(w1.todo)
      OBVIOUS
    <3>2. s \in Services /\ w1.import = {}
      BY <2>1, <2>8, <3>1, NextOfTodo DEF SyncRead
    <3>3. PICK ranges : ranges = IF w1.ranges = <<>> THEN Ranges(s, Current(q).kind) ELSE w1.ranges
      OBVIOUS
    <3>4. PICK i : i = ReadFor(s, Head(ranges).from, Head(ranges).to, Current(q).kind = "sync")
      OBVIOUS
    <3>5. PICK w : w = [w1 EXCEPT !.ranges = ranges, !.import = {i}]
      OBVIOUS
    <3>6. worker' = [worker EXCEPT ![q] = w] /\ UNCHANGED <<gaps, mapping>> /\ Readable(s)
      BY <2>8, <3>1, <3>3, <3>4, <3>5 DEF SyncRead, Goes, syncVars
    <3>7. w.job = w1.job /\ w.ranges = ranges /\ w.import = {i}
      BY <2>1, <3>5
    <3>8. /\ i.service = s /\ i.settings = mapping[s].settings
          /\ i.regular = (Current(q).kind = "sync")
          /\ i.from = Head(ranges).from /\ i.to = Head(ranges).to
      BY <3>4 DEF ReadFor
    <3>9. ASSUME "manual" \notin Here.events, IsRegular(w1)
          PROVE  Len(ranges) <= 1 /\ (s \in FromStart => i.from = RegularFrom(i.to, i.settings.from))
      <4>1. w1.ranges = <<>> /\ Current(q).kind = "sync"
        BY <2>2, <2>4, <3>2, <3>9 DEF ImportOK
      <4>2. clock > HistoryDays
        BY <3>6 DEF Readable, PromiseInv, TypeInv, SyncOK
      <4>3. PICK r : /\ r = [from |-> LastDay(s) - RegularDays(s, mapping[s].settings.from) + 1,
                             to |-> LastDay(s)]
                     /\ ranges = <<r>>
        BY <1>0, <3>2, <3>3, <4>1, <4>2, RangesTyped
      <4>4. /\ Len(ranges) = 1 /\ i.to = LastDay(s)
            /\ i.from = LastDay(s) - RegularDays(s, mapping[s].settings.from) + 1
        BY <3>8, <4>3
      <4>5. s \in FromStart =>
               /\ LastDay(s) = clock - 1
               /\ RegularDays(s, mapping[s].settings.from) = DaysFromStart(mapping[s].settings.from)
        BY DEF FromStart, LastDay, RegularDays
      <4>6. s \in FromStart => i.to + 1 = clock
        BY <1>0, <4>4, <4>5
      <4> QED
        BY <3>8, <4>4, <4>5, <4>6 DEF RegularFrom, DaysFromStart
    <3>10. "manual" \notin Here.events => ImportOK(w)'
      <4>1. IsRegular(w) <=> IsRegular(w1)
        BY <3>7 DEF IsRegular
      <4>2. i.regular = IsRegular(w1)
        BY <2>4, <3>8 DEF IsRegular
      <4>3. i.regular = IsRegular(w)
        BY <4>2, <3>7 DEF IsRegular
      <4> QED
        BY <3>6, <3>7, <3>8, <3>9, <4>1, <4>2, <4>3 DEF ImportOK
    <3> QED
      BY <1>0, <1>1, <1>3, <3>6, <3>10, HolesMove
  <2> QED
    BY <1>7, <2>5, <2>6, <2>7, <2>8
<1> QED
  BY <1>4, <1>5, <1>6, <1>7

LEMMA HolesInitInv == Init => HolesInv
<1> SUFFICES ASSUME Init PROVE HolesInv
  OBVIOUS
<1>1. manual = {} /\ \A s \in FromStart : gaps[s] = <<>>
  BY DEF Init, SyncInit, FromStart, Services
<1>2. \A q \in Queues : worker[q].at = "idle"
  BY DEF Init, RqInit, Idle
<1> QED
  BY <1>1, <1>2 DEF HolesInv, LastGap, FarApart

LEMMA HolesNextInv ==
    ASSUME PromiseInv, HolesInv, [Next]_vars
    PROVE  HolesInv'
<1>0. RqInv /\ WorkOK /\ EvidenceInv /\ RenderTypeOK /\ ExportTypeOK /\ world' = world
  BY StepAdvance DEF PromiseInv, TypeInv, EvidenceInv
<1>1. CASE SyncNext
  <2>1. ASSUME NEW at \in {"begin", "syncing", "inspecting"}, NEW q \in WorkersIn(SyncKinds, at)
        PROVE  /\ q \in Queues /\ worker[q].at = at /\ worker[q].at # "idle"
               /\ Current(q).kind \in SyncKinds
    BY <1>0, WorkersInFacts DEF SyncKinds
  <2> QED
    BY <1>1, <2>1, HolesRequests, HolesJob DEF SyncNext, PromiseInv, SyncKinds
<1>2. ASSUME UNCHANGED syncVars,
             \A q \in Queues :
                worker'[q].at = "syncing" /\ Current(q)'.kind \in SyncKinds
                => worker'[q] = worker[q]
      PROVE  HolesInv'
  BY <1>0, <1>2, HolesStay DEF syncVars
<1>3. CASE RqNext /\ UNCHANGED syncVars
  BY <1>0, <1>2, <1>3, RqLeaves DEF Idle
<1>4. ASSUME NEW kinds, ActsOn(kinds), kinds \intersect SyncKinds = {}, UNCHANGED syncVars
      PROVE  HolesInv'
  BY <1>0, <1>2, <1>4, ActsLeaves DEF Idle
<1>5. CASE EvidenceNext /\ UNCHANGED syncVars
  BY <1>0, <1>4, <1>5, EvidenceActs DEF SyncKinds
<1>6. CASE RenderNext /\ UNCHANGED syncVars
  BY <1>0, <1>4, <1>6, RenderActs DEF SyncKinds
<1>7. CASE ExportNext /\ UNCHANGED syncVars
  <2>1. ASSUME NEW j \in dead[EXPORTS], RequeueExport(j) PROVE UNCHANGED worker
    BY <2>1 DEF RequeueExport
  <2> QED
    BY <1>0, <1>2, <1>4, <1>7, <2>1, ExportActs DEF SyncKinds
<1>8. CASE (OnboardingNext \/ UNCHANGED vars) /\ UNCHANGED syncVars
  BY <1>2, <1>8 DEF OnboardingNext, vars, rqVars
<1> QED
  BY <1>1, <1>3, <1>5, <1>6, <1>7, <1>8 DEF Next, vars

\* Search Console and Analytics come back to a whole history: the holes that regular
\* imports leave in a row are an outage apart.
THEOREM HolesAreClosed == Spec => []HolesClose
<1>1. Init => PromiseInv /\ HolesInv
  BY PromiseInitInv, HolesInitInv
<1>2. PromiseInv /\ HolesInv /\ [Next]_vars => (PromiseInv /\ HolesInv)'
  BY PromiseNextInv, HolesNextInv
<1>3. HolesInv => HolesClose
  BY DEF HolesInv, HolesClose, LastGap, FarApart, FromStart
<1> QED
  BY <1>1, <1>2, <1>3, PTL DEF Spec
=============================================================================
