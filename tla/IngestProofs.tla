----------------------------- MODULE IngestProofs -----------------------------
(***************************************************************************)
(* Ingest, alerts and the classifier's stream for any number of messages,  *)
(* children, parents, pages, sockets and analyses.  IngestInv says who     *)
(* holds the lock, whose verdict a call gets, what the cache holds, and    *)
(* what alerts rest on.  From it, IngestFine says what is judged and what  *)
(* the dashboards are told.  The last parts are about the conversation     *)
(* beside an alert, as any messages and any model's answers make it.       *)
(***************************************************************************)
EXTENDS Ingest, SubsequencesProofs

-----------------------------------------------------------------------------
(* The inductive invariant. *)

Active == {"queued", "waiting", "lost", "set"}
FutureState == Active \cup {"none", "returned", "failed"}

\* Of every request that is asked, one has the lock, and the others wait for
\* it; each is what its task has judged now.
Held(queue, futures, waiting, work) ==
  /\ queue \in Seq(Request)
  /\ \A i, j \in 1..Len(queue) : queue[i] = queue[j] => i = j
  /\ futures \in [Request -> FutureState]
  /\ \A r \in Request : futures[r] \in Active => \E i \in 1..Len(queue) : queue[i] = r
  /\ \A i \in 2..Len(queue) : futures[queue[i]] = "queued"
  /\ waiting = {r \in Request : futures[r] = "waiting"}
  /\ \A i \in 1..Len(queue) :
       /\ work[queue[i].task].pc = "judging"
       /\ queue[i] = Asked(queue[i].task, work[queue[i].task].current)

NoneOf(t, queue) == \A i \in 1..Len(queue) : queue[i].task # t

IsPair(j) == j.child \in DOMAIN ParentOf /\ j.target \in User
StateGood(s) ==
  /\ {"pc", "todo", "current"} \subseteq DOMAIN s
  /\ \A j \in s.todo : IsPair(j)
  /\ s.pc \in {"judging", "connecting"} => IsPair(s.current)

\* A task that has begun is that of a stored message.
TasksGood(work, count) ==
  /\ work = [t \in Task |-> work[t]]
  /\ \A t \in Task : StateGood(work[t]) /\ (work[t].pc # "none" => t <= count)

\* The messages are typed, and so is what bounds the behaviour.
StoreGood ==
  /\ messages \in Seq(Stored)
  /\ children \in Seq(DOMAIN ParentOf)
  /\ writing.users \subseteq User /\ writing.minutes \subseteq Nat

\* The cached collection, as CacheHoldsStore says, of so many messages.
Holds(collection, count) ==
  /\ collection \in Seq(1..count)
  /\ \A n \in 1..count : \E i \in 1..Len(collection) : collection[i] = n
  /\ Len(collection) <= count + 1
  /\ \A i \in 2..Len(collection) : collection[i - 1] <= collection[i]

CacheGood == \A collection \in cache : Holds(collection, Len(messages))

\* What was answered is a verdict on what was asked.
AnswersGood ==
  /\ \A x \in results : x.to = x.of /\ [of |-> x.of, flagged |-> x.flagged] \in verdicts
  /\ \A r \in Request : future[r] \in {"set", "returned"} => \E x \in results : x.to = r

Entries(s) == {s[i] : i \in DOMAIN s}
IsAlert(a) ==
  {"child", "target", "by", "acknowledged", "stages"} \subseteq DOMAIN a
AlertsGood ==
  /\ alerts \in Seq(Entries(alerts))
  /\ \A i \in DOMAIN alerts : IsAlert(alerts[i])
  /\ AlertWasFlagged

IngestInv ==
  /\ Held(lock, future, pending, tasks)
  /\ TasksGood(tasks, Len(messages))
  /\ StoreGood
  /\ CacheGood
  /\ AnswersGood
  /\ AlertsGood

-----------------------------------------------------------------------------
LEMMA InitInv == Init => IngestInv
<1>. SUFFICES ASSUME Init PROVE IngestInv
  OBVIOUS
<1>. USE DEF Init, StoreInit, StreamInit
<1>1. Held(lock, future, pending, tasks)
  BY DEF Held, FutureState, Active
<1>2. TasksGood(tasks, Len(messages))
  BY DEF TasksGood, StateGood, Idle
<1>3. StoreGood
  BY IngestAssumption DEF StoreGood
<1>4. CacheGood /\ AnswersGood
  BY DEF CacheGood, AnswersGood
<1>5. AlertsGood
  BY DEF AlertsGood, AlertWasFlagged
<1>. QED
  BY <1>1, <1>2, <1>3, <1>4, <1>5 DEF IngestInv

-----------------------------------------------------------------------------
(* The lock. *)

LEMMA AskedIsRequest ==
  ASSUME NEW t \in Task, NEW j, IsPair(j)
  PROVE  Asked(t, j) \in Request /\ Asked(t, j).task = t
  BY IngestAssumption DEF Asked, IsPair

LEMMA TaskOf == ASSUME NEW r \in Request PROVE r.task \in Task
  BY IngestAssumption

LEMMA HeldTask ==
  ASSUME NEW queue, NEW futures, NEW waiting, NEW work, Held(queue, futures, waiting, work),
         NEW i \in 1..Len(queue)
  PROVE  queue[i] \in Request /\ queue[i].task \in Task
<1>1. queue[i] \in Request
  BY DEF Held
<1>. QED
  BY <1>1, TaskOf

\* A call that waits for its answer, or has ended without the lock's holder
\* knowing, has the lock.
LEMMA HasLock ==
  ASSUME NEW queue, NEW futures, NEW waiting, NEW work, Held(queue, futures, waiting, work),
         NEW r \in Request, futures[r] \in {"waiting", "lost", "set"}
  PROVE  queue # <<>> /\ Head(queue) = r
<1>1. PICK i \in 1..Len(queue) : queue[i] = r
  BY DEF Held, Active
<1>2. i = 1
  BY <1>1 DEF Held
<1>. QED
  BY <1>1, <1>2 DEF Held

\* What becomes of a task that asks nothing does not matter.
LEMMA OtherTask ==
  ASSUME NEW queue, NEW futures, NEW waiting, NEW work, Held(queue, futures, waiting, work),
         NEW t \in Task, NoneOf(t, queue),
         NEW then, \A u \in Task : u # t => then[u] = work[u]
  PROVE  Held(queue, futures, waiting, then)
<1>1. ASSUME NEW i \in 1..Len(queue)
      PROVE  /\ then[queue[i].task].pc = "judging"
             /\ queue[i] = Asked(queue[i].task, then[queue[i].task].current)
  <2>1. queue[i].task \in Task /\ queue[i].task # t
    BY HeldTask DEF NoneOf
  <2>. QED
    BY <2>1 DEF Held
<1>. QED
  BY <1>1 DEF Held

LEMMA ReleaseKeeps ==
  ASSUME NEW queue, NEW futures, NEW waiting, NEW work, Held(queue, futures, waiting, work),
         NEW r \in Request, queue # <<>>, Head(queue) = r,
         NEW how \in {"returned", "failed"}
  PROVE  /\ Held(Tail(queue), [futures EXCEPT ![r] = how], waiting \ {r}, work)
         /\ NoneOf(r.task, Tail(queue))
<1>. DEFINE q == Tail(queue)
            f == [futures EXCEPT ![r] = how]
<1>1. /\ q \in Seq(Request) /\ Len(q) = Len(queue) - 1 /\ Len(q) \in Nat
      /\ \A i \in 1..Len(q) : q[i] = queue[i + 1]
      /\ queue[1] = r /\ Len(queue) \in Nat \ {0}
  BY DEF Held
<1>2. \A i \in 1..Len(q) : q[i] # r
  BY <1>1 DEF Held
<1>3. f \in [Request -> FutureState] /\ f[r] = how /\ \A s \in Request \ {r} : f[s] = futures[s]
  BY DEF Held, FutureState
<1>. HIDE DEF q, f
<1>4. \A i, j \in 1..Len(q) : q[i] = q[j] => i = j
  <2>. SUFFICES ASSUME NEW i \in 1..Len(q), NEW j \in 1..Len(q), q[i] = q[j] PROVE i = j
    OBVIOUS
  <2>1. queue[i + 1] = queue[j + 1] /\ i + 1 \in 1..Len(queue) /\ j + 1 \in 1..Len(queue)
    BY <1>1
  <2>2. i + 1 = j + 1
    BY <2>1 DEF Held
  <2>. QED
    BY <2>2
<1>5. ASSUME NEW s \in Request, f[s] \in Active PROVE \E i \in 1..Len(q) : q[i] = s
  <2>1. s # r
    BY <1>3, <1>5 DEF Active
  <2>2. PICK i \in 1..Len(queue) : queue[i] = s
    BY <1>3, <1>5, <2>1 DEF Held
  <2>3. i # 1
    BY <1>1, <2>1, <2>2
  <2>4. i - 1 \in 1..Len(q) /\ q[i - 1] = s
    BY <1>1, <2>2, <2>3
  <2>. QED
    BY <2>4
<1>6. ASSUME NEW i \in 2..Len(q) PROVE f[q[i]] = "queued"
  <2>1. i \in 1..Len(q) /\ i + 1 \in 2..Len(queue)
    BY <1>1
  <2>2. q[i] = queue[i + 1] /\ q[i] \in Request /\ q[i] # r
    BY <1>1, <1>2, <2>1
  <2>. QED
    BY <2>1, <2>2, <1>3 DEF Held
<1>7. waiting \ {r} = {s \in Request : f[s] = "waiting"}
  BY <1>3 DEF Held
<1>8. ASSUME NEW i \in 1..Len(q)
      PROVE  /\ work[q[i].task].pc = "judging"
             /\ q[i] = Asked(q[i].task, work[q[i].task].current)
             /\ q[i].task # r.task
  <2>1. i + 1 \in 1..Len(queue) /\ q[i] = queue[i + 1]
    BY <1>1
  <2>2. /\ work[q[i].task].pc = "judging"
        /\ q[i] = Asked(q[i].task, work[q[i].task].current)
    BY <2>1 DEF Held
  <2>3. r = Asked(r.task, work[r.task].current)
    <3>1. 1 \in 1..Len(queue)
      BY <1>1
    <3>. QED
      BY <1>1, <3>1 DEF Held
  <2>. QED
    BY <1>2, <2>2, <2>3
<1>. QED
  BY <1>1, <1>3, <1>4, <1>5, <1>6, <1>7, <1>8 DEF Held, NoneOf, q, f

\* A task that asks joins the queue at its end.
LEMMA AskKeeps ==
  ASSUME NEW queue, NEW futures, NEW waiting, NEW work, Held(queue, futures, waiting, work),
         NEW r \in Request, NoneOf(r.task, queue),
         work[r.task].pc = "judging", r = Asked(r.task, work[r.task].current),
         NEW q, NEW f, NEW w,
         \/ /\ queue = <<>> /\ q = <<r>>
            /\ f = [futures EXCEPT ![r] = "waiting"] /\ w = waiting \cup {r}
         \/ /\ queue # <<>> /\ q = Append(queue, r)
            /\ f = [futures EXCEPT ![r] = "queued"] /\ w = waiting
  PROVE  Held(q, f, w, work)
<1>1. queue \in Seq(Request) /\ Len(queue) \in Nat /\ \A i \in 1..Len(queue) : queue[i] # r
  BY DEF Held, NoneOf
<1>2. futures \in [Request -> FutureState] /\ futures[r] \notin Active
  BY <1>1 DEF Held
<1>3. /\ q \in Seq(Request) /\ Len(q) = Len(queue) + 1 /\ q[Len(q)] = r
      /\ \A i \in 1..Len(queue) : q[i] = queue[i]
  <2>1. CASE queue = <<>> /\ q = <<r>>
    BY <2>1
  <2>2. CASE q = Append(queue, r)
    BY <1>1, <2>2
  <2>. QED
    BY <2>1, <2>2
<1>4. /\ f \in [Request -> FutureState] /\ \A s \in Request \ {r} : f[s] = futures[s]
      /\ f[r] \in Active /\ (f[r] = "waiting" <=> queue = <<>>) /\ f[r] \in {"waiting", "queued"}
  BY <1>2 DEF FutureState, Active
<1>5. w = {s \in Request : f[s] = "waiting"}
  BY <1>2, <1>4 DEF Held, Active
<1>6. \A i, k \in 1..Len(q) : q[i] = q[k] => i = k
  <2>. SUFFICES ASSUME NEW i \in 1..Len(q), NEW k \in 1..Len(q), q[i] = q[k] PROVE i = k
    OBVIOUS
  <2>1. CASE i \in 1..Len(queue) /\ k \in 1..Len(queue)
    BY <1>3, <2>1 DEF Held
  <2>2. CASE ~(i \in 1..Len(queue) /\ k \in 1..Len(queue))
    BY <1>1, <1>3, <2>2
  <2>. QED
    BY <2>1, <2>2
<1>7. ASSUME NEW s \in Request, f[s] \in Active PROVE \E i \in 1..Len(q) : q[i] = s
  <2>1. CASE s = r
    BY <1>1, <1>3, <2>1
  <2>2. CASE s # r
    <3>1. PICK i \in 1..Len(queue) : queue[i] = s
      BY <1>4, <1>7, <2>2 DEF Held
    <3>. QED
      BY <1>1, <1>3, <3>1
  <2>. QED
    BY <2>1, <2>2
<1>8. ASSUME NEW i \in 2..Len(q) PROVE f[q[i]] = "queued"
  <2>1. CASE i = Len(q)
    <3>1. queue # <<>>
      BY <1>1, <1>3, <2>1
    <3>. QED
      BY <1>3, <1>4, <2>1, <3>1
  <2>2. CASE i # Len(q)
    <3>1. i \in 2..Len(queue) /\ i \in 1..Len(queue)
      BY <1>1, <1>3, <2>2
    <3>2. q[i] = queue[i] /\ q[i] \in Request /\ q[i] # r
      BY <1>1, <1>3, <3>1
    <3>. QED
      BY <1>4, <3>1, <3>2 DEF Held
  <2>. QED
    BY <2>1, <2>2
<1>9. ASSUME NEW i \in 1..Len(q)
      PROVE  /\ work[q[i].task].pc = "judging"
             /\ q[i] = Asked(q[i].task, work[q[i].task].current)
  <2>1. CASE i = Len(q)
    BY <1>3, <2>1
  <2>2. CASE i # Len(q)
    <3>1. i \in 1..Len(queue)
      BY <1>1, <1>3, <2>2
    <3>. QED
      BY <1>3, <3>1 DEF Held
  <2>. QED
    BY <2>1, <2>2
<1>. QED
  BY <1>3, <1>4, <1>5, <1>6, <1>7, <1>8, <1>9 DEF Held

\* A request whose turn has come waits for its answer.
LEMMA TurnKeeps ==
  ASSUME NEW queue, NEW futures, NEW waiting, NEW work, Held(queue, futures, waiting, work),
         NEW r \in Request, queue # <<>>, Head(queue) = r
  PROVE  Held(queue, [futures EXCEPT ![r] = "waiting"], waiting \cup {r}, work)
<1>. DEFINE f == [futures EXCEPT ![r] = "waiting"]
<1>1. queue[1] = r /\ queue \in Seq(Request) /\ Len(queue) \in Nat \ {0}
  BY DEF Held
<1>2. /\ f \in [Request -> FutureState] /\ \A s \in Request \ {r} : f[s] = futures[s]
      /\ f[r] = "waiting"
  BY DEF Held, FutureState, Active
<1>. HIDE DEF f
<1>3. waiting \cup {r} = {s \in Request : f[s] = "waiting"}
  BY <1>2 DEF Held
<1>4. ASSUME NEW i \in 2..Len(queue) PROVE f[queue[i]] = "queued"
  <2>1. i \in 1..Len(queue) /\ 1 \in 1..Len(queue) /\ i # 1
    BY <1>1
  <2>2. queue[i] \in Request /\ queue[i] # r
    BY <1>1, <2>1 DEF Held
  <2>. QED
    BY <1>2, <2>2 DEF Held
<1>5. ASSUME NEW s \in Request, f[s] \in Active PROVE \E i \in 1..Len(queue) : queue[i] = s
  BY <1>1, <1>2, <1>5 DEF Held
<1>. QED
  BY <1>2, <1>3, <1>4, <1>5 DEF Held, f

-----------------------------------------------------------------------------
(* The tasks. *)

LEMMA IdleIsGood ==
  ASSUME NEW pc, pc \notin {"judging", "connecting"}
  PROVE  StateGood(Ending(pc))
  BY DEF StateGood, Idle, Ending

LEMMA AskingIsGood ==
  ASSUME NEW todo, \A j \in todo : IsPair(j), NEW j \in todo,
         NEW pc \in {"judging", "connecting"}, NEW tries, NEW state,
         state = Asking(pc, j, todo, tries)
  PROVE  StateGood(state) /\ state.pc = pc /\ state.current = j
  BY DEF StateGood, Idle, Asking

LEMMA BecomeKeeps ==
  ASSUME NEW count \in Nat, TasksGood(tasks, count), NEW t \in Task,
         NEW more \in Nat, count <= more, t <= more,
         NEW state, StateGood(state), Become(t, state)
  PROVE  /\ TasksGood(tasks', more) /\ tasks'[t] = state
         /\ \A u \in Task : u # t => tasks'[u] = tasks[u]
<1>1. tasks'[t] = state /\ tasks' = [u \in Task |-> tasks'[u]]
  BY DEF Become, TasksGood
<1>2. \A u \in Task : u # t => tasks'[u] = tasks[u]
  BY DEF Become, TasksGood
<1>3. Task \subseteq Int
  BY DEF Task
<1>. QED
  BY <1>1, <1>2, <1>3 DEF TasksGood

\* What a task becomes when a round goes on.
Asks(t, todo, queue, futures) ==
  \E j \in todo :
    Become(t, Asking("judging", j, todo, 0)) /\ classify(Asked(t, j), queue, futures)
Rests(t, todo, queue, futures) ==
  /\ Leave(queue, futures)
  /\ \/ Become(t, Ending("received")) \/ Become(t, Ending("error"))
     \/ \E j \in todo : Become(t, Asking("connecting", j, todo, max_retries))

LEMMA ContinueCases ==
  ASSUME NEW t, NEW todo, NEW log, NEW queue, NEW futures, NEW list,
         Continue(t, todo, log, queue, futures, list)
  PROVE  Asks(t, todo, queue, futures) \/ Rests(t, todo, queue, futures)
  BY DEF Continue, End, Asks, Rests

LEMMA AsksKeeps ==
  ASSUME NEW count \in Nat, TasksGood(tasks, count), NEW t \in Task,
         NEW more \in Nat, count <= more, t <= more,
         NEW state, StateGood(state), state.pc = "judging", Become(t, state),
         NEW queue, NEW futures, Held(queue, futures, pending, tasks), NoneOf(t, queue),
         classify(Asked(t, state.current), queue, futures)
  PROVE  /\ Held(lock, future, pending, tasks)'
         /\ TasksGood(tasks', more)
         /\ \A r \in Request : future'[r] \in {"set", "returned"} => future'[r] = futures[r]
<1>. DEFINE j == state.current
            r == Asked(t, j)
<1>1. r \in Request /\ r.task = t
  BY AskedIsRequest DEF StateGood
<1>2. /\ TasksGood(tasks', more) /\ \A u \in Task : u # t => tasks'[u] = tasks[u]
      /\ tasks'[t].pc = "judging" /\ tasks'[t].current = j
  BY BecomeKeeps
<1>3. Held(queue, futures, pending, tasks')
  BY <1>2, OtherTask
<1>4. \/ /\ queue = <<>> /\ lock' = <<r>>
         /\ future' = [futures EXCEPT ![r] = "waiting"] /\ pending' = pending \cup {r}
      \/ /\ queue # <<>> /\ lock' = Append(queue, r)
         /\ future' = [futures EXCEPT ![r] = "queued"] /\ pending' = pending
  BY DEF classify, Send
<1>5. r = Asked(r.task, tasks'[r.task].current)
  BY <1>1, <1>2
<1>6. \A s \in Request : future'[s] \in {"set", "returned"} => future'[s] = futures[s]
  BY <1>1, <1>4 DEF Held
<1>. HIDE DEF r
<1>7. Held(lock', future', pending', tasks')
  BY <1>1, <1>2, <1>3, <1>4, <1>5, AskKeeps
<1>. QED
  BY <1>2, <1>6, <1>7

LEMMA RestsKeeps ==
  ASSUME NEW count \in Nat, TasksGood(tasks, count), NEW t \in Task,
         NEW more \in Nat, count <= more, t <= more,
         NEW state, StateGood(state), Become(t, state),
         NEW queue, NEW futures, Held(queue, futures, pending, tasks), NoneOf(t, queue),
         Leave(queue, futures)
  PROVE  /\ Held(lock, future, pending, tasks)'
         /\ TasksGood(tasks', more)
         /\ \A r \in Request : future'[r] \in {"set", "returned"} => future'[r] = futures[r]
<1>1. TasksGood(tasks', more) /\ \A u \in Task : u # t => tasks'[u] = tasks[u]
  BY BecomeKeeps
<1>2. Held(queue, futures, pending, tasks')
  BY <1>1, OtherTask
<1>. QED
  BY <1>1, <1>2 DEF Leave

\* However a round goes on, the lock is held by what the tasks judge.
LEMMA ContinueKeeps ==
  ASSUME NEW count \in Nat, TasksGood(tasks, count), NEW t \in Task,
         NEW more \in Nat, count <= more, t <= more,
         NEW todo, \A j \in todo : IsPair(j), NEW log, NEW list,
         NEW queue, NEW futures, Held(queue, futures, pending, tasks), NoneOf(t, queue),
         Continue(t, todo, log, queue, futures, list)
  PROVE  /\ Held(lock, future, pending, tasks)'
         /\ TasksGood(tasks', more)
         /\ \A r \in Request : future'[r] \in {"set", "returned"} => future'[r] = futures[r]
<1>1. CASE Asks(t, todo, queue, futures)
  <2>1. PICK j \in todo :
          Become(t, Asking("judging", j, todo, 0)) /\ classify(Asked(t, j), queue, futures)
    BY <1>1 DEF Asks
  <2>. DEFINE state == Asking("judging", j, todo, 0)
  <2>2. StateGood(state) /\ state.pc = "judging" /\ state.current = j
    BY AskingIsGood
  <2>3. Become(t, state)
    BY <2>1
  <2>. HIDE DEF state
  <2>. QED
    BY <2>1, <2>2, <2>3, AsksKeeps
<1>2. CASE Rests(t, todo, queue, futures)
  <2>1. PICK state : StateGood(state) /\ Become(t, state)
    <3>1. StateGood(Ending("received")) /\ StateGood(Ending("error"))
      BY IdleIsGood
    <3>2. \A j \in todo : StateGood(Asking("connecting", j, todo, max_retries))
      BY AskingIsGood
    <3>. QED
      BY <1>2, <3>1, <3>2 DEF Rests
  <2>. QED
    BY <1>2, <2>1, RestsKeeps DEF Rests
<1>. QED
  BY <1>1, <1>2, ContinueCases

-----------------------------------------------------------------------------
(* The alerts and the cache. *)

\* What a parent reviewed is still reviewed after this step.
ReviewsKept == \A i \in DOMAIN alerts : alerts[i].acknowledged => alerts'[i].acknowledged

LEMMA SameAlerts ==
  ASSUME AlertsGood, alerts' = alerts, verdicts \subseteq verdicts'
  PROVE  AlertsGood' /\ ReviewsKept
  BY DEF AlertsGood, AlertWasFlagged, IsAlert, ReviewsKept

LEMMA OwnSequence ==
  ASSUME NEW n \in Nat, NEW s, s = [i \in 1..n |-> s[i]]
  PROVE  s \in Seq(Entries(s)) /\ Len(s) = n
<1>. DEFINE S == {s[i] : i \in 1..n}
<1>1. s \in [1..n -> S] /\ DOMAIN s = 1..n
  OBVIOUS
<1>. HIDE DEF S
<1>2. s \in Seq(S) /\ Len(s) = n
  BY <1>1
<1>. QED
  BY <1>1, <1>2 DEF S, Entries

LEMMA AlertDomain ==
  ASSUME AlertsGood
  PROVE  /\ Len(alerts) \in Nat /\ DOMAIN alerts = 1..Len(alerts)
         /\ alerts = [i \in 1..Len(alerts) |-> alerts[i]]
  BY DEF AlertsGood

\* One alert is written over.
LEMMA AlertChanged ==
  ASSUME AlertsGood, verdicts' = verdicts, NEW k, NEW a,
         alerts' = [alerts EXCEPT ![k] = a],
         k \in DOMAIN alerts =>
           /\ IsAlert(a) /\ a.child = alerts[k].child /\ a.target = alerts[k].target
           /\ [of |-> [task |-> a.by, child |-> a.child, target |-> a.target],
               flagged |-> TRUE] \in verdicts
           /\ alerts[k].acknowledged => a.acknowledged
  PROVE  AlertsGood' /\ ReviewsKept
<1>. DEFINE n == Len(alerts)
<1>1. n \in Nat /\ DOMAIN alerts = 1..n /\ alerts = [i \in 1..n |-> alerts[i]]
  BY AlertDomain
<1>2. alerts' = [i \in 1..n |-> alerts'[i]] /\ DOMAIN alerts' = 1..n
  BY <1>1
<1>3. alerts' \in Seq(Entries(alerts'))
  BY <1>1, <1>2, OwnSequence
<1>4. \A i \in 1..n : alerts'[i] = IF i = k THEN a ELSE alerts[i]
  BY <1>1
<1>5. \A i \in 1..n :
        /\ IsAlert(alerts'[i])
        /\ alerts'[i].child = alerts[i].child /\ alerts'[i].target = alerts[i].target
        /\ [of |-> [task |-> alerts'[i].by, child |-> alerts'[i].child,
                    target |-> alerts'[i].target], flagged |-> TRUE] \in verdicts
        /\ alerts[i].acknowledged => alerts'[i].acknowledged
  BY <1>1, <1>4 DEF AlertsGood, AlertWasFlagged
<1>6. AlertWasFlagged'
  <2>1. \A i, j \in 1..n :
          alerts'[i].child = alerts'[j].child /\ alerts'[i].target = alerts'[j].target => i = j
    BY <1>1, <1>5 DEF AlertsGood, AlertWasFlagged
  <2>. QED
    BY <2>1, <1>2, <1>5 DEF AlertWasFlagged
<1>. QED
  BY <1>1, <1>2, <1>3, <1>5, <1>6 DEF AlertsGood, ReviewsKept, IsAlert

\* An alert is raised for a pair that the classifier flagged for this task.
LEMMA RaiseKeeps ==
  ASSUME AlertsGood, verdicts' = verdicts, NEW pair, NEW t,
         [of |-> [task |-> t, child |-> pair.child, target |-> pair.target],
          flagged |-> TRUE] \in verdicts,
         alerts' = upsert_alert(pair, t)
  PROVE  AlertsGood' /\ ReviewsKept
<1>1. CASE IndexOf(pair) # {}
  <2>1. PICK k : k \in IndexOf(pair)
    BY <1>1
  <2>2. k \in DOMAIN alerts /\ alerts[k].child = pair.child /\ alerts[k].target = pair.target
    BY <2>1 DEF IndexOf
  <2>3. IndexOf(pair) = {k} /\ k \in Int
    BY <2>2, AlertDomain DEF IndexOf, AlertsGood, AlertWasFlagged
  <2>4. Max(IndexOf(pair)) = k
    BY <2>3 DEF Max
  <2>. DEFINE a == [alerts[k] EXCEPT !.by = t]
  <2>5. alerts' = [alerts EXCEPT ![k] = a]
    BY <1>1, <2>4 DEF upsert_alert
  <2>6. IsAlert(alerts[k])
    BY <2>2 DEF AlertsGood
  <2>7. /\ IsAlert(a) /\ a.child = pair.child /\ a.target = pair.target /\ a.by = t
        /\ a.acknowledged = alerts[k].acknowledged
    BY <2>2, <2>6 DEF IsAlert
  <2>. HIDE DEF a
  <2>. QED
    BY <2>2, <2>5, <2>7, AlertChanged
<1>2. CASE IndexOf(pair) = {}
  <2>. DEFINE n == Len(alerts)
              a == [child |-> pair.child, target |-> pair.target, by |-> t,
                    acknowledged |-> FALSE, stages |-> <<>>]
  <2>1. n \in Nat /\ DOMAIN alerts = 1..n /\ alerts \in Seq(Entries(alerts))
    BY AlertDomain DEF AlertsGood
  <2>2. IsAlert(a) /\ a.child = pair.child /\ a.target = pair.target /\ a.by = t
    BY DEF IsAlert
  <2>3. alerts' = Append(alerts, a)
    BY <1>2 DEF upsert_alert
  <2>. HIDE DEF a
  <2>4. /\ DOMAIN alerts' = 1..(n + 1) /\ alerts' = [i \in 1..(n + 1) |-> alerts'[i]]
        /\ alerts'[n + 1] = a /\ \A i \in 1..n : alerts'[i] = alerts[i]
    <3>. DEFINE T == Entries(alerts) \cup {a}
    <3>1. alerts \in Seq(T) /\ a \in T
      BY <2>1
    <3>. HIDE DEF T
    <3>2. alerts' \in Seq(T) /\ Len(alerts') = n + 1
      BY <2>1, <2>3, <3>1
    <3>3. alerts'[n + 1] = a /\ \A i \in 1..n : alerts'[i] = alerts[i]
      BY <2>1, <2>3, <3>1
    <3>. QED
      BY <2>1, <3>2, <3>3
  <2>5. alerts' \in Seq(Entries(alerts'))
    BY <2>1, <2>4, OwnSequence
  <2>6. \A i \in 1..n : ~(alerts[i].child = pair.child /\ alerts[i].target = pair.target)
    BY <1>2, <2>1 DEF IndexOf
  <2>7. \A i \in 1..(n + 1) : i \in 1..n \/ i = n + 1
    BY <2>1
  <2>8. \A i \in 1..(n + 1) : IsAlert(alerts'[i])
    BY <2>1, <2>2, <2>4, <2>7 DEF AlertsGood
  <2>9. \A i, j \in 1..(n + 1) :
          alerts'[i].child = alerts'[j].child /\ alerts'[i].target = alerts'[j].target => i = j
    BY <2>1, <2>2, <2>4, <2>6, <2>7 DEF AlertsGood, AlertWasFlagged
  <2>10. \A i \in 1..(n + 1) :
          [of |-> [task |-> alerts'[i].by, child |-> alerts'[i].child,
                   target |-> alerts'[i].target], flagged |-> TRUE] \in verdicts
    BY <2>1, <2>2, <2>4, <2>7 DEF AlertsGood, AlertWasFlagged
  <2>11. AlertWasFlagged'
    BY <2>4, <2>9, <2>10 DEF AlertWasFlagged
  <2>. QED
    BY <2>1, <2>4, <2>5, <2>8, <2>11 DEF AlertsGood, ReviewsKept, IsAlert
<1>. QED
  BY <1>1, <1>2

LEMMA StoredCount == StoreGood => Len(messages) \in Nat /\ DOMAIN messages = 1..Len(messages)
  BY DEF StoreGood

\* What is in the cache after it was synchronised with the store.
LEMMA SyncHolds ==
  ASSUME StoreGood, CacheGood
  PROVE  /\ Holds(sync_message_cache(Len(messages)), Len(messages))
         /\ Holds(Append(sync_message_cache(Len(messages) + 1), Len(messages) + 1),
                  Len(messages) + 1)
<1>. DEFINE n == Len(messages)
<1>1. n \in Nat
  BY StoredCount
<1>2. CASE cache = {}
  <2>1. /\ sync_message_cache(n) = [i \in 1..n |-> i]
        /\ sync_message_cache(n + 1) = [i \in 1..(n + 1) |-> i]
    BY <1>2 DEF sync_message_cache, get_server_messages
  <2>. DEFINE c == [i \in 1..(n + 1) |-> i]
  <2>2. /\ c \in Seq(1..(n + 1)) /\ Len(c) = n + 1 /\ \A i \in 1..(n + 1) : c[i] = i
    BY <1>1
  <2>3. Holds(sync_message_cache(n), n)
    BY <1>1, <2>1 DEF Holds
  <2>. HIDE DEF c
  <2>. DEFINE d == Append(c, n + 1)
  <2>4. /\ d \in Seq(1..(n + 1)) /\ Len(d) = n + 2 /\ d[n + 2] = n + 1
        /\ \A i \in 1..(n + 1) : d[i] = i
    BY <1>1, <2>2
  <2>. HIDE DEF d
  <2>5. Holds(d, n + 1)
    <3>1. \A k \in 1..(n + 1) : \E i \in 1..Len(d) : d[i] = k
      BY <1>1, <2>4
    <3>2. ASSUME NEW i \in 2..Len(d) PROVE d[i - 1] <= d[i]
      <4>1. i - 1 \in 1..(n + 1) /\ d[i - 1] = i - 1
        <5>1. i - 1 \in 1..(n + 1)
          BY <1>1, <2>4
        <5>. QED
          BY <2>4, <5>1
      <4>2. i = n + 2 \/ i \in 1..(n + 1)
        BY <1>1, <2>4
      <4>3. d[i] = i \/ (i = n + 2 /\ d[i] = n + 1)
        BY <2>4, <4>2
      <4>. QED
        BY <1>1, <4>1, <4>3
    <3>3. d \in Seq(1..(n + 1)) /\ Len(d) <= n + 1 + 1
      BY <1>1, <2>4
    <3>. QED
      BY <3>1, <3>2, <3>3 DEF Holds
  <2>. QED
    BY <2>1, <2>3, <2>5 DEF c, d
<1>3. CASE cache # {}
  <2>1. PICK c \in cache : /\ sync_message_cache(n) = c
                           /\ sync_message_cache(n + 1) = c
    BY <1>3 DEF sync_message_cache
  <2>2. Holds(c, n)
    BY DEF CacheGood
  <2>3. c \in Seq(1..n) /\ Len(c) \in Nat /\ Len(c) <= n + 1
    BY <2>2 DEF Holds
  <2>. DEFINE d == Append(c, n + 1)
  <2>4. c \in Seq(1..(n + 1)) /\ \A i \in 1..Len(c) : c[i] \in 1..n
    BY <1>1, <2>3
  <2>5. /\ d \in Seq(1..(n + 1)) /\ Len(d) = Len(c) + 1 /\ d[Len(c) + 1] = n + 1
        /\ \A i \in 1..Len(c) : d[i] = c[i]
    BY <1>1, <2>3, <2>4
  <2>. HIDE DEF d
  <2>6. \A k \in 1..(n + 1) : \E i \in 1..Len(d) : d[i] = k
    <3>1. ASSUME NEW k \in 1..n PROVE \E i \in 1..Len(d) : d[i] = k
      <4>1. PICK i \in 1..Len(c) : c[i] = k
        BY <2>2 DEF Holds
      <4>2. d[i] = c[i]
        BY <2>5
      <4>3. i \in 1..Len(d)
        BY <2>3, <2>5
      <4>. QED
        BY <4>1, <4>2, <4>3
    <3>2. Len(c) + 1 \in 1..Len(d)
      BY <2>3, <2>5
    <3>. QED
      BY <1>1, <2>5, <3>1, <3>2
  <2>7. ASSUME NEW i \in 2..Len(d) PROVE d[i - 1] <= d[i]
    <3>1. CASE i = Len(c) + 1
      BY <1>1, <2>3, <2>4, <2>5, <3>1
    <3>2. CASE i # Len(c) + 1
      <4>1. i \in 2..Len(c) /\ i \in 1..Len(c) /\ i - 1 \in 1..Len(c)
        BY <2>3, <2>5, <3>2
      <4>. QED
        BY <2>2, <2>5, <4>1 DEF Holds
    <3>. QED
      BY <3>1, <3>2
  <2>8. Holds(d, n + 1)
    BY <1>1, <2>3, <2>5, <2>6, <2>7 DEF Holds
  <2>. QED
    BY <2>1, <2>2, <2>8 DEF d
<1>. QED
  BY <1>2, <1>3

-----------------------------------------------------------------------------
(* The steps. *)

LEMMA SameStore ==
  StoreGood /\ CacheGood /\ UNCHANGED <<messages, cache, children, writing>>
    => StoreGood' /\ CacheGood'
  BY DEF StoreGood, CacheGood

LEMMA SameAnswers ==
  ASSUME AnswersGood, UNCHANGED <<results, verdicts>>,
         \A r \in Request : future'[r] \in {"set", "returned"} => future'[r] = future[r]
  PROVE  AnswersGood'
  BY DEF AnswersGood

LEMMA StepDone ==
  ASSUME Held(lock, future, pending, tasks)', TasksGood(tasks', Len(messages')),
         StoreGood', CacheGood', AnswersGood', AlertsGood'
  PROVE  IngestInv'
  BY DEF IngestInv

\* A task under way is that of a stored message.
LEMMA TaskStored ==
  ASSUME IngestInv, NEW t \in Task, tasks[t].pc # "none"
  PROVE  /\ t <= Len(messages) /\ Len(messages) \in Nat /\ StateGood(tasks[t])
         /\ tasks[t].pc = "judging" => Current(t) \in Request /\ Current(t).task = t
<1>1. t <= Len(messages) /\ Len(messages) \in Nat /\ StateGood(tasks[t])
  BY StoredCount DEF IngestInv, TasksGood
<1>. QED
  BY <1>1, AskedIsRequest DEF StateGood, Current

LEMMA JudgementsArePairs ==
  ASSUME NEW log \in Seq(Stored), NEW collection \in Seq(1..Len(log)),
         children \in Seq(DOMAIN ParentOf)
  PROVE  \A j \in Judgements(log, collection) : IsPair(j)
<1>. DEFINE users == {log[collection[i]].user : i \in DOMAIN collection}
            judgement(pair) == [child |-> pair[1], target |-> pair[2],
                                talk |-> conversation(log, collection, pair[1], pair[2])]
<1>1. users \subseteq User
  <2>. SUFFICES ASSUME NEW i \in DOMAIN collection PROVE log[collection[i]].user \in User
    OBVIOUS
  <2>1. collection[i] \in 1..Len(log)
    OBVIOUS
  <2>2. log[collection[i]] \in Stored
    BY <2>1
  <2>. QED
    BY <2>2 DEF Stored
<1>2. ToSet(children) \subseteq DOMAIN ParentOf
  BY DEF ToSet
<1>3. ASSUME NEW j \in Judgements(log, collection)
      PROVE  \E pair \in (ToSet(children) \cap users) \X users : j = judgement(pair)
  BY <1>3 DEF Judgements
<1>. HIDE DEF users
<1>. QED
  BY <1>1, <1>2, <1>3 DEF IsPair

LEMMA ProcessKeeps ==
  ASSUME IngestInv, NEW user \in writing.users, NEW minutes \in writing.minutes,
         process_ingest(user, minutes)
  PROVE  IngestInv' /\ ReviewsKept
<1>. DEFINE n == Len(messages) + 1
            last == IF messages = <<>> THEN 0 ELSE messages[Len(messages)].at
<1>1. /\ Len(messages) \in Nat /\ n \in Nat /\ n \in Task /\ messages \in Seq(Stored)
      /\ children \in Seq(DOMAIN ParentOf)
  BY StoredCount DEF IngestInv, StoreGood, process_ingest
<1>2. /\ messages' = Append(messages, [user |-> user, at |-> last + minutes])
      /\ cache' = {Collection(n)}
      /\ \/ Become(n, Ending("error")) /\ Leave(lock, future)
         \/ \E list : Continue(n, Judgements(messages', Collection(n)), messages', lock, future,
                               list)
      /\ UNCHANGED <<alerts, results, verdicts, children, writing>>
  BY DEF process_ingest, End
<1>3. last \in Nat
  <2>1. messages # <<>> => messages[Len(messages)] \in Stored
    BY <1>1
  <2>. QED
    BY <2>1 DEF Stored
<1>4. [user |-> user, at |-> last + minutes] \in Stored
  BY <1>3 DEF IngestInv, StoreGood, Stored
<1>. HIDE DEF last
<1>5. messages' \in Seq(Stored) /\ Len(messages') = n
  BY <1>1, <1>2, <1>4
<1>6. StoreGood'
  BY <1>2, <1>5 DEF IngestInv, StoreGood
<1>7. Holds(Collection(n), n)
  BY SyncHolds DEF Collection, IngestInv
<1>8. CacheGood'
  BY <1>2, <1>5, <1>7 DEF CacheGood
<1>9. \A j \in Judgements(messages', Collection(n)) : IsPair(j)
  BY <1>1, <1>5, <1>7, JudgementsArePairs DEF Holds
<1>10. NoneOf(n, lock)
  <2>. SUFFICES ASSUME NEW i \in 1..Len(lock) PROVE lock[i].task # n
    BY DEF NoneOf
  <2>1. lock[i].task \in Task /\ tasks[lock[i].task].pc = "judging"
    <3>1. Held(lock, future, pending, tasks)
      BY DEF IngestInv
    <3>2. lock[i].task \in Task
      BY <3>1, HeldTask
    <3>3. tasks[lock[i].task].pc = "judging"
      BY <3>1 DEF Held
    <3>. QED
      BY <3>2, <3>3
  <2>2. lock[i].task <= Len(messages)
    BY <2>1, TaskStored
  <2>. QED
    BY <1>1, <2>1, <2>2 DEF Task
<1>11. /\ Held(lock, future, pending, tasks)' /\ TasksGood(tasks', n)
       /\ \A r \in Request : future'[r] \in {"set", "returned"} => future'[r] = future[r]
  <2>1. CASE Become(n, Ending("error")) /\ Leave(lock, future)
    <3>1. StateGood(Ending("error"))
      BY IdleIsGood
    <3>. QED
      BY <1>1, <1>10, <2>1, <3>1, RestsKeeps DEF IngestInv
  <2>2. ASSUME NEW list, Continue(n, Judgements(messages', Collection(n)), messages', lock,
                                  future, list)
        PROVE  /\ Held(lock, future, pending, tasks)' /\ TasksGood(tasks', n)
               /\ \A r \in Request :
                    future'[r] \in {"set", "returned"} => future'[r] = future[r]
    BY <1>1, <1>9, <1>10, <2>2, ContinueKeeps DEF IngestInv
  <2>. QED
    BY <1>2, <2>1, <2>2
<1>12. AnswersGood'
  BY <1>2, <1>11, SameAnswers DEF IngestInv
<1>13. AlertsGood' /\ ReviewsKept
  BY <1>2, SameAlerts DEF IngestInv
<1>. QED
  BY <1>5, <1>6, <1>8, <1>11, <1>12, <1>13, StepDone

\* A task that asks for nothing changes: it only waits on, or ends.
LEMMA TaskAlone ==
  ASSUME IngestInv, NEW t \in Task, tasks[t].pc \notin {"none", "judging"},
         NEW state, StateGood(state), Become(t, state),
         UNCHANGED <<lock, pending, future>>
  PROVE  Held(lock, future, pending, tasks)' /\ TasksGood(tasks', Len(messages))
<1>1. t <= Len(messages) /\ Len(messages) \in Nat
  BY TaskStored
<1>2. TasksGood(tasks', Len(messages)) /\ \A u \in Task : u # t => tasks'[u] = tasks[u]
  BY <1>1, BecomeKeeps DEF IngestInv
<1>3. NoneOf(t, lock)
  BY DEF IngestInv, Held, NoneOf
<1>4. Held(lock, future, pending, tasks')
  BY <1>2, <1>3, OtherTask DEF IngestInv
<1>. QED
  BY <1>2, <1>4

LEMMA WakeKeeps ==
  ASSUME IngestInv, NEW t \in Task, Wake(t)
  PROVE  IngestInv' /\ ReviewsKept
<1>. DEFINE state == tasks[t]
<1>1. /\ state.pc = "connecting"
      /\ UNCHANGED <<messages, cache, alerts, results, verdicts, children, writing>>
  BY DEF Wake
<1>2. t <= Len(messages) /\ Len(messages) \in Nat /\ StateGood(state)
  BY <1>1, TaskStored
<1>3. /\ Held(lock, future, pending, tasks)' /\ TasksGood(tasks', Len(messages))
      /\ \A r \in Request : future'[r] \in {"set", "returned"} => future'[r] = future[r]
  <2>1. NoneOf(t, lock) /\ TasksGood(tasks, Len(messages)) /\ Held(lock, future, pending, tasks)
    BY <1>1 DEF IngestInv, Held, NoneOf
  <2>2. CASE connected
    <3>. DEFINE then == [state EXCEPT !.pc = "judging", !.tries = 0]
    <3>1. Become(t, then) /\ classify(Asked(t, state.current), lock, future)
      BY <2>2 DEF Wake, Current
    <3>2. StateGood(then) /\ then.pc = "judging" /\ then.current = state.current
      BY <1>1, <1>2 DEF StateGood
    <3>. HIDE DEF then
    <3>. QED
      BY <1>2, <2>1, <3>1, <3>2, AsksKeeps
  <2>3. CASE ~connected
    <3>1. Leave(lock, future)
      BY <2>3 DEF Wake
    <3>2. \/ Become(t, Ending("refused"))
          \/ Become(t, [state EXCEPT !.tries = @ - 1])
      BY <2>3 DEF Wake, End
    <3>3. StateGood(Ending("refused"))
      BY IdleIsGood
    <3>4. StateGood([state EXCEPT !.tries = @ - 1])
      BY <1>2 DEF StateGood
    <3>5. PICK then : StateGood(then) /\ Become(t, then)
      BY <3>2, <3>3, <3>4
    <3>. QED
      BY <1>2, <2>1, <3>1, <3>5, RestsKeeps
  <2>. QED
    BY <2>2, <2>3
<1>4. AnswersGood'
  BY <1>1, <1>3, SameAnswers DEF IngestInv
<1>5. AlertsGood' /\ ReviewsKept
  BY <1>1, SameAlerts DEF IngestInv
<1>. QED
  BY <1>1, <1>3, <1>4, <1>5, SameStore, StepDone DEF IngestInv

LEMMA EnterLockKeeps ==
  ASSUME IngestInv, NEW t \in Task, EnterLock(t)
  PROVE  IngestInv' /\ ReviewsKept
<1>. DEFINE r == Current(t)
<1>1. /\ tasks[t].pc = "judging" /\ lock # <<>> /\ Head(lock) = r /\ future[r] = "queued"
      /\ lock' = lock /\ pending' = pending \cup {r}
      /\ future' = [future EXCEPT ![r] = "waiting"]
      /\ UNCHANGED <<messages, cache, alerts, results, verdicts, tasks, children, writing>>
  BY DEF EnterLock, Acquire, Send, storeVars
<1>2. r \in Request
  BY <1>1, TaskStored
<1>. HIDE DEF r
<1>3. Held(lock, future, pending, tasks)'
  BY <1>1, <1>2, TurnKeeps DEF IngestInv
<1>4. AnswersGood'
  <2>1. \A q \in Request : future'[q] \in {"set", "returned"} => future'[q] = future[q]
    BY <1>1, <1>2 DEF IngestInv, Held
  <2>. QED
    BY <1>1, <2>1, SameAnswers DEF IngestInv
<1>5. AlertsGood' /\ ReviewsKept
  BY <1>1, SameAlerts DEF IngestInv
<1>. QED
  BY <1>1, <1>3, <1>4, <1>5, SameStore, StepDone DEF IngestInv

LEMMA JudgingFailsKeeps ==
  ASSUME IngestInv, NEW t \in Task, JudgingFails(t)
  PROVE  IngestInv' /\ ReviewsKept
<1>. DEFINE r == Current(t)
<1>1. /\ tasks[t].pc = "judging"
      /\ \/ future[r] \in {"lost", "waiting", "set"}
         \/ lock # <<>> /\ Head(lock) = r
      /\ \E pc \in {"refused", "error"} : Become(t, Ending(pc))
      /\ lock' = Tail(lock) /\ pending' = pending \ {r}
      /\ future' = [future EXCEPT ![r] = "failed"]
      /\ UNCHANGED <<messages, cache, alerts, results, verdicts, children, writing>>
  BY DEF JudgingFails, Disconnected, NoConnection, TimesOut, Fail, Released, Ended, End,
         storeVars
<1>2. /\ r \in Request /\ r.task = t /\ t <= Len(messages) /\ Len(messages) \in Nat
  BY <1>1, TaskStored
<1>. HIDE DEF r
<1>3. lock # <<>> /\ Head(lock) = r
  BY <1>1, <1>2, HasLock DEF IngestInv
<1>4. Held(lock', future', pending', tasks) /\ NoneOf(t, lock')
  BY <1>1, <1>2, <1>3, ReleaseKeeps DEF IngestInv
<1>5. PICK pc \in {"refused", "error"} : Become(t, Ending(pc))
  BY <1>1
<1>6. StateGood(Ending(pc))
  BY IdleIsGood
<1>7. TasksGood(tasks', Len(messages)) /\ \A u \in Task : u # t => tasks'[u] = tasks[u]
  BY <1>2, <1>5, <1>6, BecomeKeeps DEF IngestInv
<1>8. Held(lock, future, pending, tasks)'
  BY <1>4, <1>7, OtherTask
<1>9. AnswersGood'
  <2>1. \A q \in Request : future'[q] \in {"set", "returned"} => future'[q] = future[q]
    BY <1>1, <1>2 DEF IngestInv, Held
  <2>. QED
    BY <1>1, <2>1, SameAnswers DEF IngestInv
<1>10. AlertsGood' /\ ReviewsKept
  BY <1>1, SameAlerts DEF IngestInv
<1>. QED
  BY <1>1, <1>7, <1>8, <1>9, <1>10, SameStore, StepDone DEF IngestInv

LEMMA JudgedKeeps ==
  ASSUME IngestInv, NEW t \in Task, Judged(t)
  PROVE  IngestInv' /\ ReviewsKept
<1>. DEFINE r == Current(t)
            pair == tasks[t].current
            futures == [future EXCEPT ![r] = "returned"]
<1>1. /\ tasks[t].pc = "judging" /\ future[r] = "set"
      /\ UNCHANGED <<messages, cache, results, verdicts, children, writing>>
  BY DEF Judged
<1>2. /\ r \in Request /\ r.task = t /\ t <= Len(messages) /\ Len(messages) \in Nat
      /\ StateGood(tasks[t])
  BY <1>1, TaskStored
<1>3. lock # <<>> /\ Head(lock) = r
  BY <1>1, <1>2, HasLock DEF IngestInv
<1>4. Held(Tail(lock), futures, pending, tasks) /\ NoneOf(t, Tail(lock))
  <2>1. pending \ {r} = pending
    BY <1>1 DEF IngestInv, Held
  <2>2. Held(lock, future, pending, tasks)
    BY DEF IngestInv
  <2>. HIDE DEF r
  <2>3. /\ Held(Tail(lock), [future EXCEPT ![r] = "returned"], pending \ {r}, tasks)
        /\ NoneOf(r.task, Tail(lock))
    BY <1>2, <1>3, <2>2, ReleaseKeeps
  <2>. QED
    BY <1>2, <2>1, <2>3
<1>5. \/ \E list : Continue(t, tasks[t].todo, messages, Tail(lock), futures, list)
      \/ Become(t, Ending("error")) /\ Leave(Tail(lock), futures)
      \/ /\ Leave(Tail(lock), futures)
         /\ \E audience, alert : Become(t, Telling(tasks[t], audience, alert))
  <2>1. ASSUME ~Flagged(r)
        PROVE  Continue(t, tasks[t].todo, messages, Tail(lock), futures, rows)
    BY <2>1 DEF Judged, Released, Ended
  <2>. DEFINE saved == Commit(rows, <<"ingest", t>>)
              words == ToSet(pair.talk)
              audience == Audience(pair.child)
  <2>2. ASSUME Flagged(r), ~Readable(saved, Using(saved, t), words)
        PROVE  Become(t, Ending("error")) /\ Leave(Tail(lock), futures)
    BY <2>2 DEF Judged, Released, Ended, End
  <2>3. ASSUME Flagged(r), Readable(saved, Using(saved, t), words), audience = <<>>
        PROVE  \E list : Continue(t, tasks[t].todo, messages, Tail(lock), futures, list)
    BY <2>3 DEF Judged, Released, Ended
  <2>4. ASSUME Flagged(r), Readable(saved, Using(saved, t), words), audience # <<>>
        PROVE  Become(t, Telling(tasks[t], audience, RaisedIndex(pair)))
               /\ Leave(Tail(lock), futures)
    BY <2>4 DEF Judged, Released, Ended
  <2>. HIDE DEF saved, words, audience, r, futures
  <2>. QED
    BY <2>1, <2>2, <2>3, <2>4
<1>6. /\ Held(lock, future, pending, tasks)' /\ TasksGood(tasks', Len(messages))
      /\ \A q \in Request : future'[q] \in {"set", "returned"} => future'[q] = futures[q]
  <2>1. TasksGood(tasks, Len(messages)) /\ \A j \in tasks[t].todo : IsPair(j)
    BY <1>2 DEF IngestInv, StateGood
  <2>2. ASSUME NEW list, Continue(t, tasks[t].todo, messages, Tail(lock), futures, list)
        PROVE  /\ Held(lock, future, pending, tasks)' /\ TasksGood(tasks', Len(messages))
               /\ \A q \in Request :
                    future'[q] \in {"set", "returned"} => future'[q] = futures[q]
    <3>. DEFINE n == Len(messages)
                rest == Tail(lock)
    <3>1. n \in Nat /\ t <= n /\ n <= n /\ TasksGood(tasks, n)
      BY <1>2, <2>1
    <3>2. Held(rest, futures, pending, tasks) /\ NoneOf(t, rest)
      BY <1>4
    <3>3. /\ Continue(t, tasks[t].todo, messages, rest, futures, list)
          /\ \A j \in tasks[t].todo : IsPair(j)
      BY <2>1, <2>2
    <3>. HIDE DEF futures, r, n, rest
    <3>4. Held(lock, future, pending, tasks)' /\ TasksGood(tasks', n)
          /\ \A q \in Request : future'[q] \in {"set", "returned"} => future'[q] = futures[q]
      BY <3>1, <3>2, <3>3, ContinueKeeps
    <3>. QED
      BY <3>4 DEF n
  <2>3. ASSUME NEW state, StateGood(state), Become(t, state), Leave(Tail(lock), futures)
        PROVE  /\ Held(lock, future, pending, tasks)' /\ TasksGood(tasks', Len(messages))
               /\ \A q \in Request :
                    future'[q] \in {"set", "returned"} => future'[q] = futures[q]
    <3>. HIDE DEF futures, r
    <3>. QED
      BY <1>2, <1>4, <2>1, <2>3, RestsKeeps
  <2>4. StateGood(Ending("error"))
    BY IdleIsGood
  <2>5. ASSUME NEW audience, NEW alert
        PROVE  StateGood(Telling(tasks[t], audience, alert))
    BY <1>2 DEF StateGood, Telling
  <2>. QED
    BY <1>5, <2>2, <2>3, <2>4, <2>5
<1>7. AnswersGood'
  <2>1. ASSUME NEW q \in Request, future'[q] \in {"set", "returned"}
        PROVE  \E x \in results : x.to = q
    <3>1. future[q] \in {"set", "returned"}
      BY <1>1, <1>2, <1>6, <2>1 DEF IngestInv, Held
    <3>. QED
      BY <3>1 DEF IngestInv, AnswersGood
  <2>. QED
    BY <1>1, <2>1 DEF IngestInv, AnswersGood
<1>8. AlertsGood' /\ ReviewsKept
  <2>1. CASE UNCHANGED alerts
    BY <1>1, <2>1, SameAlerts DEF IngestInv
  <2>2. CASE Flagged(r) /\ alerts' = upsert_alert(pair, t)
    <3>1. PICK x \in results : x.to = r /\ x.flagged
      BY <2>2 DEF Flagged
    <3>2. [of |-> r, flagged |-> x.flagged] \in verdicts
      BY <3>1 DEF IngestInv, AnswersGood
    <3>3. [of |-> r, flagged |-> TRUE] \in verdicts
      BY <3>1, <3>2
    <3>4. r = [task |-> t, child |-> pair.child, target |-> pair.target]
      BY DEF Current, Asked
    <3>. HIDE DEF pair, r
    <3>. QED
      BY <1>1, <2>2, <3>3, <3>4, RaiseKeeps DEF IngestInv
  <2>. QED
    BY <2>1, <2>2 DEF Judged
<1>. QED
  BY <1>1, <1>6, <1>7, <1>8, SameStore, StepDone DEF IngestInv

LEMMA TellKeeps ==
  ASSUME IngestInv, NEW t \in Task, Tell(t)
  PROVE  IngestInv' /\ ReviewsKept
<1>. DEFINE state == tasks[t]
<1>1. /\ state.pc = "telling"
      /\ UNCHANGED <<messages, cache, alerts, results, verdicts, children, writing>>
  BY DEF Tell
<1>2. t <= Len(messages) /\ Len(messages) \in Nat /\ StateGood(state)
  BY <1>1, TaskStored
<1>3. /\ Held(lock, future, pending, tasks)' /\ TasksGood(tasks', Len(messages))
      /\ \A r \in Request : future'[r] \in {"set", "returned"} => future'[r] = future[r]
  <2>1. CASE Rest(t) # <<>>
    <3>1. UNCHANGED <<lock, pending, future>> /\ Become(t, [state EXCEPT !.audience = Rest(t)])
      BY <2>1 DEF Tell
    <3>2. StateGood([state EXCEPT !.audience = Rest(t)])
      BY <1>2 DEF StateGood
    <3>. QED
      BY <1>1, <3>1, <3>2, TaskAlone
  <2>2. CASE Rest(t) = <<>>
    <3>1. Continue(t, state.todo, messages, lock, future, Commit(rows, <<"ingest", t>>))
      BY <2>2 DEF Tell
    <3>2. NoneOf(t, lock)
      BY <1>1 DEF IngestInv, Held, NoneOf
    <3>3. \A j \in state.todo : IsPair(j)
      BY <1>2 DEF StateGood
    <3>. QED
      BY <1>2, <3>1, <3>2, <3>3, ContinueKeeps DEF IngestInv
  <2>. QED
    BY <2>1, <2>2
<1>4. AnswersGood'
  BY <1>1, <1>3, SameAnswers DEF IngestInv
<1>5. AlertsGood' /\ ReviewsKept
  BY <1>1, SameAlerts DEF IngestInv
<1>. QED
  BY <1>1, <1>3, <1>4, <1>5, SameStore, StepDone DEF IngestInv

-----------------------------------------------------------------------------
(* The classifier's socket and its answers. *)

\* Futures that settle leave the lock as it is: what waited no longer does.
LEMMA SettleKeeps ==
  ASSUME NEW queue, NEW futures, NEW waiting, NEW work, Held(queue, futures, waiting, work),
         NEW done, done \subseteq waiting, NEW how \in {"lost", "set"},
         NEW f, f = [r \in Request |-> IF r \in done THEN how ELSE futures[r]]
  PROVE  Held(queue, f, waiting \ done, work)
<1>1. /\ \A r \in Request : f[r] = IF r \in done THEN how ELSE futures[r]
      /\ f = [r \in Request |-> f[r]]
  OBVIOUS
<1>2. futures \in [Request -> FutureState] /\ waiting = {r \in Request : futures[r] = "waiting"}
  BY DEF Held
<1>3. \A r \in Request : f[r] \in FutureState
  BY <1>1, <1>2 DEF FutureState, Active
<1>4. f \in [Request -> FutureState]
  BY <1>1, <1>3
<1>5. \A r \in Request : f[r] \in Active => futures[r] \in Active
  BY <1>1, <1>2 DEF Active
<1>6. waiting \ done = {r \in Request : f[r] = "waiting"}
  BY <1>1, <1>2
<1>7. ASSUME NEW i \in 2..Len(queue) PROVE f[queue[i]] = "queued"
  <2>1. queue \in Seq(Request) /\ futures[queue[i]] = "queued"
    BY DEF Held
  <2>2. queue[i] \in Request
    BY <2>1
  <2>. QED
    BY <1>1, <1>2, <2>1, <2>2
<1>. QED
  BY <1>4, <1>5, <1>6, <1>7 DEF Held

LEMMA DisconnectKeeps ==
  ASSUME IngestInv, NEW s \in Socket, disconnect(s),
         UNCHANGED <<storeVars, tasks, children, writing>>
  PROVE  IngestInv' /\ ReviewsKept
<1>1. /\ future' = [r \in Request |-> IF r \in pending THEN "lost" ELSE future[r]]
      /\ pending' = pending \ pending /\ lock' = lock
      /\ UNCHANGED <<messages, cache, alerts, results, verdicts, tasks, children, writing>>
  BY DEF disconnect, storeVars
<1>2. Held(lock, future, pending, tasks)'
  BY <1>1, SettleKeeps DEF IngestInv
<1>3. AnswersGood'
  <2>1. \A q \in Request : future'[q] \in {"set", "returned"} => future'[q] = future[q]
    BY <1>1
  <2>. QED
    BY <1>1, <2>1, SameAnswers DEF IngestInv
<1>4. AlertsGood' /\ ReviewsKept
  BY <1>1, SameAlerts DEF IngestInv
<1>. QED
  BY <1>1, <1>2, <1>3, <1>4, SameStore, StepDone DEF IngestInv

LEMMA AnswerKeeps ==
  ASSUME IngestInv, NEW r \in inference, NEW flagged \in BOOLEAN, handle_message(r, flagged),
         UNCHANGED <<storeVars, tasks, children, writing>>
  PROVE  IngestInv' /\ ReviewsKept
<1>. DEFINE done == Completed(r)
<1>1. /\ verdicts' = verdicts \cup {[of |-> r, flagged |-> flagged]}
      /\ future' = [q \in Request |-> IF q \in done THEN "set" ELSE future[q]]
      /\ results' = results \cup {[to |-> q, of |-> r, flagged |-> flagged] : q \in done}
      /\ pending' = pending \ done /\ lock' = lock
      /\ UNCHANGED <<messages, cache, alerts, tasks, children, writing>>
  BY DEF handle_message, storeVars
<1>2. done \subseteq pending /\ \A q \in done : q = r
  BY DEF Completed
<1>. HIDE DEF done
<1>3. Held(lock, future, pending, tasks)'
  BY <1>1, <1>2, SettleKeeps DEF IngestInv
<1>4. AnswersGood'
  <2>1. ASSUME NEW x \in results'
        PROVE  x.to = x.of /\ [of |-> x.of, flagged |-> x.flagged] \in verdicts'
    <3>1. CASE x \in results
      BY <1>1, <3>1 DEF IngestInv, AnswersGood
    <3>2. CASE \E q \in done : x = [to |-> q, of |-> r, flagged |-> flagged]
      BY <1>1, <1>2, <3>2
    <3>. QED
      BY <1>1, <2>1, <3>1, <3>2
  <2>2. ASSUME NEW q \in Request, future'[q] \in {"set", "returned"}
        PROVE  \E x \in results' : x.to = q
    <3>1. CASE q \in done
      <4>1. [to |-> q, of |-> r, flagged |-> flagged] \in results'
        BY <1>1, <3>1
      <4>. QED
        BY <4>1
    <3>2. CASE q \notin done
      <4>1. future[q] \in {"set", "returned"}
        BY <1>1, <2>2, <3>2
      <4>2. PICK x \in results : x.to = q
        BY <4>1 DEF IngestInv, AnswersGood
      <4>. QED
        BY <1>1, <4>2
    <3>. QED
      BY <3>1, <3>2
  <2>. QED
    BY <2>1, <2>2 DEF AnswersGood
<1>5. AlertsGood' /\ ReviewsKept
  BY <1>1, SameAlerts DEF IngestInv
<1>. QED
  BY <1>1, <1>3, <1>4, <1>5, SameStore, StepDone DEF IngestInv

\* Steps that touch none of this.
LEMMA Untouched ==
  ASSUME IngestInv, verdicts \subseteq verdicts',
         UNCHANGED <<messages, cache, alerts, lock, future, pending, results, verdicts,
                     tasks, children, writing>>
  PROVE  IngestInv' /\ ReviewsKept
<1>1. AlertsGood' /\ ReviewsKept
  BY SameAlerts DEF IngestInv
<1>2. StoreGood' /\ CacheGood'
  BY SameStore DEF IngestInv
<1>3. AnswersGood'
  BY SameAnswers DEF IngestInv
<1>. QED
  BY <1>1, <1>2, <1>3 DEF IngestInv

LEMMA StreamStepKeeps ==
  ASSUME IngestInv, StreamStep, UNCHANGED <<storeVars, tasks, children, writing>>
  PROVE  IngestInv' /\ ReviewsKept
<1>1. ASSUME NEW s \in Socket, connect(s) \/ Drop(s) PROVE IngestInv' /\ ReviewsKept
  BY <1>1, Untouched DEF connect, Drop, storeVars
<1>2. ASSUME NEW s \in Socket, disconnect(s) PROVE IngestInv' /\ ReviewsKept
  BY <1>2, DisconnectKeeps
<1>3. ASSUME NEW r \in inference, NEW flagged \in BOOLEAN, handle_message(r, flagged)
      PROVE  IngestInv' /\ ReviewsKept
  BY <1>3, AnswerKeeps
<1>4. ASSUME NEW r \in inference, LoseJob(r) PROVE IngestInv' /\ ReviewsKept
  BY <1>4, Untouched DEF LoseJob, storeVars
<1>. QED
  BY <1>1, <1>2, <1>3, <1>4 DEF StreamStep

-----------------------------------------------------------------------------
(* The store and the dashboards. *)

\* The store's own steps leave the stream and the tasks alone.
LEMMA StoreStepDone ==
  ASSUME IngestInv, UNCHANGED <<streamVars, tasks, children, writing>>, messages' = messages,
         CacheGood', AlertsGood'
  PROVE  IngestInv'
<1>1. StoreGood'
  BY DEF IngestInv, StoreGood
<1>2. AnswersGood' /\ Held(lock, future, pending, tasks)' /\ TasksGood(tasks', Len(messages'))
  BY SameAnswers DEF IngestInv, streamVars
<1>. QED
  BY <1>1, <1>2, StepDone

LEMMA AcknowledgeKeeps ==
  ASSUME IngestInv, NEW i \in DOMAIN alerts, acknowledge_alert(i),
         UNCHANGED <<streamVars, tasks, children, writing>>
  PROVE  IngestInv' /\ ReviewsKept
<1>. DEFINE a == [alerts[i] EXCEPT !.acknowledged = TRUE]
<1>1. alerts' = [alerts EXCEPT ![i] = a] /\ UNCHANGED <<messages, cache, verdicts>>
  BY DEF acknowledge_alert, streamVars
<1>2. IsAlert(alerts[i])
  BY DEF IngestInv, AlertsGood
<1>3. /\ IsAlert(a) /\ a.child = alerts[i].child /\ a.target = alerts[i].target
      /\ a.by = alerts[i].by /\ a.acknowledged
  BY <1>2 DEF IsAlert
<1>. HIDE DEF a
<1>4. [of |-> [task |-> a.by, child |-> a.child, target |-> a.target],
       flagged |-> TRUE] \in verdicts
  BY <1>3 DEF IngestInv, AlertsGood, AlertWasFlagged
<1>5. AlertsGood' /\ ReviewsKept
  BY <1>1, <1>3, <1>4, AlertChanged DEF IngestInv
<1>6. CacheGood'
  BY <1>1 DEF IngestInv, CacheGood
<1>. QED
  BY <1>1, <1>5, <1>6, StoreStepDone

LEMMA EndAnalysisKeeps ==
  ASSUME IngestInv, NEW call, NEW found, EndAnalysis(call, found),
         UNCHANGED <<streamVars, tasks, children, writing>>
  PROVE  IngestInv' /\ ReviewsKept
<1>. DEFINE k == call.alert
<1>1. UNCHANGED <<messages, cache, verdicts>>
  BY DEF EndAnalysis, streamVars
<1>2. PICK list : alerts' = [alerts EXCEPT ![k].stages = list]
  BY DEF EndAnalysis
<1>. DEFINE a == [alerts[k] EXCEPT !.stages = list]
<1>3. alerts' = [alerts EXCEPT ![k] = a]
  BY <1>2
<1>4. ASSUME k \in DOMAIN alerts
      PROVE  /\ IsAlert(a) /\ a.child = alerts[k].child /\ a.target = alerts[k].target
             /\ a.by = alerts[k].by /\ a.acknowledged = alerts[k].acknowledged
  <2>1. IsAlert(alerts[k])
    BY <1>4 DEF IngestInv, AlertsGood
  <2>. QED
    BY <2>1 DEF IsAlert
<1>. HIDE DEF a, k
<1>5. ASSUME k \in DOMAIN alerts
      PROVE  [of |-> [task |-> a.by, child |-> a.child, target |-> a.target],
              flagged |-> TRUE] \in verdicts
  BY <1>4, <1>5 DEF IngestInv, AlertsGood, AlertWasFlagged
<1>6. AlertsGood' /\ ReviewsKept
  BY <1>1, <1>3, <1>4, <1>5, AlertChanged DEF IngestInv
<1>7. CacheGood'
  BY <1>1 DEF IngestInv, CacheGood
<1>. QED
  BY <1>1, <1>6, <1>7, StoreStepDone

LEMMA StoreStepKeeps ==
  ASSUME IngestInv, StoreStep, UNCHANGED <<streamVars, tasks, children, writing>>
  PROVE  IngestInv' /\ ReviewsKept
<1>1. ASSUME alerts' = alerts, messages' = messages, CacheGood' PROVE IngestInv' /\ ReviewsKept
  <2>1. AlertsGood' /\ ReviewsKept
    BY <1>1, SameAlerts DEF IngestInv, streamVars
  <2>. QED
    BY <1>1, <2>1, StoreStepDone
<1>2. cache' = cache /\ messages' = messages => CacheGood'
  BY DEF IngestInv, CacheGood
<1>3. ASSUME ExpireCache PROVE IngestInv' /\ ReviewsKept
  BY <1>1, <1>3 DEF ExpireCache, CacheGood
<1>4. /\ \A p \in Page : LoadAlerts(p) => IngestInv' /\ ReviewsKept
      /\ \A v \in Viewer :
           ConnectViewer(v) \/ LoseViewer(v) \/ DisconnectViewer(v) => IngestInv' /\ ReviewsKept
  BY <1>1, <1>2 DEF LoadAlerts, ConnectViewer, LoseViewer, DisconnectViewer
<1>5. ASSUME NEW c \in Analyst, NEW i \in DOMAIN alerts, BeginAnalysis(c, i)
      PROVE  IngestInv' /\ ReviewsKept
  <2>1. /\ cache' = {sync_message_cache(Len(messages))}
        /\ messages' = messages /\ alerts' = alerts
    BY <1>5 DEF BeginAnalysis
  <2>2. Holds(sync_message_cache(Len(messages)), Len(messages))
    BY SyncHolds DEF IngestInv
  <2>3. CacheGood'
    BY <2>1, <2>2 DEF CacheGood
  <2>. QED
    BY <1>1, <2>1, <2>3
<1>6. ASSUME NEW call \in analysing, FailAnalysis(call) PROVE IngestInv' /\ ReviewsKept
  BY <1>1, <1>2, <1>6 DEF FailAnalysis
<1>. QED
  BY <1>3, <1>4, <1>5, <1>6, AcknowledgeKeeps, EndAnalysisKeeps DEF StoreStep

-----------------------------------------------------------------------------
LEMMA NextKeeps ==
  ASSUME IngestInv, [Next]_vars
  PROVE  IngestInv' /\ ReviewsKept
<1>1. CASE UNCHANGED vars
  BY <1>1, Untouched DEF vars, storeVars, streamVars
<1>2. ASSUME NEW user \in writing.users, NEW minutes \in writing.minutes,
             process_ingest(user, minutes)
      PROVE  IngestInv' /\ ReviewsKept
  BY <1>2, ProcessKeeps
<1>3. ASSUME NEW t \in Task, TaskGoesOn(t) PROVE IngestInv' /\ ReviewsKept
  BY <1>3, WakeKeeps, EnterLockKeeps, JudgingFailsKeeps, JudgedKeeps, TellKeeps DEF TaskGoesOn
<1>. QED
  BY <1>1, <1>2, <1>3, StreamStepKeeps, StoreStepKeeps DEF Next

(* The invariant the properties below follow from: of the calls that are   *)
(* asked, one has the lock; the cache is what the store holds; answers are *)
(* verdicts on what was asked; alerts rest on them.                        *)
THEOREM IngestInvariant == Spec => []IngestInv
<1>1. IngestInv /\ [Next]_vars => IngestInv'
  BY NextKeeps
<1>. QED
  BY InitInv, <1>1, PTL DEF Spec

(* The table of pending requests holds the request that has the lock and   *)
(* nothing else, however calls fail, time out or lose their socket.        *)
THEOREM PendingIsTheLocksHolder == Spec => []PendingIsAsked
<1>1. IngestInv => PendingIsAsked
  <2>. SUFFICES ASSUME IngestInv PROVE PendingIsAsked
    OBVIOUS
  <2>1. Held(lock, future, pending, tasks)
    BY DEF IngestInv
  <2>2. pending = {r \in Request : future[r] = "waiting"}
    BY <2>1 DEF Held
  <2>3. \A r \in pending : lock # <<>> /\ Head(lock) = r
    BY <2>1, <2>2, HasLock
  <2>. QED
    BY <2>2, <2>3 DEF PendingIsAsked
<1>. QED
  BY IngestInvariant, <1>1, PTL

(* A call of classify returns the classifier's verdict on the conversation *)
(* it asked about, also when an answer to a call that timed out comes late.*)
THEOREM VerdictIsOnesOwn == Spec => []GetsOwnVerdict
<1>1. IngestInv => GetsOwnVerdict
  BY DEF IngestInv, AnswersGood, GetsOwnVerdict
<1>. QED
  BY IngestInvariant, <1>1, PTL

(* There is one alert for a child and another sender, and the classifier   *)
(* flagged the conversation it was last raised for.                        *)
THEOREM AlertsRestOnVerdicts == Spec => []AlertWasFlagged
<1>1. IngestInv => AlertWasFlagged
  BY DEF IngestInv, AlertsGood
<1>. QED
  BY IngestInvariant, <1>1, PTL

(* However the cache expires and whoever fills it, it holds every stored   *)
(* message, in order, and at most one of them twice.                       *)
THEOREM CacheIsTheStore == Spec => []CacheHoldsStore
<1>1. ASSUME IngestInv PROVE CacheHoldsStore
  <2>. SUFFICES ASSUME NEW c \in cache
                PROVE  /\ ToSet(c) = DOMAIN messages
                       /\ Len(c) <= Len(messages) + 1
                       /\ \A i \in 2..Len(c) : c[i - 1] <= c[i]
    BY DEF CacheHoldsStore
  <2>1. Holds(c, Len(messages)) /\ DOMAIN messages = 1..Len(messages)
    BY <1>1, StoredCount DEF IngestInv, CacheGood
  <2>2. c \in Seq(1..Len(messages)) /\ DOMAIN c = 1..Len(c)
    BY <2>1 DEF Holds
  <2>3. ToSet(c) = 1..Len(messages)
    <3>1. \A i \in 1..Len(c) : c[i] \in 1..Len(messages)
      BY <2>2
    <3>2. \A n \in 1..Len(messages) : \E i \in 1..Len(c) : c[i] = n
      BY <2>1 DEF Holds
    <3>3. ToSet(c) = {c[i] : i \in 1..Len(c)}
      BY <2>2 DEF ToSet
    <3>. QED
      BY <3>1, <3>2, <3>3
  <2>. QED
    BY <2>1, <2>3 DEF Holds
<1>. QED
  BY IngestInvariant, <1>1, PTL

(* An alert that a parent reviewed stays reviewed, whatever ingests,       *)
(* analyses and other requests write at the same time.                     *)
THEOREM ReviewsAreKept == Spec => NoLostReview
<1>1. IngestInv /\ [Next]_vars =>
        [\A i \in DOMAIN alerts : alerts[i].acknowledged => alerts'[i].acknowledged]_vars
  BY NextKeeps DEF ReviewsKept
<1>. QED
  BY IngestInvariant, <1>1, PTL DEF Spec, NoLostReview

-----------------------------------------------------------------------------
(* What is judged. *)

\* The positions of one sender's messages in a collection, and their numbers.
Places(log, collection, user) == {i \in DOMAIN collection : log[collection[i]].user = user}
Written(log, count, users) == {n \in 1..count : log[n].user \in users}

LEMMA HoldsTypes ==
  ASSUME NEW count \in Nat, NEW collection, Holds(collection, count)
  PROVE  /\ collection \in Seq(1..count) /\ Len(collection) \in Nat
         /\ DOMAIN collection = 1..Len(collection)
         /\ \A i \in DOMAIN collection : collection[i] \in 1..count
<1>1. collection \in Seq(1..count)
  BY DEF Holds
<1>. QED
  BY <1>1

\* One sender's messages in a collection that holds the store.
LEMMA ChatHolds ==
  ASSUME NEW count \in Nat, NEW collection, Holds(collection, count), NEW log, NEW user
  PROVE  /\ ChatOf(log, collection, user) \in Seq(1..count)
         /\ Len(ChatOf(log, collection, user)) = Cardinality(Places(log, collection, user))
         /\ ToSet(ChatOf(log, collection, user)) = Written(log, count, {user})
<1>. DEFINE kept == Places(log, collection, user)
            chat == ChatOf(log, collection, user)
<1>1. /\ collection \in Seq(1..count) /\ kept \in SUBSET DOMAIN collection
      /\ \A i \in DOMAIN collection : collection[i] \in 1..count
  BY HoldsTypes DEF Places
<1>2. chat = Sublist(collection, kept)
  BY DEF ChatOf, Places
<1>3. \A i \in kept : i \in DOMAIN collection /\ log[collection[i]].user = user
  BY DEF Places
<1>. HIDE DEF chat
<1>4. \A n \in 1..count : \E i \in DOMAIN collection : collection[i] = n
  BY HoldsTypes DEF Holds
<1>5. \A i \in DOMAIN collection : log[collection[i]].user = user => i \in kept
  BY DEF Places
<1>. HIDE DEF kept
<1>6. chat \in Seq(1..count) /\ Len(chat) = Cardinality(kept)
  BY <1>1, <1>2, SublistItems
<1>7. \A n \in DOMAIN chat : \E i \in kept : chat[n] = collection[i]
  BY <1>1, <1>2, SublistItems
<1>8. \A i \in kept : \E n \in DOMAIN chat : chat[n] = collection[i]
  BY <1>1, <1>2, SublistKeeps
<1>9. ASSUME NEW n \in DOMAIN chat PROVE chat[n] \in Written(log, count, {user})
  <2>1. PICK i \in kept : chat[n] = collection[i]
    BY <1>7
  <2>. QED
    BY <1>1, <1>3, <2>1 DEF Written
<1>10. ASSUME NEW n \in Written(log, count, {user}) PROVE \E i \in DOMAIN chat : chat[i] = n
  <2>1. n \in 1..count /\ log[n].user = user
    BY DEF Written
  <2>2. PICK i \in DOMAIN collection : collection[i] = n
    BY <1>4, <2>1
  <2>3. i \in kept
    BY <1>5, <2>1, <2>2
  <2>. QED
    BY <1>8, <2>2, <2>3
<1>11. ToSet(chat) = Written(log, count, {user})
  BY <1>9, <1>10 DEF ToSet
<1>. QED
  BY <1>6, <1>11 DEF chat, kept

\* Where one list is put before another.
LEMMA Joined ==
  ASSUME NEW S, NEW a \in Seq(S), NEW b \in Seq(S)
  PROVE  /\ a \o b \in Seq(S) /\ Len(a \o b) = Len(a) + Len(b)
         /\ ToSet(a \o b) = ToSet(a) \cup ToSet(b)
<1>. DEFINE both == a \o b
<1>1. both \in Seq(S) /\ Len(both) = Len(a) + Len(b) /\ Len(a) \in Nat /\ Len(b) \in Nat
  OBVIOUS
<1>2. /\ \A i \in 1..Len(a) : both[i] = a[i]
      /\ \A i \in 1..Len(b) : both[Len(a) + i] = b[i]
  OBVIOUS
<1>3. DOMAIN a = 1..Len(a) /\ DOMAIN b = 1..Len(b) /\ DOMAIN both = 1..Len(both)
  BY <1>1
<1>. HIDE DEF both
<1>4. ASSUME NEW i \in DOMAIN both PROVE both[i] \in ToSet(a) \cup ToSet(b)
  <2>1. CASE i \in 1..Len(a)
    BY <1>2, <1>3, <2>1 DEF ToSet
  <2>2. CASE i \notin 1..Len(a)
    <3>1. i - Len(a) \in 1..Len(b) /\ i = Len(a) + (i - Len(a))
      BY <1>1, <1>3, <2>2
    <3>2. both[i] = b[i - Len(a)]
      BY <1>2, <3>1
    <3>. QED
      BY <1>3, <3>1, <3>2 DEF ToSet
  <2>. QED
    BY <2>1, <2>2
<1>5. ASSUME NEW i \in DOMAIN a PROVE \E k \in DOMAIN both : both[k] = a[i]
  <2>1. i \in 1..Len(a) /\ i \in DOMAIN both
    BY <1>1, <1>3
  <2>. QED
    BY <1>2, <2>1
<1>6. ASSUME NEW i \in DOMAIN b PROVE \E k \in DOMAIN both : both[k] = b[i]
  <2>1. i \in 1..Len(b) /\ Len(a) + i \in DOMAIN both
    BY <1>1, <1>3
  <2>. QED
    BY <1>2, <2>1
<1>7. ToSet(both) = ToSet(a) \cup ToSet(b)
  BY <1>4, <1>5, <1>6 DEF ToSet
<1>. QED
  BY <1>1, <1>7 DEF both

\* A conversation is all that its two senders wrote, in numbers.
LEMMA ConversationHolds ==
  ASSUME NEW count \in Nat, NEW collection, Holds(collection, count), NEW log,
         NEW child, NEW target, child # target
  PROVE  /\ conversation(log, collection, child, target) \in Seq(1..count)
         /\ ToSet(conversation(log, collection, child, target))
              = Written(log, count, {child, target})
         /\ Len(conversation(log, collection, child, target))
              <= Cardinality(Written(log, count, {child, target})) + 1
<1>. DEFINE a == ChatOf(log, collection, target)
            b == ChatOf(log, collection, child)
            both == a \o b
            talk == conversation(log, collection, child, target)
            P == Places(log, collection, target)
            Q == Places(log, collection, child)
            theirs == Written(log, count, {child, target})
<1>1. /\ a \in Seq(1..count) /\ Len(a) = Cardinality(P)
      /\ ToSet(a) = Written(log, count, {target})
  BY ChatHolds
<1>2. /\ b \in Seq(1..count) /\ Len(b) = Cardinality(Q)
      /\ ToSet(b) = Written(log, count, {child})
  BY ChatHolds
<1>3. talk = Sorted(both)
  BY DEF conversation
<1>. HIDE DEF a, b, talk
<1>4. /\ both \in Seq(1..count) /\ Len(both) = Len(a) + Len(b)
      /\ ToSet(both) = ToSet(a) \cup ToSet(b)
  <2>1. a \in Seq(1..count) /\ b \in Seq(1..count)
    BY <1>1, <1>2
  <2>. QED
    BY <2>1, Joined
<1>. HIDE DEF both
<1>5. talk \in Seq(1..count) /\ Len(talk) = Len(both) /\ ToSet(talk) = ToSet(both)
  <2>1. 1..count \in SUBSET Nat
    OBVIOUS
  <2>2. /\ Sorted(both) \in Seq(1..count) /\ Len(Sorted(both)) = Len(both)
        /\ {Sorted(both)[n] : n \in DOMAIN both} = {both[i] : i \in DOMAIN both}
    BY <1>4, <2>1, SortedItems
  <2>3. DOMAIN talk = DOMAIN both
    BY <1>3, <1>4, <2>2
  <2>. QED
    BY <1>3, <2>2, <2>3 DEF ToSet
<1>6. Written(log, count, {target}) \cup Written(log, count, {child}) = theirs
  BY DEF Written
<1>7. Cardinality(P) + Cardinality(Q) <= Cardinality(theirs) + 1
  <2>. DEFINE D == DOMAIN collection
              others == (1..count) \ theirs
              rest == D \ (P \cup Q)
  <2>1. /\ D = 1..Len(collection) /\ Len(collection) \in Nat /\ Len(collection) <= count + 1
        /\ \A i \in D : collection[i] \in 1..count
        /\ \A n \in 1..count : \E i \in D : collection[i] = n
    BY HoldsTypes DEF Holds
  <2>2. IsFiniteSet(D) /\ Cardinality(D) = Len(collection)
    <3>1. collection \in Seq(1..count)
      BY HoldsTypes
    <3>. HIDE DEF P, Q, D, theirs
    <3>. QED
      BY <3>1, FiniteDomain DEF D
  <2>3. P \subseteq D /\ Q \subseteq D /\ P \cap Q = {}
    BY DEF Places
  <2>4. IsFiniteSet(1..count) /\ Cardinality(1..count) = count
    BY FS_Interval
  <2>5. theirs \subseteq 1..count
    BY DEF Written
  <2>6. \A i \in D : i \in P \cup Q <=> log[collection[i]].user \in {child, target}
    BY DEF Places
  <2>7. \A n \in 1..count : n \in theirs <=> log[n].user \in {child, target}
    BY DEF Written
  <2>. HIDE DEF P, Q, theirs, D
  <2>8. IsFiniteSet(P) /\ IsFiniteSet(Q)
    BY <2>2, <2>3, FS_Subset
  <2>9. /\ IsFiniteSet(P \cup Q)
        /\ Cardinality(P \cup Q) = Cardinality(P) + Cardinality(Q) - Cardinality(P \cap Q)
    BY <2>8, FS_Union
  <2>10. Cardinality(P \cap Q) = 0
    BY <2>3, FS_EmptySet
  <2>11. IsFiniteSet(rest) /\ Cardinality(rest) = Cardinality(D) - Cardinality(P \cup Q)
    <3>. DEFINE ours == P \cup Q
    <3>1. D \cap ours = ours
      BY <2>3
    <3>. HIDE DEF ours
    <3>2. IsFiniteSet(D \ ours) /\ Cardinality(D \ ours) = Cardinality(D) - Cardinality(D \cap ours)
      BY <2>2, FS_Difference
    <3>3. Cardinality(D \cap ours) = Cardinality(ours)
      BY <3>1
    <3>. QED
      BY <3>2, <3>3 DEF ours
  <2>12. IsFiniteSet(others) /\ Cardinality(others) = count - Cardinality(theirs)
    <3>1. (1..count) \cap theirs = theirs
      BY <2>5
    <3>. QED
      BY <2>4, <3>1, FS_Difference
  <2>13. Cardinality(others) <= Cardinality(rest)
    <3>. DEFINE f == [i \in rest |-> collection[i]]
    <3>1. \A i \in rest : collection[i] \in others
      BY <2>1, <2>6, <2>7
    <3>2. \A n \in others : \E i \in rest : collection[i] = n
      BY <2>1, <2>6, <2>7
    <3>. HIDE DEF rest, others
    <3>3. f \in Surjection(rest, others)
      BY <3>1, <3>2 DEF Surjection
    <3>. QED
      BY <2>11, <3>3, FS_Surjection
  <2>14. /\ Cardinality(P) \in Nat /\ Cardinality(Q) \in Nat /\ Cardinality(theirs) \in Nat
         /\ Cardinality(P \cup Q) \in Nat
    BY <2>4, <2>5, <2>8, <2>9, FS_Subset, FS_CardinalityType
  <2>. QED
    BY <2>1, <2>2, <2>9, <2>10, <2>11, <2>12, <2>13, <2>14
<1>. QED
  BY <1>1, <1>2, <1>4, <1>5, <1>6, <1>7 DEF talk

-----------------------------------------------------------------------------
(* The tasks and what they judge. *)

Work(s) == s.todo \cup (IF s.pc \in Running THEN {s.current} ELSE {})

\* A judgement of all that its pair wrote up to a message.
Whole(j, log, count) ==
  LET theirs == Written(log, count, {j.child, j.target})
  IN /\ j \in Judgement
     /\ ToSet(j.talk) = theirs /\ Len(j.talk) <= Cardinality(theirs) + 1

TaskGood(s) ==
  /\ s \in TaskState
  /\ s.pc = "none" => s = Idle
  /\ s.pc = "connecting" => s.tries # 0
  /\ s.pc \in Running => s.current \in Judgement
  /\ s.pc \notin Running => s.current = None
  /\ s.pc = "telling" => s.audience # <<>>
  /\ s.alert # 0 => s.pc = "telling"

TasksFine ==
  /\ tasks = [t \in Task |-> tasks[t]]
  /\ \A t \in Task :
       TaskGood(tasks[t]) /\ \A j \in Work(tasks[t]) : Whole(j, messages, t)

LEMMA JudgementsWhole ==
  ASSUME NEW log \in Seq(Stored), Len(log) \in Task, NEW collection,
         Holds(collection, Len(log)), children \in Seq(DOMAIN ParentOf)
  PROVE  \A j \in Judgements(log, collection) : Whole(j, log, Len(log))
<1>. DEFINE n == Len(log)
            users == {log[collection[i]].user : i \in DOMAIN collection}
            judgement(pair) == [child |-> pair[1], target |-> pair[2],
                                talk |-> conversation(log, collection, pair[1], pair[2])]
<1>. SUFFICES ASSUME NEW j \in Judgements(log, collection) PROVE Whole(j, log, n)
  OBVIOUS
<1>1. n \in Nat /\ 1..n \subseteq Task
  BY IngestAssumption DEF Task
<1>2. collection \in Seq(1..n)
  BY DEF Holds
<1>3. IsPair(j)
  BY <1>2, JudgementsArePairs
<1>4. PICK pair \in (ToSet(children) \cap users) \X users :
        pair[1] # pair[2] /\ j = judgement(pair) /\ Len(j.talk) >= MinMessages
  BY DEF Judgements
<1>. HIDE DEF users, judgement
<1>5. PICK child, target : /\ child # target /\ j.child = child /\ j.target = target
                           /\ j.talk = conversation(log, collection, child, target)
                           /\ j = [child |-> child, target |-> target, talk |-> j.talk]
                           /\ Len(j.talk) >= MinMessages
  BY <1>4 DEF judgement
<1>. DEFINE theirs == Written(log, n, {child, target})
<1>6. /\ j.talk \in Seq(1..n) /\ ToSet(j.talk) = theirs
      /\ Len(j.talk) <= Cardinality(theirs) + 1
  BY <1>1, <1>5, ConversationHolds
<1>. HIDE DEF theirs
<1>7. j.talk \in Seq(Task)
  <2>1. Len(j.talk) \in Nat
    BY <1>6
  <2>. QED
    BY <1>1, <1>6, <2>1, WiderSeq
<1>8. j \in Judgement
  BY <1>3, <1>5, <1>7 DEF IsPair, Judgement
<1>. QED
  BY <1>5, <1>6, <1>8 DEF Whole, theirs

\* Messages are stored for good.
LEMMA MessagesGrow ==
  ASSUME IngestInv, [Next]_vars
  PROVE  /\ messages \in Seq(Stored) /\ Len(messages) \in Nat
         /\ messages' \in Seq(Stored) /\ Len(messages') \in Nat
         /\ Len(messages) <= Len(messages')
         /\ \A n \in 1..Len(messages) : messages'[n] = messages[n]
<1>1. /\ messages \in Seq(Stored) /\ Len(messages) \in Nat
      /\ messages' \in Seq(Stored) /\ Len(messages') \in Nat
  <2>1. IngestInv'
    BY NextKeeps
  <2>2. messages \in Seq(Stored) /\ messages' \in Seq(Stored)
    BY <2>1 DEF IngestInv, StoreGood
  <2>. QED
    BY <2>2
<1>2. CASE messages' = messages
  BY <1>1, <1>2
<1>3. CASE \E m : messages' = Append(messages, m)
  BY <1>1, <1>3
<1>4. messages' = messages \/ \E m : messages' = Append(messages, m)
  <2>1. CASE UNCHANGED vars
    BY <2>1 DEF vars, storeVars
  <2>2. ASSUME NEW user \in writing.users, NEW minutes \in writing.minutes,
               process_ingest(user, minutes)
        PROVE  \E m : messages' = Append(messages, m)
    BY <2>2 DEF process_ingest
  <2>3. ASSUME NEW t \in Task, TaskGoesOn(t) PROVE messages' = messages
    BY <2>3 DEF TaskGoesOn, Wake, EnterLock, JudgingFails, Judged, Tell, storeVars
  <2>4. CASE UNCHANGED storeVars
    BY <2>4 DEF storeVars
  <2>5. CASE StoreStep
    BY <2>5 DEF StoreStep, ExpireCache, acknowledge_alert, LoadAlerts, ConnectViewer,
                LoseViewer, DisconnectViewer, BeginAnalysis, EndAnalysis, FailAnalysis
  <2>. QED
    BY <2>1, <2>2, <2>3, <2>4, <2>5 DEF Next
<1>. QED
  BY <1>2, <1>3, <1>4

LEMMA WholeForGood ==
  ASSUME IngestInv, [Next]_vars, NEW j, NEW t \in Nat, t <= Len(messages),
         Whole(j, messages, t)
  PROVE  Whole(j, messages', t)
<1>1. \A n \in 1..t : messages'[n] = messages[n]
  BY MessagesGrow
<1>2. Written(messages', t, {j.child, j.target}) = Written(messages, t, {j.child, j.target})
  BY <1>1 DEF Written
<1>. QED
  BY <1>2 DEF Whole

LEMMA TaskNumber == ASSUME NEW t \in Task PROVE t \in Nat
  BY DEF Task

LEMMA BecomeFine ==
  ASSUME IngestInv, [Next]_vars, TasksFine, NEW t \in Task,
         NEW state, TaskGood(state), \A j \in Work(state) : Whole(j, messages', t),
         Become(t, state)
  PROVE  TasksFine'
<1>1. tasks' = [u \in Task |-> tasks'[u]] /\ tasks'[t] = state
  BY DEF TasksFine, Become
<1>2. \A u \in Task : u # t => tasks'[u] = tasks[u]
  BY DEF TasksFine, Become
<1>3. ASSUME NEW u \in Task, u # t
      PROVE  TaskGood(tasks'[u]) /\ \A j \in Work(tasks'[u]) : Whole(j, messages', u)
  <2>1. tasks'[u] = tasks[u] /\ TaskGood(tasks[u]) /\ u \in Nat
    BY <1>2, <1>3, TaskNumber DEF TasksFine
  <2>2. ASSUME NEW j \in Work(tasks[u]) PROVE Whole(j, messages', u)
    <3>1. tasks[u].pc # "none"
      BY <2>1 DEF TaskGood, Work, Idle, Running
    <3>2. u <= Len(messages)
      BY <3>1, TaskStored
    <3>. QED
      BY <2>1, <3>2, WholeForGood DEF TasksFine
  <2>. QED
    BY <2>1, <2>2
<1>. QED
  BY <1>1, <1>3 DEF TasksFine

-----------------------------------------------------------------------------
(* The alerts, their records, and the calls of the model. *)

AlertsFine ==
  /\ alerts \in Seq(Alert) /\ analyses \in Seq(Record) /\ Len(analyses) = Len(alerts)
  /\ \A i \in 1..Len(alerts) : alerts[i].by \in 1..Len(messages)
  /\ \A call \in analysing : call \in Analysing /\ call.alert \in 1..Len(alerts)

\* The alerts and records after a step that starts no analysis.
LEMMA AlertsGrow ==
  ASSUME AlertsFine, analysing' \subseteq analysing,
         alerts' \in Seq(Alert), analyses' \in Seq(Record), Len(analyses') = Len(alerts'),
         Len(alerts) <= Len(alerts'),
         \A i \in 1..Len(alerts') : alerts'[i].by \in 1..Len(messages')
  PROVE  AlertsFine'
<1>1. Len(alerts) \in Nat /\ Len(alerts') \in Nat
  <2>1. alerts \in Seq(Alert)
    BY DEF AlertsFine
  <2>. QED
    BY <2>1
<1>2. 1..Len(alerts) \subseteq 1..Len(alerts')
  BY <1>1
<1>3. \A call \in analysing' : call \in Analysing /\ call.alert \in 1..Len(alerts')
  BY <1>2 DEF AlertsFine
<1>. QED
  BY <1>3 DEF AlertsFine

LEMMA AlertsSame ==
  ASSUME IngestInv, [Next]_vars, AlertsFine, analysing' \subseteq analysing,
         alerts' = alerts, analyses' = analyses
  PROVE  AlertsFine'
<1>1. alerts \in Seq(Alert)
  BY DEF AlertsFine
<1>2. Len(alerts) \in Nat
  BY <1>1
<1>3. Len(messages) \in Nat /\ Len(messages') \in Nat /\ Len(messages) <= Len(messages')
  BY MessagesGrow
<1>4. \A i \in 1..Len(alerts) : alerts[i].by \in 1..Len(messages')
  BY <1>3 DEF AlertsFine
<1>. QED
  BY <1>2, <1>4, AlertsGrow DEF AlertsFine

\* The alert a judgement is raised as: the one there is for its pair, or a new one.
LEMMA RaisedAlert ==
  ASSUME AlertsGood, alerts \in Seq(Alert), NEW pair \in Judgement, NEW t \in Nat,
         NEW k, k = RaisedIndex(pair), NEW then, then = upsert_alert(pair, t)
  PROVE  /\ then \in Seq(Alert) /\ Len(alerts) \in Nat /\ k \in 1..Len(then)
         /\ \/ k \in 1..Len(alerts) /\ Len(then) = Len(alerts)
            \/ k = Len(alerts) + 1 /\ Len(then) = Len(alerts) + 1
         /\ \A i \in 1..Len(alerts) : i # k => then[i] = alerts[i]
         /\ k \in 1..Len(alerts) =>
              alerts[k].child = pair.child /\ alerts[k].target = pair.target
         /\ then[k].child = pair.child /\ then[k].target = pair.target /\ then[k].by = t
<1>1. Len(alerts) \in Nat /\ DOMAIN alerts = 1..Len(alerts)
  OBVIOUS
<1>2. CASE IndexOf(pair) # {}
  <2>1. PICK i : i \in IndexOf(pair)
    BY <1>2
  <2>2. i \in DOMAIN alerts /\ alerts[i].child = pair.child /\ alerts[i].target = pair.target
    BY <2>1 DEF IndexOf
  <2>3. IndexOf(pair) = {i} /\ i \in Int
    BY <1>1, <2>2 DEF IndexOf, AlertsGood, AlertWasFlagged
  <2>4. Max(IndexOf(pair)) = i
    BY <2>3 DEF Max
  <2>5. k = i
    BY <1>2, <2>4 DEF RaisedIndex
  <2>. DEFINE a == [alerts[k] EXCEPT !.by = t]
  <2>6. then = [alerts EXCEPT ![k] = a]
    BY <1>2, <2>4, <2>5 DEF upsert_alert
  <2>7. alerts[k] \in Alert
    BY <2>2, <2>5
  <2>8. a \in Alert /\ a.child = alerts[k].child /\ a.target = alerts[k].target /\ a.by = t
    BY <2>7 DEF Alert
  <2>. HIDE DEF a
  <2>9. /\ then \in Seq(Alert) /\ Len(then) = Len(alerts)
        /\ \A j \in 1..Len(alerts) : then[j] = IF j = k THEN a ELSE alerts[j]
    <3>1. a \in Alert
      BY <2>8
    <3>2. then \in Seq(Alert)
      BY <2>6, <3>1, ItemChanged
    <3>3. Len(then) = Len(alerts)
      BY <2>6, <3>1, ItemChanged
    <3>4. \A j \in 1..Len(alerts) : then[j] = IF j = k THEN a ELSE alerts[j]
      BY <2>6, <3>1, ItemChanged
    <3>. QED
      BY <3>2, <3>3, <3>4
  <2>10. k \in 1..Len(alerts)
    BY <1>1, <2>2, <2>5
  <2>11. k \in 1..Len(then) /\ then[k] = a
    BY <2>9, <2>10
  <2>12. alerts[k].child = pair.child /\ alerts[k].target = pair.target
    BY <2>2, <2>5
  <2>13. \A j \in 1..Len(alerts) : j # k => then[j] = alerts[j]
    BY <2>9
  <2>14. then[k].child = pair.child /\ then[k].target = pair.target /\ then[k].by = t
    BY <2>8, <2>11, <2>12
  <2>. QED
    BY <1>1, <2>9, <2>10, <2>11, <2>12, <2>13, <2>14
<1>3. CASE IndexOf(pair) = {}
  <2>1. k = Len(alerts) + 1
    BY <1>3 DEF RaisedIndex
  <2>. DEFINE a == [child |-> pair.child, target |-> pair.target, by |-> t,
                    acknowledged |-> FALSE, stages |-> <<>>]
  <2>2. then = Append(alerts, a)
    BY <1>3 DEF upsert_alert
  <2>3. a \in Alert /\ a.child = pair.child /\ a.target = pair.target /\ a.by = t
    BY DEF Alert, Judgement
  <2>. HIDE DEF a
  <2>4. /\ then \in Seq(Alert) /\ Len(then) = Len(alerts) + 1
        /\ \A i \in 1..Len(alerts) : then[i] = alerts[i]
        /\ then[Len(alerts) + 1] = a
    BY <2>2, <2>3, ItemAppended
  <2>. QED
    BY <1>1, <2>1, <2>3, <2>4
<1>. QED
  BY <1>2, <1>3

LEMMA RaisedRecord ==
  ASSUME analyses \in Seq(Record), NEW k \in 1..Len(analyses) + 1, NEW count \in Nat,
         NEW then, then = upsert_analysis(k, count)
  PROVE  /\ then \in Seq(Record) /\ Len(analyses) \in Nat
         /\ Len(then) = IF k \in 1..Len(analyses) THEN Len(analyses) ELSE k
<1>1. Len(analyses) \in Nat /\ DOMAIN analyses = 1..Len(analyses)
  OBVIOUS
<1>2. CASE k \in 1..Len(analyses)
  <2>1. then = analyses
    BY <1>1, <1>2 DEF upsert_analysis
  <2>. QED
    BY <1>1, <1>2, <2>1
<1>3. CASE k \notin 1..Len(analyses)
  <2>. DEFINE a == [stages |-> <<>>, processed |-> 0, unprocessed |-> count]
  <2>1. k = Len(analyses) + 1
    BY <1>1, <1>3
  <2>2. then = Append(analyses, a)
    BY <1>1, <1>3 DEF upsert_analysis
  <2>3. a \in Record
    BY DEF Record
  <2>. HIDE DEF a
  <2>4. then \in Seq(Record) /\ Len(then) = Len(analyses) + 1
    BY <2>2, <2>3, ItemAppended
  <2>. QED
    BY <1>1, <1>3, <2>1, <2>4
<1>. QED
  BY <1>2, <1>3

LEMMA Counted ==
  ASSUME NEW records \in Seq(Record), NEW k, NEW then,
         then = increment_unprocessed_count(records, k)
  PROVE  then \in Seq(Record) /\ Len(then) = Len(records)
<1>. DEFINE a == [records[k] EXCEPT !.unprocessed = @ + 1]
<1>1. then = [records EXCEPT ![k] = a]
  BY DEF increment_unprocessed_count
<1>2. ASSUME k \in DOMAIN records PROVE a \in Record
  <2>1. records[k] \in Record
    BY <1>2
  <2>2. records[k].unprocessed + 1 \in Nat
    <3>1. records[k].unprocessed \in Nat
      BY <2>1 DEF Record
    <3>. QED
      BY <3>1
  <2>3. a = [records[k] EXCEPT !.unprocessed = records[k].unprocessed + 1]
    OBVIOUS
  <2>. HIDE DEF a
  <2>. QED
    BY <2>1, <2>2, <2>3 DEF Record
<1>. HIDE DEF a
<1>3. then \in Seq(Record)
  BY <1>1, <1>2, ItemChanged
<1>4. Len(then) = Len(records)
  BY <1>1, <1>2, ItemChanged
<1>. QED
  BY <1>3, <1>4

\* What Judged raises: it changes the alert of its pair and that one's record.
LEMMA JudgedRaises ==
  ASSUME IngestInv, TasksFine, AlertsFine, NEW t \in Task, Judged(t), Flagged(Current(t)),
         NEW pair, pair = tasks[t].current, NEW k, k = RaisedIndex(pair)
  PROVE  /\ pair \in Judgement /\ pair.talk \in Seq(Task) /\ t \in 1..Len(messages)
         /\ alerts' = upsert_alert(pair, t)
         /\ \/ analyses' = upsert_analysis(k, Len(pair.talk))
            \/ analyses' = increment_unprocessed_count(upsert_analysis(k, Len(pair.talk)), k)
<1>1. tasks[t].pc = "judging"
  BY DEF Judged
<1>2. t <= Len(messages) /\ t \in Nat /\ t # 0 /\ Len(messages) \in Nat
  BY <1>1, TaskStored DEF Task
<1>3. pair \in Judgement
  BY <1>1 DEF TasksFine, TaskGood, Running
<1>4. pair.talk \in Seq(Task)
  BY <1>3 DEF Judgement
<1>5. /\ alerts' = upsert_alert(pair, t)
      /\ \/ analyses' = upsert_analysis(k, Len(pair.talk))
         \/ analyses' = increment_unprocessed_count(upsert_analysis(k, Len(pair.talk)), k)
  BY DEF Judged
<1>6. t \in 1..Len(messages)
  BY <1>2
<1>. QED
  BY <1>3, <1>4, <1>5, <1>6

LEMMA JudgedFine ==
  ASSUME IngestInv, [Next]_vars, TasksFine, AlertsFine, NEW t \in Task, Judged(t)
  PROVE  AlertsFine'
<1>1. analysing' = analysing
  BY DEF Judged
<1>2. CASE alerts' = alerts /\ analyses' = analyses
  BY <1>1, <1>2, AlertsSame
<1>3. CASE Flagged(Current(t))
  <2>. DEFINE pair == tasks[t].current
              k == RaisedIndex(pair)
              raised == upsert_analysis(k, Len(pair.talk))
  <2>1. /\ pair \in Judgement /\ pair.talk \in Seq(Task) /\ t \in 1..Len(messages)
        /\ alerts' = upsert_alert(pair, t)
        /\ \/ analyses' = raised
           \/ analyses' = increment_unprocessed_count(raised, k)
    BY <1>3, JudgedRaises
  <2>2. t \in Nat /\ Len(pair.talk) \in Nat
    BY <2>1, TaskNumber
  <2>3. /\ alerts \in Seq(Alert) /\ analyses \in Seq(Record) /\ Len(analyses) = Len(alerts)
        /\ AlertsGood
    BY DEF AlertsFine, IngestInv
  <2>. HIDE DEF raised, pair
  <2>4. /\ alerts' \in Seq(Alert) /\ Len(alerts) \in Nat /\ k \in 1..Len(alerts')
        /\ \/ k \in 1..Len(alerts) /\ Len(alerts') = Len(alerts)
           \/ k = Len(alerts) + 1 /\ Len(alerts') = Len(alerts) + 1
        /\ \A i \in 1..Len(alerts) : i # k => alerts'[i] = alerts[i]
        /\ alerts'[k].by = t
    BY <2>1, <2>2, <2>3, RaisedAlert
  <2>. HIDE DEF k
  <2>5. k \in 1..Len(analyses) + 1
    BY <2>3, <2>4
  <2>6. raised \in Seq(Record) /\ Len(raised) = Len(alerts')
    <3>1. raised = upsert_analysis(k, Len(pair.talk))
      BY DEF raised
    <3>2. /\ raised \in Seq(Record) /\ Len(analyses) \in Nat
          /\ Len(raised) = IF k \in 1..Len(analyses) THEN Len(analyses) ELSE k
      BY <2>2, <2>3, <2>5, <3>1, RaisedRecord
    <3>. QED
      BY <2>3, <2>4, <3>2
  <2>7. analyses' \in Seq(Record) /\ Len(analyses') = Len(alerts')
    <3>1. CASE analyses' = raised
      BY <2>6, <3>1
    <3>2. CASE analyses' = increment_unprocessed_count(raised, k)
      BY <2>6, <3>2, Counted
    <3>. QED
      BY <2>1, <3>1, <3>2
  <2>8. Len(messages) \in Nat /\ Len(messages') \in Nat /\ Len(messages) <= Len(messages')
    BY MessagesGrow
  <2>9. ASSUME NEW i \in 1..Len(alerts') PROVE alerts'[i].by \in 1..Len(messages')
    <3>1. CASE i = k
      BY <2>1, <2>4, <2>8, <3>1
    <3>2. CASE i # k
      <4>1. i \in 1..Len(alerts) /\ alerts'[i] = alerts[i]
        BY <2>4, <3>2
      <4>. QED
        BY <2>8, <4>1 DEF AlertsFine
    <3>. QED
      BY <3>1, <3>2
  <2>10. Len(alerts) <= Len(alerts')
    BY <2>4
  <2>. QED
    BY <1>1, <2>4, <2>7, <2>9, <2>10, AlertsGrow
<1>. QED
  BY <1>2, <1>3 DEF Judged

LEMMA AcknowledgeFine ==
  ASSUME IngestInv, [Next]_vars, AlertsFine, NEW i \in DOMAIN alerts, acknowledge_alert(i)
  PROVE  AlertsFine'
<1>. DEFINE a == [alerts[i] EXCEPT !.acknowledged = TRUE]
<1>1. alerts' = [alerts EXCEPT ![i] = a] /\ UNCHANGED <<analyses, analysing>>
  BY DEF acknowledge_alert
<1>2. alerts \in Seq(Alert) /\ alerts[i] \in Alert
  BY DEF AlertsFine
<1>3. a \in Alert /\ a.by = alerts[i].by
  BY <1>2 DEF Alert
<1>. HIDE DEF a
<1>4. alerts' \in Seq(Alert) /\ Len(alerts) \in Nat
  BY <1>1, <1>2, <1>3, ItemChanged
<1>5. Len(alerts') = Len(alerts)
  BY <1>1, <1>2, <1>3, ItemChanged
<1>6. \A j \in 1..Len(alerts) : alerts'[j] = IF j = i THEN a ELSE alerts[j]
  BY <1>1, <1>2, <1>3, ItemChanged
<1>7. Len(messages) \in Nat /\ Len(messages') \in Nat /\ Len(messages) <= Len(messages')
  BY MessagesGrow
<1>8. \A j \in 1..Len(alerts) : alerts'[j].by \in 1..Len(messages')
  <2>1. \A j \in 1..Len(alerts) : alerts[j].by \in 1..Len(messages')
    BY <1>7 DEF AlertsFine
  <2>2. \A j \in 1..Len(alerts) : alerts'[j].by = alerts[j].by
    BY <1>3, <1>6
  <2>. QED
    BY <2>1, <2>2
<1>9. analysing' \subseteq analysing /\ Len(analyses') = Len(alerts') /\ analyses' \in Seq(Record)
  BY <1>1, <1>5 DEF AlertsFine
<1>. QED
  BY <1>4, <1>5, <1>8, <1>9, AlertsGrow

LEMMA TellFine ==
  ASSUME IngestInv, [Next]_vars, AlertsFine, NEW t \in Task, Tell(t)
  PROVE  AlertsFine'
<1>1. /\ alerts' = alerts /\ analysing' = analysing
      /\ analyses' = analyses \/ \E k : analyses' = increment_unprocessed_count(analyses, k)
  BY DEF Tell
<1>2. CASE analyses' = analyses
  BY <1>1, <1>2, AlertsSame
<1>3. CASE \E k : analyses' = increment_unprocessed_count(analyses, k)
  <2>1. analyses \in Seq(Record) /\ Len(analyses) = Len(alerts) /\ alerts \in Seq(Alert)
    BY DEF AlertsFine
  <2>2. analyses' \in Seq(Record) /\ Len(analyses') = Len(alerts)
    BY <1>3, <2>1, Counted
  <2>3. Len(messages) \in Nat /\ Len(messages') \in Nat /\ Len(messages) <= Len(messages')
    BY MessagesGrow
  <2>4. \A j \in 1..Len(alerts) : alerts[j].by \in 1..Len(messages')
    BY <2>3 DEF AlertsFine
  <2>5. Len(alerts) \in Nat
    BY <2>1
  <2>. QED
    BY <1>1, <2>1, <2>2, <2>4, <2>5, AlertsGrow
<1>. QED
  BY <1>1, <1>2, <1>3

\* What is left of a sequence from a position on, if there is any.
LEMMA RestItems ==
  ASSUME NEW S, NEW list \in Seq(S), NEW m \in Nat \ {0}
  PROVE  SubSeq(list, m, Len(list)) \in Seq(S)
<1>1. Len(list) \in Nat
  OBVIOUS
<1>2. CASE m <= Len(list) + 1
  <2>1. m \in 1..Len(list) + 1 /\ Len(list) \in m - 1..Len(list)
    BY <1>1, <1>2
  <2>. QED
    BY <2>1, PartItems
<1>3. CASE m > Len(list) + 1
  <2>1. SubSeq(list, m, Len(list)) = <<>>
    BY <1>1, <1>3
  <2>. QED
    BY <2>1
<1>. QED
  BY <1>1, <1>2, <1>3

LEMMA BeginAnalysisFine ==
  ASSUME IngestInv, AlertsFine, NEW c \in Analyst, NEW i \in DOMAIN alerts,
         BeginAnalysis(c, i)
  PROVE  AlertsFine'
<1>. DEFINE record == analyses[i]
            chat == ChatOf(messages, sync_message_cache(Len(messages)), alerts[i].target)
            shown == SubSeq(chat, record.processed + 1, Len(chat))
            call == [by |-> c, alert |-> i, read |-> record.stages,
                     processed |-> record.processed, shown |-> shown]
<1>1. analysing' = analysing \cup {call} /\ UNCHANGED <<messages, alerts, analyses>>
  BY DEF BeginAnalysis
<1>2. alerts \in Seq(Alert) /\ analyses \in Seq(Record) /\ Len(analyses) = Len(alerts)
  BY DEF AlertsFine
<1>3. i \in 1..Len(alerts) /\ Len(messages) \in Nat
  BY <1>2, StoredCount DEF IngestInv
<1>4. record \in Record
  BY <1>2, <1>3
<1>5. record.processed \in Nat /\ record.stages \in Seq(Evidence)
  BY <1>4 DEF Record
<1>6. Holds(sync_message_cache(Len(messages)), Len(messages))
  BY SyncHolds DEF IngestInv
<1>7. chat \in Seq(1..Len(messages))
  BY <1>3, <1>6, ChatHolds
<1>. HIDE DEF chat, record
<1>8. shown \in Seq(1..Len(messages))
  <2>. DEFINE m == record.processed + 1
  <2>1. m \in Nat \ {0} /\ shown = SubSeq(chat, m, Len(chat))
    BY <1>5
  <2>. HIDE DEF shown, m
  <2>. QED
    BY <1>7, <2>1, RestItems
<1>. HIDE DEF shown
<1>9. shown \in Seq(Nat)
  <2>1. 1..Len(messages) \subseteq Nat
    OBVIOUS
  <2>. QED
    BY <1>8, <2>1, WiderSeq
<1>10. call \in Analysing /\ call.alert = i
  BY <1>3, <1>5, <1>9 DEF Analysing
<1>. HIDE DEF call
<1>11. \A k \in analysing' : k \in Analysing /\ k.alert \in 1..Len(alerts)
  BY <1>1, <1>3, <1>10 DEF AlertsFine
<1>. QED
  BY <1>1, <1>11 DEF AlertsFine

\* What the model finds is evidence of some kind, whatever it names.
LEMMA FoundIn ==
  ASSUME NEW found \in Findings
  PROVE  found \in Seq(Evidence)
<1>. DEFINE evidence == [stage : Stage \cup {0}, messageId : NamedId]
<1>1. \A e \in evidence : e \in Evidence
  <2>1. Stage \cup {0} \subseteq Nat /\ NamedId \subseteq Int
    BY AlertsAssumption
  <2>. QED
    BY <2>1 DEF Evidence
<1>2. \/ found = <<>>
      \/ \E e \in evidence : found = <<e>>
      \/ \E e, f \in evidence : found = <<e, f>>
  BY DEF Findings
<1>. HIDE DEF evidence
<1>3. <<>> \in Seq(Evidence)
  OBVIOUS
<1>4. ASSUME NEW e \in Evidence PROVE <<e>> \in Seq(Evidence)
  OBVIOUS
<1>5. ASSUME NEW e \in Evidence, NEW f \in Evidence PROVE <<e, f>> \in Seq(Evidence)
  OBVIOUS
<1>. QED
  BY <1>1, <1>2, <1>3, <1>4, <1>5

LEMMA EndAnalysisFine ==
  ASSUME IngestInv, [Next]_vars, AlertsFine, NEW call \in analysing,
         NEW found \in Findings, EndAnalysis(call, found)
  PROVE  AlertsFine'
<1>. DEFINE k == call.alert
            kept == {i \in DOMAIN found : found[i].stage \notin StageNames(call.read)}
            new == Sublist(found, kept)
            list == call.read \o new
            a == [alerts[k] EXCEPT !.stages = list]
            r == [stages |-> IF new = <<>> THEN analyses[k].stages ELSE list,
                  processed |-> IF call.shown = <<>> THEN analyses[k].processed
                                ELSE call.processed + Len(call.shown),
                  unprocessed |-> 0]
<1>1. /\ alerts' = [alerts EXCEPT ![k] = a] /\ analyses' = [analyses EXCEPT ![k] = r]
      /\ analysing' = analysing \ {call} /\ messages' = messages
  BY DEF EndAnalysis
<1>2. call \in Analysing /\ k \in 1..Len(alerts)
  BY DEF AlertsFine
<1>3. alerts \in Seq(Alert) /\ analyses \in Seq(Record) /\ Len(analyses) = Len(alerts)
  BY DEF AlertsFine
<1>4. /\ call.read \in Seq(Evidence) /\ call.shown \in Seq(Nat) /\ call.processed \in Nat
  BY <1>2 DEF Analysing
<1>5. found \in Seq(Evidence) /\ kept \in SUBSET DOMAIN found
  BY FoundIn
<1>. HIDE DEF kept
<1>6. new \in Seq(Evidence)
  BY <1>5, SublistItems
<1>. HIDE DEF new
<1>7. list \in Seq(Evidence)
  BY <1>4, <1>6, Joined
<1>. HIDE DEF list
<1>8. alerts[k] \in Alert /\ analyses[k] \in Record
  BY <1>2, <1>3
<1>9. a \in Alert /\ a.by = alerts[k].by
  BY <1>7, <1>8 DEF Alert
<1>10. r \in Record
  <2>1. analyses[k].stages \in Seq(Evidence) /\ analyses[k].processed \in Nat
    BY <1>8 DEF Record
  <2>2. Len(call.shown) \in Nat
    BY <1>4
  <2>3. r.stages \in {analyses[k].stages, list}
    OBVIOUS
  <2>4. r.processed \in Nat
    BY <1>4, <2>1, <2>2
  <2>5. r = [stages |-> r.stages, processed |-> r.processed, unprocessed |-> 0]
    OBVIOUS
  <2>. HIDE DEF r
  <2>6. r.stages \in Seq(Evidence)
    BY <1>7, <2>1, <2>3
  <2>. QED
    BY <2>4, <2>5, <2>6 DEF Record
<1>. HIDE DEF a, r
<1>11. alerts' \in Seq(Alert)
  BY <1>1, <1>3, <1>9, ItemChanged
<1>12. Len(alerts') = Len(alerts)
  BY <1>1, <1>3, <1>9, ItemChanged
<1>13. \A j \in 1..Len(alerts) : alerts'[j] = IF j = k THEN a ELSE alerts[j]
  BY <1>1, <1>3, <1>9, ItemChanged
<1>14. analyses' \in Seq(Record)
  BY <1>1, <1>3, <1>10, ItemChanged
<1>15. Len(analyses') = Len(analyses)
  BY <1>1, <1>3, <1>10, ItemChanged
<1>16. \A j \in 1..Len(alerts) : alerts'[j].by \in 1..Len(messages')
  BY <1>1, <1>9, <1>13 DEF AlertsFine
<1>17. Len(alerts) \in Nat
  BY <1>3
<1>. QED
  BY <1>1, <1>3, <1>11, <1>12, <1>14, <1>15, <1>16, <1>17, AlertsGrow

LEMMA AlertsKept ==
  ASSUME IngestInv, [Next]_vars, TasksFine, AlertsFine
  PROVE  AlertsFine'
<1>1. CASE alerts' = alerts /\ analyses' = analyses /\ analysing' \subseteq analysing
  BY <1>1, AlertsSame
<1>2. CASE UNCHANGED vars
  BY <1>1, <1>2 DEF vars, storeVars
<1>3. ASSUME NEW user \in writing.users, NEW minutes \in writing.minutes,
             process_ingest(user, minutes)
      PROVE  AlertsFine'
  BY <1>1, <1>3 DEF process_ingest
<1>4. ASSUME NEW t \in Task, Wake(t) \/ EnterLock(t) \/ JudgingFails(t) PROVE AlertsFine'
  BY <1>1, <1>4 DEF Wake, EnterLock, JudgingFails, storeVars
<1>5. CASE UNCHANGED storeVars
  BY <1>1, <1>5 DEF storeVars
<1>6. CASE StoreStep
  <2>1. CASE ExpireCache
    BY <1>1, <2>1 DEF ExpireCache
  <2>2. /\ \A p \in Page : LoadAlerts(p) => AlertsFine'
        /\ \A v \in Viewer :
             ConnectViewer(v) \/ LoseViewer(v) \/ DisconnectViewer(v) => AlertsFine'
    BY <1>1 DEF LoadAlerts, ConnectViewer, LoseViewer, DisconnectViewer
  <2>3. ASSUME NEW call \in analysing, FailAnalysis(call) PROVE AlertsFine'
    BY <1>1, <2>3 DEF FailAnalysis
  <2>4. ASSUME NEW call \in analysing, NEW found \in Findings, EndAnalysis(call, found)
        PROVE  AlertsFine'
    BY <2>4, EndAnalysisFine
  <2>5. ASSUME NEW i \in DOMAIN alerts, acknowledge_alert(i) PROVE AlertsFine'
    BY <2>5, AcknowledgeFine
  <2>6. ASSUME NEW c \in Analyst, NEW i \in DOMAIN alerts, BeginAnalysis(c, i)
        PROVE  AlertsFine'
    BY <2>6, BeginAnalysisFine
  <2>. QED
    BY <1>6, <2>1, <2>2, <2>3, <2>4, <2>5, <2>6 DEF StoreStep
<1>. QED
  BY <1>2, <1>3, <1>4, <1>5, <1>6, JudgedFine, TellFine DEF Next, TaskGoesOn

-----------------------------------------------------------------------------
(* How the tasks go on. *)

LEMMA IdleTyped ==
  /\ Idle \in TaskState /\ Idle.todo = {} /\ Idle.current = None
  /\ max_retries \in 0..max_retries /\ max_retries # 0
<1>1. max_retries \in Nat \ {0} /\ <<>> \in Seq(Viewer)
  BY IngestAssumption
<1>2. Idle \in TaskState
  BY <1>1 DEF Idle, TaskState, Running
<1>. QED
  BY <1>1, <1>2 DEF Idle

LEMMA EndState ==
  ASSUME NEW pc \in {"received", "refused", "error"},
         NEW state, state = Ending(pc)
  PROVE  TaskGood(state) /\ state.pc = pc /\ Work(state) = {}
<1>1. state = [pc |-> pc, todo |-> {}, current |-> None, tries |-> 0, audience |-> <<>>,
               alert |-> 0]
  BY DEF Ending, Idle
<1>2. /\ state.pc = pc /\ state.todo = {} /\ state.current = None /\ state.alert = 0
      /\ pc \notin Running \cup {"none"}
  BY <1>1 DEF Running
<1>3. TaskGood(state)
  <2>1. 0 \in 0..max_retries /\ <<>> \in Seq(Viewer)
    BY IngestAssumption
  <2>2. state \in TaskState
    BY <1>1, <2>1 DEF TaskState
  <2>. QED
    BY <1>2, <2>2 DEF TaskGood, Running
<1>. QED
  BY <1>2, <1>3 DEF Work, Running

LEMMA AskingTyped ==
  ASSUME NEW todo \in SUBSET Judgement, NEW j \in todo, NEW pc \in {"judging", "connecting"},
         NEW tries \in 0..max_retries, pc = "connecting" => tries # 0,
         NEW state, state = Asking(pc, j, todo, tries)
  PROVE  TaskGood(state) /\ state.pc = pc /\ Work(state) \subseteq todo
<1>1. /\ todo \ {j} \in SUBSET Judgement /\ j \in Judgement
      /\ pc \in Running \cup {"none", "received", "refused", "error"}
  BY DEF Running
<1>2. state = [pc |-> pc, todo |-> todo \ {j}, current |-> j, tries |-> tries,
               audience |-> <<>>, alert |-> 0]
  BY DEF Asking, Idle
<1>3. state \in TaskState
  BY <1>1, <1>2 DEF TaskState
<1>4. /\ state.pc = pc /\ state.todo = todo \ {j} /\ state.current = j
      /\ state.tries = tries /\ state.alert = 0
  BY <1>2
<1>5. TaskGood(state)
  BY <1>1, <1>3, <1>4 DEF TaskGood, Running
<1>6. Work(state) \subseteq todo
  BY <1>4 DEF Work
<1>. QED
  BY <1>4, <1>5, <1>6

Onward == {"judging", "connecting", "received", "error"}

LEMMA ContinueBecomes ==
  ASSUME NEW t \in Task, NEW todo \in SUBSET Judgement, NEW log, NEW queue, NEW futures,
         NEW list, Continue(t, todo, log, queue, futures, list)
  PROVE  \E state : /\ Become(t, state) /\ TaskGood(state) /\ Work(state) \subseteq todo
                    /\ state.pc \in Onward
<1>1. CASE Asks(t, todo, queue, futures)
  <2>1. PICK j \in todo : Become(t, Asking("judging", j, todo, 0))
    BY <1>1 DEF Asks
  <2>2. 0 \in 0..max_retries /\ "judging" # "connecting"
    BY IngestAssumption
  <2>. DEFINE state == Asking("judging", j, todo, 0)
  <2>3. TaskGood(state) /\ state.pc = "judging" /\ Work(state) \subseteq todo
    BY <2>2, AskingTyped
  <2>. HIDE DEF state
  <2>. QED
    BY <2>1, <2>3 DEF state, Onward
<1>2. ASSUME NEW j \in todo, Become(t, Asking("connecting", j, todo, max_retries))
      PROVE  \E state : /\ Become(t, state) /\ TaskGood(state) /\ Work(state) \subseteq todo
                        /\ state.pc \in Onward
  <2>. DEFINE state == Asking("connecting", j, todo, max_retries)
  <2>1. TaskGood(state) /\ state.pc = "connecting" /\ Work(state) \subseteq todo
    BY IdleTyped, AskingTyped
  <2>. HIDE DEF state
  <2>. QED
    BY <1>2, <2>1 DEF state, Onward
<1>3. ASSUME NEW pc \in {"received", "error"}, Become(t, Ending(pc))
      PROVE  \E state : /\ Become(t, state) /\ TaskGood(state) /\ Work(state) \subseteq todo
                        /\ state.pc \in Onward
  <2>. DEFINE state == Ending(pc)
  <2>1. TaskGood(state) /\ state.pc = pc /\ Work(state) = {}
    BY EndState
  <2>. HIDE DEF state
  <2>. QED
    BY <1>3, <2>1 DEF state, Onward
<1>. QED
  BY <1>1, <1>2, <1>3, ContinueCases DEF Rests

\* What no step but Judged and Tell touches: the tasks that tell the dashboards,
\* and those that broke off.
TellingKept ==
  \A u \in Task :
    "telling" \in {tasks[u].pc, tasks'[u].pc} \/ tasks[u].pc = "error" => tasks'[u] = tasks[u]

Under(t) == tasks[t].pc \notin {"none", "error"}

LEMMA BecomeSets ==
  ASSUME TasksFine, NEW t \in Task, NEW state, Become(t, state)
  PROVE  tasks'[t] = state /\ \A u \in Task : u # t => tasks'[u] = tasks[u]
<1>1. tasks = [u \in Task |-> tasks[u]]
  BY DEF TasksFine
<1>. QED
  BY <1>1 DEF Become

\* A task goes on with nothing but what it had to judge.
LEMMA BecomeLess ==
  ASSUME IngestInv, [Next]_vars, TasksFine, NEW t \in Task, Under(t),
         NEW state, TaskGood(state), Work(state) \subseteq Work(tasks[t]), Become(t, state)
  PROVE  /\ TasksFine'
         /\ "telling" \notin {tasks[t].pc, state.pc} => TellingKept
<1>1. t \in Nat /\ t <= Len(messages)
  BY TaskNumber, TaskStored DEF Under
<1>2. \A j \in Work(state) : Whole(j, messages', t)
  BY <1>1, WholeForGood DEF TasksFine
<1>3. TasksFine'
  BY <1>2, BecomeFine
<1>. QED
  BY <1>3, BecomeSets DEF TellingKept, Under

LEMMA ContinueFine ==
  ASSUME IngestInv, [Next]_vars, TasksFine, NEW t \in Task, Under(t),
         NEW log, NEW queue, NEW futures, NEW list,
         Continue(t, tasks[t].todo, log, queue, futures, list)
  PROVE  /\ TasksFine' /\ tasks'[t].pc # "telling"
         /\ \A u \in Task : u # t => tasks'[u] = tasks[u]
         /\ tasks[t].pc # "telling" => TellingKept
<1>1. tasks[t].todo \in SUBSET Judgement
  BY DEF TasksFine, TaskGood, TaskState
<1>2. PICK state : /\ Become(t, state) /\ TaskGood(state) /\ Work(state) \subseteq tasks[t].todo
                   /\ state.pc \in Onward
  BY <1>1, ContinueBecomes
<1>3. Work(state) \subseteq Work(tasks[t]) /\ state.pc # "telling"
  BY <1>2 DEF Work, Onward
<1>4. TasksFine' /\ ("telling" \notin {tasks[t].pc, state.pc} => TellingKept)
  BY <1>2, <1>3, BecomeLess
<1>5. tasks'[t] = state /\ \A u \in Task : u # t => tasks'[u] = tasks[u]
  BY <1>2, BecomeSets
<1>. QED
  BY <1>3, <1>4, <1>5

LEMMA EndFine ==
  ASSUME IngestInv, [Next]_vars, TasksFine, NEW t \in Task, Under(t),
         tasks[t].pc # "telling", NEW pc \in {"received", "refused", "error"},
         Become(t, Ending(pc))
  PROVE  TasksFine' /\ TellingKept /\ tasks'[t].pc = pc
         /\ \A u \in Task : u # t => tasks'[u] = tasks[u]
<1>. DEFINE state == Ending(pc)
<1>1. /\ TaskGood(state) /\ Work(state) = {} /\ state.pc = pc
  BY EndState
<1>. HIDE DEF state
<1>2. Become(t, state)
  BY DEF state
<1>3. TasksFine' /\ TellingKept
  BY <1>1, <1>2, BecomeLess
<1>. QED
  BY <1>1, <1>2, <1>3, BecomeSets

LEMMA ProcessJudges ==
  ASSUME IngestInv, [Next]_vars, NEW user \in writing.users,
         NEW minutes \in writing.minutes, process_ingest(user, minutes),
         NEW n, n = Len(messages) + 1
  PROVE  /\ n \in Task
         /\ Judgements(messages', Collection(n)) \in SUBSET Judgement
         /\ \A j \in Judgements(messages', Collection(n)) : Whole(j, messages', n)
<1>. DEFINE todo == Judgements(messages', Collection(n))
<1>1. n \in Task
  BY DEF process_ingest
<1>2. messages' \in Seq(Stored) /\ Len(messages') = n
  <2>1. messages \in Seq(Stored) /\ messages' \in Seq(Stored)
    BY MessagesGrow
  <2>2. \E m : messages' = Append(messages, m)
    BY DEF process_ingest
  <2>. QED
    BY <2>1, <2>2
<1>3. Holds(Collection(n), Len(messages'))
  BY <1>2, SyncHolds DEF IngestInv, Collection
<1>4. children \in Seq(DOMAIN ParentOf)
  BY DEF IngestInv, StoreGood
<1>5. \A j \in todo : Whole(j, messages', n)
  BY <1>1, <1>2, <1>3, <1>4, JudgementsWhole
<1>. HIDE DEF todo
<1>6. todo \in SUBSET Judgement
  BY <1>5 DEF Whole
<1>. QED
  BY <1>1, <1>5, <1>6 DEF todo

LEMMA ProcessFine ==
  ASSUME IngestInv, [Next]_vars, TasksFine, NEW user \in writing.users,
         NEW minutes \in writing.minutes, process_ingest(user, minutes)
  PROVE  TasksFine' /\ TellingKept
<1>. DEFINE n == Len(messages) + 1
            todo == Judgements(messages', Collection(n))
<1>1. \/ \E list : Continue(n, todo, messages', lock, future, list)
      \/ Become(n, Ending("error"))
  BY DEF process_ingest, End
<1>2. n \in Task
  BY ProcessJudges
<1>3. todo \in SUBSET Judgement /\ \A j \in todo : Whole(j, messages', n)
  BY ProcessJudges
<1>. HIDE DEF n
<1>. HIDE DEF todo
<1>4. PICK state : /\ Become(n, state) /\ TaskGood(state) /\ Work(state) \subseteq todo
                   /\ state.pc \in Onward
  <2>. DEFINE state == Ending("error")
  <2>1. TaskGood(state) /\ state.pc = "error" /\ Work(state) \subseteq todo
    BY EndState
  <2>. HIDE DEF state
  <2>. QED
    BY <1>1, <1>2, <1>3, <2>1, ContinueBecomes DEF state, Onward
<1>5. TasksFine'
  BY <1>2, <1>3, <1>4, BecomeFine
<1>6. tasks[n].pc = "none"
  <2>1. Len(messages) \in Nat
    BY MessagesGrow
  <2>2. ~(n <= Len(messages))
    BY <2>1 DEF n
  <2>. QED
    BY <1>2, <2>2, TaskStored
<1>. QED
  BY <1>2, <1>4, <1>5, <1>6, BecomeSets DEF TellingKept, Onward

LEMMA WakeFine ==
  ASSUME IngestInv, [Next]_vars, TasksFine, NEW t \in Task, Wake(t)
  PROVE  TasksFine' /\ TellingKept
<1>1. tasks[t].pc = "connecting" /\ Under(t) /\ TaskGood(tasks[t])
  BY DEF Wake, Under, TasksFine
<1>2. CASE connected
  <2>. DEFINE state == [tasks[t] EXCEPT !.pc = "judging", !.tries = 0]
  <2>1. Become(t, state)
    BY <1>2 DEF Wake
  <2>2. 0 \in 0..max_retries /\ "judging" \in Running
    BY IngestAssumption DEF Running
  <2>3. TaskGood(state) /\ Work(state) = Work(tasks[t]) /\ state.pc = "judging"
    BY <1>1, <2>2 DEF TaskGood, TaskState, Work, Running
  <2>. HIDE DEF state
  <2>. QED
    BY <1>1, <2>1, <2>3, BecomeLess
<1>3. CASE ~connected /\ tasks[t].tries = 1
  <2>1. Become(t, Ending("refused"))
    BY <1>3 DEF Wake, End
  <2>. QED
    BY <1>1, <2>1, EndFine
<1>4. CASE ~connected /\ tasks[t].tries # 1
  <2>. DEFINE state == [tasks[t] EXCEPT !.tries = @ - 1]
  <2>1. Become(t, state)
    BY <1>4 DEF Wake
  <2>2. tasks[t].tries - 1 \in 0..max_retries /\ tasks[t].tries - 1 # 0
    BY <1>1, <1>4, IngestAssumption DEF TaskGood, TaskState
  <2>3. TaskGood(state) /\ Work(state) = Work(tasks[t]) /\ state.pc = "connecting"
    BY <1>1, <2>2 DEF TaskGood, TaskState, Work, Running
  <2>. HIDE DEF state
  <2>. QED
    BY <1>1, <2>1, <2>3, BecomeLess
<1>. QED
  BY <1>2, <1>3, <1>4

LEMMA JudgingFailsFine ==
  ASSUME IngestInv, [Next]_vars, TasksFine, NEW t \in Task, JudgingFails(t)
  PROVE  TasksFine' /\ TellingKept
<1>1. /\ tasks[t].pc = "judging" /\ Under(t)
      /\ Become(t, Ending("refused")) \/ Become(t, Ending("error"))
  BY DEF JudgingFails, End, Under
<1>. QED
  BY <1>1, EndFine

\* The sockets a task tells are connected now.
LEMMA AudienceItems ==
  ASSUME connections \in Seq(Viewer), NEW child
  PROVE  /\ Audience(child) \in Seq(Viewer)
         /\ \A k \in DOMAIN Audience(child) :
              /\ \E i \in DOMAIN connections : connections[i] = Audience(child)[k]
              /\ ViewerOf(Audience(child)[k]) = ParentOf[child]
         /\ \A i \in DOMAIN connections :
              ViewerOf(connections[i]) = ParentOf[child] =>
                \E k \in DOMAIN Audience(child) : Audience(child)[k] = connections[i]
<1>. DEFINE kept == {i \in DOMAIN connections : ViewerOf(connections[i]) = ParentOf[child]}
            audience == Audience(child)
<1>1. audience = Sublist(connections, kept) /\ kept \in SUBSET DOMAIN connections
  BY DEF Audience
<1>2. \A i \in DOMAIN connections :
        i \in kept <=> ViewerOf(connections[i]) = ParentOf[child]
  OBVIOUS
<1>. HIDE DEF kept, audience
<1>3. /\ audience \in Seq(Viewer)
      /\ \A k \in DOMAIN audience : \E i \in kept : audience[k] = connections[i]
  BY <1>1, SublistItems
<1>4. \A i \in kept : \E k \in DOMAIN audience : audience[k] = connections[i]
  BY <1>1, SublistKeeps
<1>. QED
  BY <1>1, <1>2, <1>3, <1>4 DEF audience

\* After a verdict, a task that is to tell dashboards begins with all of them.
LEMMA JudgedTask ==
  ASSUME IngestInv, [Next]_vars, TasksFine, AlertsFine, connections \in Seq(Viewer),
         NEW t \in Task, Judged(t)
  PROVE  /\ TasksFine'
         /\ \A u \in Task : u # t => tasks'[u] = tasks[u]
         /\ tasks'[t].pc = "telling" =>
              /\ Flagged(Current(t)) /\ alerts' = upsert_alert(tasks[t].current, t)
              /\ tasks'[t].audience = Audience(tasks[t].current.child)
              /\ tasks'[t].alert = RaisedIndex(tasks[t].current)
         /\ tasks'[t].pc # "telling" /\ Flagged(Current(t)) =>
              Audience(tasks[t].current.child) = <<>> \/ tasks'[t].pc = "error"
<1>. DEFINE pair == tasks[t].current
            audience == Audience(pair.child)
            k == RaisedIndex(pair)
<1>1. tasks[t].pc = "judging" /\ Under(t)
  BY DEF Judged, Under
<1>2. ASSUME NEW list, Flagged(Current(t)) => audience = <<>>,
             Continue(t, tasks[t].todo, messages, Released, Ended(Current(t), "returned"), list)
      PROVE  /\ TasksFine' /\ tasks'[t].pc # "telling"
             /\ \A u \in Task : u # t => tasks'[u] = tasks[u]
             /\ Flagged(Current(t)) => audience = <<>>
  BY <1>1, <1>2, ContinueFine
<1>3. ASSUME Flagged(Current(t)), audience # <<>>, alerts' = upsert_alert(pair, t),
             Become(t, Telling(tasks[t], audience, k))
      PROVE  /\ TasksFine' /\ tasks'[t].pc = "telling"
             /\ \A u \in Task : u # t => tasks'[u] = tasks[u]
             /\ tasks'[t].audience = audience /\ tasks'[t].alert = k
  <2>. DEFINE state == Telling(tasks[t], audience, k)
  <2>1. /\ audience \in Seq(Viewer) /\ audience # <<>>
    BY <1>3, AudienceItems
  <2>2. pair \in Judgement
    BY <1>1 DEF TasksFine, TaskGood, Running
  <2>3. k \in Nat
    <3>1. alerts \in Seq(Alert) /\ t \in Nat /\ AlertsGood
      BY TaskNumber DEF AlertsFine, IngestInv
    <3>. HIDE DEF pair
    <3>2. /\ Len(alerts) \in Nat
          /\ k \in 1..Len(alerts) \/ k = Len(alerts) + 1
      BY <2>2, <3>1, RaisedAlert
    <3>. QED
      BY <3>2
  <2>4. TaskGood(tasks[t])
    BY DEF TasksFine
  <2>. HIDE DEF audience, k
  <2>5. /\ TaskGood(state) /\ Work(state) = Work(tasks[t]) /\ state.pc = "telling"
        /\ state.audience = audience /\ state.alert = k
    <3>. DEFINE s == tasks[t]
    <3>1. s \in TaskState /\ s.current = pair
      BY <2>4 DEF TaskGood
    <3>. HIDE DEF s, pair
    <3>2. state = [pc |-> "telling", todo |-> s.todo, current |-> s.current,
                   tries |-> 0, audience |-> audience, alert |-> k]
      BY DEF Telling, s
    <3>. HIDE DEF state
    <3>3. state \in TaskState
      <4>1. 0 \in 0..max_retries
        BY IngestAssumption
      <4>. QED
        BY <2>1, <2>3, <3>1, <3>2, <4>1 DEF TaskState, Running
    <3>4. TaskGood(state)
      BY <2>1, <2>2, <3>1, <3>2, <3>3 DEF TaskGood, Running
    <3>5. Work(state) = Work(s)
      BY <1>1, <3>2 DEF Work, Running, s
    <3>. QED
      BY <3>2, <3>4, <3>5 DEF s
  <2>6. Become(t, state)
    BY <1>3
  <2>. HIDE DEF state
  <2>7. TasksFine'
    BY <1>1, <2>5, <2>6, BecomeLess
  <2>8. tasks'[t] = state /\ \A u \in Task : u # t => tasks'[u] = tasks[u]
    BY <2>6, BecomeSets
  <2>. QED
    BY <1>3, <2>5, <2>7, <2>8 DEF audience, k
<1>4. ASSUME Become(t, Ending("error"))
      PROVE  /\ TasksFine' /\ tasks'[t].pc = "error"
             /\ \A u \in Task : u # t => tasks'[u] = tasks[u]
  BY <1>1, <1>4, EndFine
<1>5. \/ \E list : /\ Flagged(Current(t)) => audience = <<>>
                   /\ Continue(t, tasks[t].todo, messages, Released,
                               Ended(Current(t), "returned"), list)
      \/ Become(t, Ending("error"))
      \/ /\ Flagged(Current(t)) /\ audience # <<>> /\ alerts' = upsert_alert(pair, t)
         /\ Become(t, Telling(tasks[t], audience, k))
  <2>. DEFINE saved == Commit(rows, <<"ingest", t>>)
              readable == Readable(saved, Using(saved, t), ToSet(pair.talk))
  <2>1. CASE ~Flagged(Current(t))
    BY <2>1 DEF Judged
  <2>2. CASE Flagged(Current(t)) /\ ~readable
    BY <2>2 DEF Judged, End
  <2>3. CASE Flagged(Current(t)) /\ readable /\ audience = <<>>
    BY <2>3 DEF Judged
  <2>4. CASE Flagged(Current(t)) /\ readable /\ audience # <<>>
    BY <2>4 DEF Judged
  <2>. HIDE DEF saved, readable, audience, pair, k
  <2>. QED
    BY <2>1, <2>2, <2>3, <2>4
<1>. HIDE DEF audience, pair, k
<1>. QED
  BY <1>2, <1>3, <1>4, <1>5 DEF audience, pair, k

\* After one socket, a task goes on to the next, if there is one.
LEMMA TellTask ==
  ASSUME IngestInv, [Next]_vars, TasksFine, NEW t \in Task, Tell(t)
  PROVE  /\ TasksFine'
         /\ \A u \in Task : u # t => tasks'[u] = tasks[u]
         /\ tasks[t].audience \in Seq(Viewer) /\ tasks[t].audience # <<>>
         /\ tasks'[t].pc = "telling" <=> Rest(t) # <<>>
         /\ tasks'[t].pc = "telling" =>
              tasks'[t].alert = tasks[t].alert /\ tasks'[t].audience = Rest(t)
<1>1. tasks[t].pc = "telling" /\ Under(t)
  BY DEF Tell, Under
<1>2. TaskGood(tasks[t])
  BY DEF TasksFine
<1>3. tasks[t].audience \in Seq(Viewer) /\ tasks[t].audience # <<>>
  BY <1>1, <1>2 DEF TaskGood, TaskState
<1>4. CASE Rest(t) # <<>>
  <2>. DEFINE state == [tasks[t] EXCEPT !.audience = Rest(t)]
  <2>1. Become(t, state)
    BY <1>4 DEF Tell
  <2>2. Rest(t) \in Seq(Viewer)
    BY <1>3 DEF Rest
  <2>3. /\ TaskGood(state) /\ Work(state) = Work(tasks[t]) /\ state.pc = "telling"
        /\ state.audience = Rest(t) /\ state.alert = tasks[t].alert
    BY <1>1, <1>2, <1>4, <2>2 DEF TaskGood, TaskState, Work
  <2>. HIDE DEF state
  <2>4. TasksFine'
    BY <1>1, <2>1, <2>3, BecomeLess
  <2>5. tasks'[t] = state /\ \A u \in Task : u # t => tasks'[u] = tasks[u]
    BY <2>1, BecomeSets
  <2>. QED
    BY <1>3, <1>4, <2>3, <2>4, <2>5
<1>5. CASE Rest(t) = <<>>
  <2>1. Continue(t, tasks[t].todo, messages, lock, future, Commit(rows, <<"ingest", t>>))
    BY <1>5 DEF Tell
  <2>2. /\ TasksFine' /\ tasks'[t].pc # "telling"
        /\ \A u \in Task : u # t => tasks'[u] = tasks[u]
    BY <1>1, <2>1, ContinueFine
  <2>. QED
    BY <1>3, <1>5, <2>2
<1>. QED
  BY <1>4, <1>5

LEMMA TasksKept ==
  ASSUME IngestInv, [Next]_vars, TasksFine, AlertsFine, connections \in Seq(Viewer)
  PROVE  TasksFine'
<1>1. ASSUME tasks' = tasks PROVE TasksFine' /\ TellingKept
  <2>1. ASSUME NEW t \in Task PROVE \A j \in Work(tasks[t]) : Whole(j, messages', t)
    <3>1. CASE tasks[t].pc = "none"
      <4>1. tasks[t] = Idle
        BY <3>1 DEF TasksFine, TaskGood
      <4>. QED
        BY <4>1 DEF Work, Idle, Running
    <3>2. CASE tasks[t].pc # "none"
      <4>1. t \in Nat /\ t <= Len(messages)
        BY <3>2, TaskNumber, TaskStored
      <4>. QED
        BY <4>1, WholeForGood DEF TasksFine
    <3>. QED
      BY <3>1, <3>2
  <2>. QED
    BY <1>1, <2>1 DEF TasksFine, TellingKept
<1>2. CASE UNCHANGED vars
  BY <1>1, <1>2 DEF vars
<1>3. ASSUME NEW user \in writing.users, NEW minutes \in writing.minutes,
             process_ingest(user, minutes)
      PROVE  TasksFine'
  BY <1>3, ProcessFine
<1>4. ASSUME NEW t \in Task, TaskGoesOn(t) PROVE TasksFine'
  <2>1. CASE EnterLock(t)
    BY <1>1, <2>1 DEF EnterLock
  <2>. QED
    BY <1>4, <2>1, WakeFine, JudgingFailsFine, JudgedTask, TellTask DEF TaskGoesOn
<1>. QED
  BY <1>1, <1>2, <1>3, <1>4 DEF Next

-----------------------------------------------------------------------------
(* The dashboards. *)

Connected(v, list) == \E i \in DOMAIN list : list[i] = v

\* A viewer's page has an alert as its last message left it, or is about to; or
\* the ingest of that message broke off.
Told(v, i, list, work, given, first) ==
  LET t == list[i].by
  IN \/ <<i, t>> \in given[PageOf[v]] \cup first[v]
     \/ work[t].pc = "telling" /\ work[t].alert = i /\ v \in ToSet(work[t].audience)
     \/ work[t].pc = "error"

Pairs == (1..Len(alerts)) \X (1..Len(messages))
ViewersTyped ==
  /\ seat \in [Viewer -> {"none", "on", "dead", "off"}]
  /\ connections \in Seq(Viewer)
  /\ joined \in [Viewer -> SUBSET Pairs]
  /\ seen \in [Page -> SUBSET Pairs]
KnownOwn == \A p \in Page : \A known \in seen[p] : Own(p, known[1])
OnConnected == \A v \in Viewer : seat[v] = "on" => Connected(v, connections)
TellingOwn ==
  \A t \in Task : tasks[t].pc = "telling" =>
    /\ tasks[t].alert \in 1..Len(alerts)
    /\ \A v \in ToSet(tasks[t].audience) : Own(PageOf[v], tasks[t].alert)
AllTold ==
  \A v \in Viewer : seat[v] = "on" =>
    \A i \in 1..Len(alerts) :
      Own(PageOf[v], i) => Told(v, i, alerts, tasks, seen, joined)

ViewersFine == ViewersTyped /\ KnownOwn /\ OnConnected /\ TellingOwn /\ AllTold

\* Whom an alert is of, and who raised it.
Steady ==
  /\ Len(alerts') = Len(alerts)
  /\ \A i \in 1..Len(alerts) :
       alerts'[i].child = alerts[i].child /\ alerts'[i].by = alerts[i].by

RaisedByTask == \A i \in 1..Len(alerts) : alerts[i].by \in Task

LEMMA PageOfViewer == ASSUME NEW v \in Viewer PROVE PageOf[v] \in Page
  BY AlertsAssumption

LEMMA ViewersQuiet ==
  ASSUME IngestInv, [Next]_vars, ViewersFine, RaisedByTask, Steady, TellingKept,
         UNCHANGED viewerVars
  PROVE  ViewersFine'
<1>0. UNCHANGED <<seat, connections, joined, seen>>
  BY DEF viewerVars
<1>1. Len(messages) \in Nat /\ Len(messages') \in Nat /\ Len(messages) <= Len(messages')
  BY MessagesGrow
<1>2. \A p, i : i \in 1..Len(alerts) => (Own(p, i) <=> Own(p, i)')
  BY DEF Own, Steady
<1>3. 1..Len(messages) \subseteq 1..Len(messages') /\ Len(alerts') = Len(alerts)
  BY <1>1 DEF Steady
<1>4. joined' \in [Viewer -> SUBSET Pairs'] /\ seen' \in [Page -> SUBSET Pairs']
  <2>1. Pairs \subseteq Pairs'
    BY <1>3 DEF Pairs
  <2>. QED
    BY <1>0, <2>1 DEF ViewersFine, ViewersTyped
<1>5. ASSUME NEW p \in Page, NEW known \in seen'[p] PROVE Own(p, known[1])'
  <2>1. known \in seen[p] /\ Own(p, known[1]) /\ known[1] \in 1..Len(alerts)
    BY <1>0, <1>5 DEF ViewersFine, ViewersTyped, KnownOwn, Pairs
  <2>. QED
    BY <1>2, <2>1
<1>6. ASSUME NEW t \in Task, tasks'[t].pc = "telling"
      PROVE  /\ tasks'[t].alert \in 1..Len(alerts')
             /\ \A v \in ToSet(tasks'[t].audience) : Own(PageOf[v], tasks[t].alert)'
  <2>1. tasks'[t] = tasks[t]
    BY <1>6 DEF TellingKept
  <2>. QED
    BY <1>2, <1>3, <1>6, <2>1 DEF ViewersFine, TellingOwn
<1>7. ASSUME NEW v \in Viewer, seat'[v] = "on", NEW i \in 1..Len(alerts'), Own(PageOf[v], i)'
      PROVE  Told(v, i, alerts', tasks', seen', joined')
  <2>1. i \in 1..Len(alerts) /\ seat[v] = "on" /\ Own(PageOf[v], i)
    BY <1>0, <1>2, <1>3, <1>7
  <2>2. alerts'[i].by = alerts[i].by /\ alerts[i].by \in Task
    BY <2>1 DEF Steady, RaisedByTask
  <2>3. Told(v, i, alerts, tasks, seen, joined)
    BY <2>1 DEF ViewersFine, AllTold
  <2>. QED
    BY <1>0, <2>2, <2>3 DEF Told, TellingKept
<1>8. ViewersTyped' /\ OnConnected'
  BY <1>0, <1>4 DEF ViewersFine, ViewersTyped, OnConnected
<1>9. KnownOwn' /\ TellingOwn' /\ AllTold'
  BY <1>5, <1>6, <1>7 DEF KnownOwn, TellingOwn, AllTold
<1>. QED
  BY <1>8, <1>9 DEF ViewersFine

\* What list_alerts gives a page.
LEMMA PresentTyped ==
  ASSUME AlertsFine, NEW p
  PROVE  /\ Present(p) \in SUBSET Pairs
         /\ \A known \in Present(p) : Own(p, known[1])
         /\ \A i \in 1..Len(alerts) : Own(p, i) => <<i, alerts[i].by>> \in Present(p)
<1>1. DOMAIN alerts = 1..Len(alerts)
  BY DEF AlertsFine
<1>2. Present(p) \in SUBSET Pairs
  BY <1>1 DEF AlertsFine, Present, Pairs
<1>. QED
  BY <1>1, <1>2 DEF Present

LEMMA LoadFine ==
  ASSUME IngestInv, ViewersFine, AlertsFine, NEW p \in Page, LoadAlerts(p), UNCHANGED tasks
  PROVE  ViewersFine'
<1>1. /\ seen' = [seen EXCEPT ![p] = @ \cup Present(p)]
      /\ UNCHANGED <<messages, alerts, seat, connections, joined, tasks>>
  BY DEF LoadAlerts
<1>2. seen \in [Page -> SUBSET Pairs]
  BY DEF ViewersFine, ViewersTyped
<1>3. Present(p) \in SUBSET Pairs /\ \A known \in Present(p) : Own(p, known[1])
  BY PresentTyped
<1>4. /\ seen' \in [Page -> SUBSET Pairs] /\ seen'[p] = seen[p] \cup Present(p)
      /\ \A q \in Page : q # p => seen'[q] = seen[q]
  BY <1>1, <1>2, <1>3
<1>5. Pairs' = Pairs /\ \A q, i : Own(q, i)' <=> Own(q, i)
  BY <1>1 DEF Pairs, Own
<1>6. ViewersTyped' /\ OnConnected'
  BY <1>1, <1>4, <1>5 DEF ViewersFine, ViewersTyped, OnConnected
<1>7. KnownOwn'
  <2>. SUFFICES ASSUME NEW q \in Page, NEW known \in seen'[q] PROVE Own(q, known[1])
    BY <1>5 DEF KnownOwn
  <2>1. known \in seen[q] \/ (q = p /\ known \in Present(p))
    BY <1>4
  <2>. QED
    BY <1>3, <2>1 DEF ViewersFine, KnownOwn
<1>8. TellingOwn'
  BY <1>1, <1>5 DEF ViewersFine, TellingOwn
<1>9. AllTold'
  <2>. SUFFICES ASSUME NEW v \in Viewer, seat[v] = "on", NEW i \in 1..Len(alerts),
                       Own(PageOf[v], i)
                PROVE  Told(v, i, alerts, tasks, seen', joined)
    BY <1>1, <1>5 DEF AllTold
  <2>1. Told(v, i, alerts, tasks, seen, joined)
    BY DEF ViewersFine, AllTold
  <2>2. seen[PageOf[v]] \subseteq seen'[PageOf[v]]
    BY <1>4, PageOfViewer
  <2>. QED
    BY <2>1, <2>2 DEF Told
<1>. QED
  BY <1>6, <1>7, <1>8, <1>9 DEF ViewersFine

LEMMA ConnectFine ==
  ASSUME IngestInv, ViewersFine, AlertsFine, NEW v \in Viewer, ConnectViewer(v),
         UNCHANGED tasks
  PROVE  ViewersFine'
<1>. DEFINE mine == Present(PageOf[v])
<1>1. /\ seat' = [seat EXCEPT ![v] = "on"] /\ connections' = Append(connections, v)
      /\ joined' = [joined EXCEPT ![v] = mine] /\ UNCHANGED <<seen, alerts, messages, tasks>>
  BY DEF ConnectViewer
<1>2. /\ seat \in [Viewer -> {"none", "on", "dead", "off"}] /\ connections \in Seq(Viewer)
      /\ joined \in [Viewer -> SUBSET Pairs]
  BY DEF ViewersFine, ViewersTyped
<1>3. /\ mine \in SUBSET Pairs
      /\ \A i \in 1..Len(alerts) : Own(PageOf[v], i) => <<i, alerts[i].by>> \in mine
  BY PresentTyped
<1>. HIDE DEF mine
<1>4. /\ seat' \in [Viewer -> {"none", "on", "dead", "off"}]
      /\ \A w \in Viewer : w # v => seat'[w] = seat[w]
  BY <1>1, <1>2
<1>5. /\ joined' \in [Viewer -> SUBSET Pairs] /\ joined'[v] = mine
      /\ \A w \in Viewer : w # v => joined'[w] = joined[w]
  BY <1>1, <1>2, <1>3
<1>6. connections' \in Seq(Viewer)
  BY <1>1, <1>2, ItemAppended
<1>7. \A w \in Viewer : w = v \/ Connected(w, connections) => Connected(w, connections')
  <2>1. /\ Len(connections') = Len(connections) + 1 /\ Len(connections) \in Nat
        /\ \A i \in 1..Len(connections) : connections'[i] = connections[i]
        /\ connections'[Len(connections) + 1] = v
    BY <1>1, <1>2, ItemAppended
  <2>2. DOMAIN connections = 1..Len(connections) /\ DOMAIN connections' = 1..Len(connections')
    BY <1>2, <1>6
  <2>. QED
    BY <2>1, <2>2 DEF Connected
<1>8. Pairs' = Pairs /\ \A q, i : Own(q, i)' <=> Own(q, i)
  BY <1>1 DEF Pairs, Own
<1>9. ASSUME NEW w \in Viewer, seat'[w] = "on" PROVE Connected(w, connections')
  BY <1>4, <1>7, <1>9 DEF ViewersFine, OnConnected
<1>10. ASSUME NEW w \in Viewer, seat'[w] = "on", NEW i \in 1..Len(alerts), Own(PageOf[w], i)
       PROVE  Told(w, i, alerts, tasks, seen, joined')
  <2>1. CASE w = v
    BY <1>3, <1>5, <1>10, <2>1 DEF Told
  <2>2. CASE w # v
    BY <1>4, <1>5, <1>10, <2>2 DEF Told, ViewersFine, AllTold
  <2>. QED
    BY <2>1, <2>2
<1>11. ViewersTyped' /\ OnConnected'
  BY <1>1, <1>4, <1>5, <1>6, <1>8, <1>9 DEF ViewersFine, ViewersTyped, OnConnected
<1>12. KnownOwn' /\ TellingOwn'
  BY <1>1, <1>8 DEF ViewersFine, KnownOwn, TellingOwn
<1>13. AllTold'
  BY <1>1, <1>8, <1>10 DEF AllTold
<1>. QED
  BY <1>11, <1>12, <1>13 DEF ViewersFine

\* Without one socket, the others are still there.
LEMMA OthersStay ==
  ASSUME connections \in Seq(Viewer), NEW v
  PROVE  /\ Without(v) \in Seq(Viewer)
         /\ \A w : w # v /\ Connected(w, connections) => Connected(w, Without(v))
<1>. DEFINE kept == {k \in DOMAIN connections : connections[k] # v}
            rest == Without(v)
<1>1. rest = Sublist(connections, kept) /\ kept \in SUBSET DOMAIN connections
  BY DEF Without
<1>2. \A k \in DOMAIN connections : connections[k] # v => k \in kept
  OBVIOUS
<1>. HIDE DEF kept, rest
<1>3. rest \in Seq(Viewer)
  BY <1>1, SublistItems
<1>4. \A i \in kept : \E n \in DOMAIN rest : rest[n] = connections[i]
  BY <1>1, SublistKeeps
<1>. QED
  BY <1>2, <1>3, <1>4 DEF Connected, rest

LEMMA LeaveFine ==
  ASSUME IngestInv, ViewersFine, NEW v \in Viewer, LoseViewer(v) \/ DisconnectViewer(v),
         UNCHANGED tasks
  PROVE  ViewersFine'
<1>1. /\ seat' \in {[seat EXCEPT ![v] = "dead"], [seat EXCEPT ![v] = "off"]}
      /\ connections' \in {connections, Without(v)}
      /\ UNCHANGED <<joined, seen, alerts, messages, tasks>>
  BY DEF LoseViewer, DisconnectViewer
<1>2. seat \in [Viewer -> {"none", "on", "dead", "off"}] /\ connections \in Seq(Viewer)
  BY DEF ViewersFine, ViewersTyped
<1>3. /\ seat' \in [Viewer -> {"none", "on", "dead", "off"}]
      /\ \A w \in Viewer : seat'[w] = "on" => seat[w] = "on" /\ w # v
  BY <1>1, <1>2
<1>4. connections' \in Seq(Viewer)
  BY <1>1, <1>2, OthersStay
<1>5. \A w \in Viewer : seat'[w] = "on" => Connected(w, connections')
  BY <1>1, <1>2, <1>3, OthersStay DEF ViewersFine, OnConnected
<1>6. Pairs' = Pairs /\ \A q, i : Own(q, i)' <=> Own(q, i)
  BY <1>1 DEF Own, Pairs
<1>7. ViewersTyped' /\ OnConnected'
  BY <1>1, <1>3, <1>4, <1>5, <1>6 DEF ViewersFine, ViewersTyped, OnConnected
<1>8. KnownOwn' /\ TellingOwn'
  BY <1>1, <1>6 DEF ViewersFine, KnownOwn, TellingOwn
<1>9. AllTold'
  BY <1>1, <1>3, <1>6 DEF ViewersFine, AllTold, Told
<1>. QED
  BY <1>7, <1>8, <1>9 DEF ViewersFine

LEMMA HeadOrTail ==
  ASSUME NEW S, NEW list \in Seq(S), list # <<>>
  PROVE  /\ Head(list) \in S /\ Head(list) \in ToSet(list)
         /\ \A x \in ToSet(Tail(list)) : x \in ToSet(list)
         /\ \A x \in ToSet(list) : x # Head(list) =>
              Tail(list) # <<>> /\ x \in ToSet(Tail(list))
<1>. DEFINE rest == Tail(list)
<1>1. /\ Len(list) \in Nat \ {0} /\ Head(list) = list[1] /\ rest \in Seq(S)
      /\ Len(rest) = Len(list) - 1 /\ DOMAIN list = 1..Len(list)
      /\ \A i \in 1..Len(rest) : rest[i] = list[i + 1]
  OBVIOUS
<1>2. DOMAIN rest = 1..Len(rest)
  BY <1>1
<1>. HIDE DEF rest
<1>3. Head(list) \in S /\ Head(list) \in ToSet(list)
  BY <1>1 DEF ToSet
<1>4. ASSUME NEW x \in ToSet(rest) PROVE x \in ToSet(list)
  <2>1. PICK i \in 1..Len(rest) : rest[i] = x
    BY <1>2 DEF ToSet
  <2>2. i + 1 \in 1..Len(list) /\ list[i + 1] = x
    BY <1>1, <2>1
  <2>. QED
    BY <1>1, <2>2 DEF ToSet
<1>5. ASSUME NEW x \in ToSet(list), x # Head(list) PROVE rest # <<>> /\ x \in ToSet(rest)
  <2>1. PICK i \in 1..Len(list) : list[i] = x
    BY <1>1 DEF ToSet
  <2>2. i - 1 \in 1..Len(rest) /\ i = (i - 1) + 1
    BY <1>1, <1>5, <2>1
  <2>3. rest[i - 1] = x
    BY <1>1, <2>1, <2>2
  <2>4. x \in ToSet(rest)
    BY <1>2, <2>2, <2>3 DEF ToSet
  <2>5. rest # <<>>
    BY <2>2
  <2>. QED
    BY <2>4, <2>5
<1>. QED
  BY <1>3, <1>4, <1>5 DEF rest

LEMMA TellViewers ==
  ASSUME IngestInv, [Next]_vars, TasksFine, AlertsFine, ViewersFine, RaisedByTask,
         NEW t \in Task, Tell(t)
  PROVE  ViewersFine'
<1>. DEFINE h == Head(tasks[t].audience)
            k == tasks[t].alert
            page == PageOf[h]
<1>1. /\ tasks[t].pc = "telling" /\ UNCHANGED <<messages, alerts, seat, joined>>
      /\ \/ /\ seat[h] = "on"
            /\ seen' = [seen EXCEPT ![page] = @ \cup {<<k, t>>}]
            /\ connections' = connections
         \/ /\ seat[h] # "on" /\ connections' \in {connections, Without(h)}
            /\ seen' = seen
  BY DEF Tell, Notify
<1>2. /\ \A u \in Task : u # t => tasks'[u] = tasks[u]
      /\ tasks[t].audience \in Seq(Viewer) /\ tasks[t].audience # <<>>
      /\ tasks'[t].pc = "telling" <=> Rest(t) # <<>>
      /\ tasks'[t].pc = "telling" =>
           tasks'[t].alert = k /\ tasks'[t].audience = Rest(t)
  BY TellTask
<1>3. t \in 1..Len(messages)
  <2>1. t \in Nat /\ t # 0
    BY DEF Task
  <2>2. t <= Len(messages) /\ Len(messages) \in Nat
    BY <1>1, TaskStored
  <2>. QED
    BY <2>1, <2>2
<1>4. /\ h \in Viewer /\ h \in ToSet(tasks[t].audience)
      /\ \A x \in ToSet(Rest(t)) : x \in ToSet(tasks[t].audience)
      /\ \A x \in ToSet(tasks[t].audience) : x # h => Rest(t) # <<>> /\ x \in ToSet(Rest(t))
  BY <1>2, HeadOrTail DEF Rest
<1>5. k \in 1..Len(alerts) /\ \A v \in ToSet(tasks[t].audience) : Own(PageOf[v], k)
  BY <1>1 DEF ViewersFine, TellingOwn
<1>0. page \in Page /\ page = PageOf[h]
  BY <1>4, PageOfViewer
<1>. HIDE DEF h, k, page
<1>6. /\ seat \in [Viewer -> {"none", "on", "dead", "off"}] /\ connections \in Seq(Viewer)
      /\ seen \in [Page -> SUBSET Pairs]
  BY DEF ViewersFine, ViewersTyped
<1>7. /\ seen' \in [Page -> SUBSET Pairs]
      /\ \A p \in Page : \A known \in seen'[p] :
           known \in seen[p] \/ (p = page /\ known = <<k, t>>)
      /\ \A p \in Page : \A known \in seen[p] : known \in seen'[p]
      /\ seat[h] = "on" => <<k, t>> \in seen'[page]
  <2>1. CASE seen' = seen /\ seat[h] # "on"
    BY <1>6, <2>1
  <2>2. CASE seen' = [seen EXCEPT ![page] = @ \cup {<<k, t>>}]
    <3>1. <<k, t>> \in Pairs
      BY <1>3, <1>5 DEF Pairs
    <3>2. /\ seen'[page] = seen[page] \cup {<<k, t>>}
          /\ \A p \in Page : p # page => seen'[p] = seen[p]
      BY <1>0, <1>6, <2>2
    <3>3. seen' \in [Page -> SUBSET Pairs]
      BY <1>0, <1>6, <2>2, <3>1
    <3>. QED
      BY <3>2, <3>3
  <2>. QED
    BY <1>1, <2>1, <2>2
<1>8. /\ connections' \in Seq(Viewer)
      /\ \A v \in Viewer : seat[v] = "on" /\ Connected(v, connections) => Connected(v, connections')
  BY <1>1, <1>6, OthersStay
<1>9. Pairs' = Pairs /\ \A p, i : Own(p, i)' <=> Own(p, i)
  BY <1>1 DEF Own, Pairs
<1>10. ViewersTyped' /\ OnConnected'
  BY <1>1, <1>6, <1>7, <1>8, <1>9 DEF ViewersFine, ViewersTyped, OnConnected
<1>11. ASSUME NEW p \in Page, NEW known \in seen'[p] PROVE Own(p, known[1])
  <2>1. CASE known \in seen[p]
    BY <2>1 DEF ViewersFine, KnownOwn
  <2>2. CASE p = page /\ known = <<k, t>>
    BY <1>0, <1>4, <1>5, <2>2
  <2>. QED
    BY <1>7, <1>11, <2>1, <2>2
<1>12. ASSUME NEW u \in Task, tasks'[u].pc = "telling"
       PROVE  /\ tasks'[u].alert \in 1..Len(alerts)
              /\ \A v \in ToSet(tasks'[u].audience) : Own(PageOf[v], tasks'[u].alert)
  <2>1. CASE u = t
    BY <1>2, <1>4, <1>5, <1>12, <2>1
  <2>2. CASE u # t
    BY <1>2, <1>12, <2>2 DEF ViewersFine, TellingOwn
  <2>. QED
    BY <2>1, <2>2
<1>13. ASSUME NEW v \in Viewer, seat[v] = "on", NEW i \in 1..Len(alerts), Own(PageOf[v], i)
       PROVE  Told(v, i, alerts, tasks', seen', joined)
  <2>. DEFINE u == alerts[i].by
              about == tasks[u].pc = "telling" /\ tasks[u].alert = i
                       /\ v \in ToSet(tasks[u].audience)
  <2>1. u \in Task
    BY DEF RaisedByTask
  <2>. HIDE DEF u
  <2>2. <<i, u>> \in seen[PageOf[v]] \cup joined[v] \/ about \/ tasks[u].pc = "error"
    BY <1>13 DEF ViewersFine, AllTold, Told, u
  <2>3. CASE <<i, u>> \in seen[PageOf[v]] \cup joined[v]
    BY <1>7, <2>3, PageOfViewer DEF Told, u
  <2>4. CASE about /\ u # t
    BY <1>2, <2>1, <2>4 DEF Told, u
  <2>5. CASE i = k /\ v \in ToSet(tasks[t].audience) /\ u = t
    <3>1. CASE v = h
      BY <1>0, <1>7, <1>13, <2>5, <3>1 DEF Told, u
    <3>2. CASE v # h
      BY <1>2, <1>4, <2>5, <3>2 DEF Told, u
    <3>. QED
      BY <3>1, <3>2
  <2>6. CASE tasks[u].pc = "error"
    BY <1>1, <1>2, <2>1, <2>6 DEF Told, u
  <2>7. tasks[t].alert = k
    BY DEF k
  <2>. QED
    BY <2>2, <2>3, <2>4, <2>5, <2>6, <2>7
<1>14. KnownOwn'
  BY <1>9, <1>11 DEF KnownOwn
<1>15. TellingOwn'
  <2>. SUFFICES ASSUME NEW u \in Task, tasks'[u].pc = "telling"
                PROVE  /\ tasks'[u].alert \in 1..Len(alerts')
                       /\ \A v \in ToSet(tasks'[u].audience) : Own(PageOf[v], tasks[u].alert)'
    BY DEF TellingOwn
  <2>. QED
    BY <1>1, <1>9, <1>12
<1>16. AllTold'
  BY <1>1, <1>9, <1>13 DEF AllTold
<1>. QED
  BY <1>10, <1>14, <1>15, <1>16 DEF ViewersFine

LEMMA JudgedViewers ==
  ASSUME IngestInv, [Next]_vars, TasksFine, AlertsFine, ViewersFine, RaisedByTask,
         NEW t \in Task, Judged(t)
  PROVE  ViewersFine'
<1>. DEFINE pair == tasks[t].current
            audience == Audience(pair.child)
<1>1. tasks[t].pc = "judging" /\ UNCHANGED <<messages, seat, connections, joined, seen>>
  BY DEF Judged, viewerVars
<1>2. /\ seat \in [Viewer -> {"none", "on", "dead", "off"}] /\ connections \in Seq(Viewer)
      /\ joined \in [Viewer -> SUBSET Pairs] /\ seen \in [Page -> SUBSET Pairs]
  BY DEF ViewersFine, ViewersTyped
<1>0. PICK k : k = RaisedIndex(pair)
  OBVIOUS
<1>3. /\ \A u \in Task : u # t => tasks'[u] = tasks[u]
      /\ tasks'[t].pc = "telling" =>
           Flagged(Current(t)) /\ tasks'[t].audience = audience /\ tasks'[t].alert = k
      /\ tasks'[t].pc # "telling" /\ Flagged(Current(t)) =>
           audience = <<>> \/ tasks'[t].pc = "error"
  BY <1>0, <1>2, JudgedTask
<1>4. CASE ~Flagged(Current(t))
  <2>1. alerts' = alerts
    BY <1>4 DEF Judged
  <2>2. TellingKept
    BY <1>1, <1>3, <1>4 DEF TellingKept
  <2>. QED
    BY <1>1, <2>1, <2>2, ViewersQuiet DEF Steady, viewerVars
<1>5. CASE Flagged(Current(t))
  <2>1. /\ pair \in Judgement /\ t \in 1..Len(messages) /\ alerts' = upsert_alert(pair, t)
    BY <1>5, JudgedRaises
  <2>2. t \in Nat /\ alerts \in Seq(Alert) /\ AlertsGood
    BY TaskNumber DEF AlertsFine, IngestInv
  <2>3. /\ audience \in Seq(Viewer)
        /\ \A n \in DOMAIN audience : ViewerOf(audience[n]) = ParentOf[pair.child]
        /\ \A v : Connected(v, connections) /\ ViewerOf(v) = ParentOf[pair.child] =>
             \E n \in DOMAIN audience : audience[n] = v
    BY <1>2, AudienceItems DEF Connected
  <2>. HIDE DEF pair, audience
  <2>4. /\ alerts' \in Seq(Alert) /\ Len(alerts) \in Nat /\ k \in 1..Len(alerts')
        /\ \/ k \in 1..Len(alerts) /\ Len(alerts') = Len(alerts)
           \/ k = Len(alerts) + 1 /\ Len(alerts') = Len(alerts) + 1
        /\ \A i \in 1..Len(alerts) : i # k => alerts'[i] = alerts[i]
        /\ k \in 1..Len(alerts) =>
             alerts[k].child = pair.child /\ alerts[k].target = pair.target
        /\ alerts'[k].child = pair.child /\ alerts'[k].target = pair.target /\ alerts'[k].by = t
    BY <1>0, <2>1, <2>2, RaisedAlert, SMTT(30)
  <2>5. /\ 1..Len(alerts) \subseteq 1..Len(alerts')
        /\ \A i \in 1..Len(alerts') : i # k => i \in 1..Len(alerts)
        /\ \A i \in 1..Len(alerts) : alerts'[i].child = alerts[i].child
    BY <2>4
  <2>6. \A p, i : i \in 1..Len(alerts) => (Own(p, i)' <=> Own(p, i))
    BY <2>5 DEF Own
  <2>7. \A v : Own(PageOf[v], k)' <=> ViewerOf(v) = ParentOf[pair.child]
    BY <2>4 DEF Own, ViewerOf
  <2>8. ViewersTyped'
    <3>1. Pairs \subseteq Pairs'
      BY <1>1, <2>5 DEF Pairs
    <3>. QED
      BY <1>1, <1>2, <3>1 DEF ViewersTyped
  <2>9. KnownOwn'
    <3>. SUFFICES ASSUME NEW p \in Page, NEW known \in seen[p] PROVE Own(p, known[1])'
      BY <1>1 DEF KnownOwn
    <3>1. known[1] \in 1..Len(alerts) /\ Own(p, known[1])
      BY <1>2 DEF ViewersFine, KnownOwn, Pairs
    <3>. QED
      BY <2>6, <3>1
  <2>10. OnConnected'
    BY <1>1 DEF ViewersFine, OnConnected
  <2>11. TellingOwn'
    <3>. SUFFICES ASSUME NEW u \in Task, tasks'[u].pc = "telling"
                  PROVE  /\ tasks'[u].alert \in 1..Len(alerts')
                         /\ \A v \in ToSet(tasks'[u].audience) : Own(PageOf[v], tasks[u].alert)'
      BY DEF TellingOwn
    <3>1. CASE u = t
      <4>1. tasks'[u].alert = k /\ tasks'[u].audience = audience
        BY <1>3, <3>1
      <4>2. \A v \in ToSet(audience) : Own(PageOf[v], k)'
        BY <2>3, <2>7 DEF ToSet
      <4>3. \A p : Own(p, tasks[u].alert)' <=> Own(p, k)'
        BY <4>1 DEF Own
      <4>. QED
        BY <2>4, <4>1, <4>2, <4>3
    <3>2. CASE u # t
      <4>1. /\ tasks'[u] = tasks[u] /\ tasks[u].alert \in 1..Len(alerts)
            /\ \A v \in ToSet(tasks[u].audience) : Own(PageOf[v], tasks[u].alert)
        BY <1>3, <3>2 DEF ViewersFine, TellingOwn
      <4>2. \A p : Own(p, tasks[u].alert)' <=> Own(p, tasks[u].alert)
        BY <2>5, <4>1 DEF Own
      <4>. QED
        BY <2>5, <4>1, <4>2
    <3>. QED
      BY <3>1, <3>2
  <2>12. AllTold'
    <3>. SUFFICES ASSUME NEW v \in Viewer, seat[v] = "on", NEW i \in 1..Len(alerts'),
                         Own(PageOf[v], i)'
                  PROVE  Told(v, i, alerts', tasks', seen, joined)
      BY <1>1 DEF AllTold
    <3>1. CASE i = k
      <4>1. ViewerOf(v) = ParentOf[pair.child]
        BY <2>7, <3>1
      <4>2. Connected(v, connections)
        BY DEF ViewersFine, OnConnected
      <4>3. PICK n \in DOMAIN audience : audience[n] = v
        BY <2>3, <4>1, <4>2
      <4>4. audience # <<>>
        BY <4>3
      <4>5. v \in ToSet(audience)
        BY <4>3 DEF ToSet
      <4>6. \/ tasks'[t].pc = "error"
            \/ tasks'[t].pc = "telling" /\ tasks'[t].audience = audience /\ tasks'[t].alert = k
        BY <1>3, <1>5, <4>4
      <4>. QED
        BY <2>4, <3>1, <4>5, <4>6 DEF Told
    <3>2. CASE i # k
      <4>1. i \in 1..Len(alerts) /\ alerts'[i] = alerts[i] /\ Own(PageOf[v], i)
        BY <2>4, <2>5, <2>6, <3>2
      <4>. DEFINE u == alerts[i].by
      <4>2. u \in Task
        BY <4>1 DEF RaisedByTask
      <4>. HIDE DEF u
      <4>3. Told(v, i, alerts, tasks, seen, joined)
        BY <4>1 DEF ViewersFine, AllTold
      <4>4. tasks[u].pc \in {"telling", "error"} => u # t /\ tasks'[u] = tasks[u]
        BY <1>1, <1>3, <4>2
      <4>. QED
        BY <4>1, <4>3, <4>4 DEF Told, u
    <3>. QED
      BY <3>1, <3>2
  <2>. QED
    BY <2>8, <2>9, <2>10, <2>11, <2>12 DEF ViewersFine
<1>. QED
  BY <1>4, <1>5

\* What the dashboards are told, and of whom, is kept by every step.
LEMMA ViewersKept ==
  ASSUME IngestInv, [Next]_vars, TasksFine, AlertsFine, ViewersFine, RaisedByTask
  PROVE  ViewersFine'
<1>1. ASSUME alerts' = alerts, TellingKept, UNCHANGED viewerVars
      PROVE  ViewersFine'
  BY <1>1, ViewersQuiet DEF Steady
<1>2. tasks' = tasks => TellingKept
  BY DEF TellingKept
<1>3. CASE UNCHANGED vars
  BY <1>1, <1>2, <1>3 DEF vars, storeVars
<1>4. ASSUME NEW user \in writing.users, NEW minutes \in writing.minutes,
             process_ingest(user, minutes)
      PROVE  ViewersFine'
  <2>1. TellingKept
    BY <1>4, ProcessFine
  <2>2. alerts' = alerts /\ UNCHANGED viewerVars
    BY <1>4 DEF process_ingest
  <2>. QED
    BY <1>1, <2>1, <2>2
<1>5. ASSUME NEW t \in Task, Wake(t) \/ EnterLock(t) \/ JudgingFails(t) PROVE ViewersFine'
  <2>1. TellingKept
    BY <1>2, <1>5, WakeFine, JudgingFailsFine DEF EnterLock
  <2>2. alerts' = alerts /\ UNCHANGED viewerVars
    BY <1>5 DEF Wake, EnterLock, JudgingFails, storeVars
  <2>. QED
    BY <1>1, <2>1, <2>2
<1>6. CASE UNCHANGED <<storeVars, tasks, children, writing>>
  BY <1>1, <1>2, <1>6 DEF storeVars
<1>7. CASE StoreStep /\ UNCHANGED tasks
  <2>1. TellingKept
    BY <1>2, <1>7
  <2>2. CASE ExpireCache
    BY <1>1, <2>1, <2>2 DEF ExpireCache
  <2>3. /\ \A p \in Page : LoadAlerts(p) => ViewersFine'
        /\ \A v \in Viewer : ConnectViewer(v) => ViewersFine'
    BY <1>7, LoadFine, ConnectFine
  <2>4. ASSUME NEW v \in Viewer, LoseViewer(v) \/ DisconnectViewer(v) PROVE ViewersFine'
    BY <1>7, <2>4, LeaveFine
  <2>5. ASSUME NEW c \in Analyst, NEW i \in DOMAIN alerts, BeginAnalysis(c, i)
        PROVE  ViewersFine'
    BY <1>1, <2>1, <2>5 DEF BeginAnalysis
  <2>6. ASSUME NEW call \in analysing, FailAnalysis(call) PROVE ViewersFine'
    BY <1>1, <2>1, <2>6 DEF FailAnalysis
  <2>7. alerts \in Seq(Alert)
    BY DEF AlertsFine
  <2>8. ASSUME NEW i \in DOMAIN alerts, acknowledge_alert(i) PROVE ViewersFine'
    <3>1. alerts' = [alerts EXCEPT ![i].acknowledged = TRUE]
          /\ UNCHANGED viewerVars
      BY <2>8 DEF acknowledge_alert
    <3>2. Steady
      BY <2>7, <3>1 DEF Steady, Alert
    <3>. QED
      BY <2>1, <3>1, <3>2, ViewersQuiet
  <2>9. ASSUME NEW call \in analysing, NEW found \in Findings, EndAnalysis(call, found)
        PROVE  ViewersFine'
    <3>1. PICK list : alerts' = [alerts EXCEPT ![call.alert].stages = list]
      BY <2>9 DEF EndAnalysis
    <3>2. Steady
      BY <2>7, <3>1 DEF Steady, Alert
    <3>3. UNCHANGED viewerVars
      BY <2>9 DEF EndAnalysis
    <3>. QED
      BY <2>1, <3>2, <3>3, ViewersQuiet
  <2>. QED
    BY <1>7, <2>2, <2>3, <2>4, <2>5, <2>6, <2>8, <2>9 DEF StoreStep
<1>. QED
  BY <1>3, <1>4, <1>5, <1>6, <1>7, JudgedViewers, TellViewers DEF Next, TaskGoesOn

-----------------------------------------------------------------------------
(* The stream's own state, the cache with its rows, and the bounds. *)

StreamTyped ==
  /\ websocket \in Socket \cup {None}
  /\ connection \in [Socket -> {"none", "open", "closing", "gone"}]
  /\ inference \subseteq Request
  /\ results \subseteq Result /\ verdicts \subseteq Verdict

OneEntry == \A c, d \in cache : c = d

BoundsFine == budget \in [Event -> Nat] /\ Len(messages) <= MaxMessages

LEMMA RaisedIsTask ==
  ASSUME IngestInv, AlertsFine, BoundsFine
  PROVE  RaisedByTask
<1>1. MaxMessages \in Nat /\ Len(messages) \in Nat
  BY IngestAssumption, StoredCount DEF IngestInv
<1>. QED
  BY <1>1 DEF AlertsFine, BoundsFine, RaisedByTask, Task

\* What a task that goes on sends is of the pairs it has to judge.
LEMMA ClassifySends ==
  ASSUME NEW r \in Request, NEW queue, NEW futures, classify(r, queue, futures),
         inference \subseteq Request
  PROVE  inference' \subseteq Request
  BY DEF classify, Send

LEMMA ContinueSends ==
  ASSUME NEW t \in Task, NEW todo \in SUBSET Judgement, NEW log, NEW queue, NEW futures,
         NEW list, Continue(t, todo, log, queue, futures, list), inference \subseteq Request
  PROVE  inference' \subseteq Request
<1>1. ASSUME NEW j \in todo, classify(Asked(t, j), queue, futures)
      PROVE  inference' \subseteq Request
  <2>1. IsPair(j)
    BY DEF Judgement, IsPair
  <2>2. Asked(t, j) \in Request
    BY <2>1, AskedIsRequest
  <2>. QED
    BY <1>1, <2>2, ClassifySends
<1>. QED
  BY <1>1, ContinueCases DEF Asks, Rests, Leave

LEMMA StreamKept ==
  ASSUME IngestInv, [Next]_vars, TasksFine, StreamTyped
  PROVE  StreamTyped'
<1>1. ASSUME UNCHANGED <<websocket, connection, results, verdicts>>,
             inference' \subseteq Request
      PROVE  StreamTyped'
  BY <1>1 DEF StreamTyped
<1>2. \A t \in Task : tasks[t].todo \in SUBSET Judgement
  BY DEF TasksFine, TaskGood, TaskState
<1>3. inference \subseteq Request
  BY DEF StreamTyped
<1>4. CASE UNCHANGED vars
  BY <1>1, <1>3, <1>4 DEF vars, streamVars
<1>5. ASSUME NEW user \in writing.users, NEW minutes \in writing.minutes,
             process_ingest(user, minutes)
      PROVE  StreamTyped'
  <2>. DEFINE n == Len(messages) + 1
              todo == Judgements(messages', Collection(n))
  <2>1. /\ n \in Task
        /\ \/ \E list : Continue(n, todo, messages', lock, future, list)
           \/ UNCHANGED inference
    BY <1>5 DEF process_ingest, Leave
  <2>2. todo \in SUBSET Judgement
    BY <1>5, ProcessJudges
  <2>. HIDE DEF n, todo
  <2>3. inference' \subseteq Request
    BY <1>3, <2>1, <2>2, ContinueSends
  <2>. QED
    BY <1>1, <1>5, <2>3 DEF process_ingest
<1>6. ASSUME NEW t \in Task, TaskGoesOn(t) PROVE StreamTyped'
  <2>1. CASE Wake(t)
    <3>1. tasks[t].pc = "connecting"
          /\ (classify(Current(t), lock, future) \/ UNCHANGED inference)
      BY <2>1 DEF Wake, Leave
    <3>2. Current(t) \in Request
      <4>1. IsPair(tasks[t].current)
        BY <3>1 DEF IngestInv, TasksGood, StateGood
      <4>. QED
        BY <4>1, AskedIsRequest DEF Current
    <3>3. inference' \subseteq Request
      BY <1>3, <3>1, <3>2, ClassifySends
    <3>. QED
      BY <1>1, <2>1, <3>3 DEF Wake
  <2>2. CASE EnterLock(t)
    <3>1. tasks[t].pc = "judging" /\ Acquire(Current(t))
      BY <2>2 DEF EnterLock
    <3>2. Current(t) \in Request
      <4>1. IsPair(tasks[t].current)
        BY <3>1 DEF IngestInv, TasksGood, StateGood
      <4>. QED
        BY <4>1, AskedIsRequest DEF Current
    <3>3. inference' \subseteq Request
      BY <1>3, <3>1, <3>2 DEF Acquire, Send
    <3>. QED
      BY <1>1, <3>1, <3>3 DEF Acquire
  <2>3. CASE JudgingFails(t)
    BY <1>1, <1>3, <2>3 DEF JudgingFails, Fail
  <2>4. CASE Judged(t)
    <3>0. \/ \E queue, futures, list :
               Continue(t, tasks[t].todo, messages, queue, futures, list)
          \/ UNCHANGED inference
      BY <2>4 DEF Judged, Leave
    <3>1. inference' \subseteq Request
      BY <1>2, <1>3, <3>0, ContinueSends
    <3>. QED
      BY <1>1, <2>4, <3>1 DEF Judged
  <2>5. CASE Tell(t)
    <3>1. inference' \subseteq Request
      BY <1>2, <1>3, <2>5, ContinueSends DEF Tell
    <3>. QED
      BY <1>1, <2>5, <3>1 DEF Tell
  <2>. QED
    BY <1>6, <2>1, <2>2, <2>3, <2>4, <2>5 DEF TaskGoesOn
<1>7. CASE StreamStep
  <2>1. ASSUME NEW s \in Socket, connect(s) PROVE StreamTyped'
    BY <2>1 DEF connect, StreamTyped
  <2>2. ASSUME NEW s \in Socket, Drop(s) PROVE StreamTyped'
    BY <2>2 DEF Drop, StreamTyped
  <2>3. ASSUME NEW s \in Socket, disconnect(s) PROVE StreamTyped'
    BY <2>3 DEF disconnect, StreamTyped
  <2>4. ASSUME NEW r \in inference, NEW flagged \in BOOLEAN, handle_message(r, flagged)
        PROVE  StreamTyped'
    <3>1. r \in Request
      BY <1>3
    <3>2. verdicts' \subseteq Verdict /\ results' \subseteq Result
      BY <2>4, <3>1 DEF handle_message, Completed, StreamTyped, Verdict, Result
    <3>. QED
      BY <2>4, <3>2 DEF handle_message, StreamTyped
  <2>5. ASSUME NEW r \in inference, LoseJob(r) PROVE StreamTyped'
    BY <1>1, <1>3, <2>5 DEF LoseJob
  <2>. QED
    BY <1>7, <2>1, <2>2, <2>3, <2>4, <2>5 DEF StreamStep
<1>8. CASE UNCHANGED streamVars
  BY <1>1, <1>3, <1>8 DEF streamVars
<1>. QED
  BY <1>4, <1>5, <1>6, <1>7, <1>8 DEF Next

\* Each cached row is of a load, whatever is read, committed or closed.
RowsTyped == rows \in Seq(RowSet)

LEMMA RowsOf ==
  ASSUME NEW list \in Seq(RowSet), NEW session
  PROVE  /\ \A g, ids : Read(list, g, ids) \in Seq(RowSet)
         /\ Commit(list, session) \in Seq(RowSet) /\ Close(list, session) \in Seq(RowSet)
<1>1. Len(list) \in Nat /\ DOMAIN list = 1..Len(list) /\ \A g \in 1..Len(list) : list[g] \in RowSet
  OBVIOUS
<1>2. ASSUME NEW g, NEW ids PROVE Read(list, g, ids) \in Seq(RowSet)
  <2>. DEFINE a == [list[g] EXCEPT !.expired = @ \ ids]
  <2>1. Read(list, g, ids) = [list EXCEPT ![g] = a]
    BY DEF Read
  <2>2. g \in DOMAIN list => a \in RowSet
    BY <1>1 DEF RowSet
  <2>. HIDE DEF a
  <2>. QED
    BY <2>1, <2>2, ItemChanged
<1>3. Commit(list, session) \in Seq(RowSet)
  <2>. DEFINE f == Commit(list, session)
  <2>1. \A g \in 1..Len(list) : f[g] \in RowSet
    <3>. SUFFICES ASSUME NEW g \in 1..Len(list) PROVE f[g] \in RowSet
      OBVIOUS
    <3>1. list[g] \in RowSet /\ list[g].count \in Nat /\ list[g].expired \in SUBSET Nat
      BY <1>1 DEF RowSet
    <3>2. PICK e : e \in SUBSET Nat /\ f[g] = [list[g] EXCEPT !.expired = e]
      <4>1. 1..list[g].count \in SUBSET Nat
        BY <3>1
      <4>2. f[g] = [list[g] EXCEPT !.expired =
                      IF list[g].open /\ list[g].by = session THEN 1..list[g].count
                      ELSE list[g].expired]
        BY <1>1 DEF Commit
      <4>. QED
        BY <3>1, <4>1, <4>2
    <3>. HIDE DEF f
    <3>. QED
      BY <3>1, <3>2 DEF RowSet
  <2>2. f = [g \in 1..Len(list) |-> f[g]]
    BY <1>1 DEF Commit
  <2>. HIDE DEF f
  <2>. QED
    BY <1>1, <2>1, <2>2, ListOf DEF f
<1>4. Close(list, session) \in Seq(RowSet)
  <2>. DEFINE f == Close(list, session)
  <2>1. \A g \in 1..Len(list) : f[g] \in RowSet
    <3>. SUFFICES ASSUME NEW g \in 1..Len(list) PROVE f[g] \in RowSet
      OBVIOUS
    <3>1. list[g] \in RowSet
      BY <1>1
    <3>2. PICK o \in BOOLEAN : f[g] = [list[g] EXCEPT !.open = o]
      BY <1>1, <3>1 DEF Close, RowSet
    <3>. HIDE DEF f
    <3>. QED
      BY <3>1, <3>2 DEF RowSet
  <2>2. f = [g \in 1..Len(list) |-> f[g]]
    BY <1>1 DEF Close
  <2>. HIDE DEF f
  <2>. QED
    BY <1>1, <2>1, <2>2, ListOf DEF f
<1>. QED
  BY <1>2, <1>3, <1>4

LEMMA SyncedTyped ==
  ASSUME RowsTyped, NEW count \in Nat, NEW session \in Session
  PROVE  Synced(count, session) \in Seq(RowSet)
<1>. DEFINE a == [count |-> count, by |-> session, open |-> TRUE, expired |-> {}]
<1>1. a \in RowSet
  BY DEF RowSet
<1>. HIDE DEF a
<1>2. Append(rows, a) \in Seq(RowSet)
  BY <1>1 DEF RowsTyped
<1>. QED
  BY <1>2 DEF Synced, RowsTyped, a

LEMMA ContinueRows ==
  ASSUME NEW t, NEW todo, NEW log, NEW queue, NEW futures, NEW list \in Seq(RowSet),
         Continue(t, todo, log, queue, futures, list)
  PROVE  RowsTyped'
<1>1. rows' = Close(list, <<"ingest", t>>) \/ \E g, ids : rows' = Read(list, g, ids)
  BY DEF Continue, End
<1>. QED
  BY <1>1, RowsOf DEF RowsTyped

LEMMA RowsKept ==
  ASSUME IngestInv, [Next]_vars, RowsTyped
  PROVE  RowsTyped'
<1>1. CASE UNCHANGED rows
  BY <1>1 DEF RowsTyped
<1>2. rows \in Seq(RowSet)
  BY DEF RowsTyped
<1>3. ASSUME NEW user \in writing.users, NEW minutes \in writing.minutes,
             process_ingest(user, minutes)
      PROVE  RowsTyped'
  <2>. DEFINE n == Len(messages) + 1
              synced == Synced(n, <<"ingest", n>>)
  <2>1. n \in Nat
    BY MessagesGrow
  <2>2. synced \in Seq(RowSet)
    BY <2>1, SyncedTyped DEF Session
  <2>3. \/ rows' = Close(synced, <<"ingest", n>>)
        \/ \E g, ids : Continue(n, Judgements(messages', Collection(n)), messages', lock, future,
                                Read(synced, g, ids))
    BY <1>3 DEF process_ingest, End
  <2>. HIDE DEF synced, n
  <2>4. \A g, ids : Read(synced, g, ids) \in Seq(RowSet)
    BY <2>2, RowsOf
  <2>5. Close(synced, <<"ingest", n>>) \in Seq(RowSet)
    BY <2>2, RowsOf
  <2>. QED
    BY <2>3, <2>4, <2>5, ContinueRows DEF RowsTyped
<1>4. ASSUME NEW t \in Task, Wake(t) \/ EnterLock(t) \/ JudgingFails(t) PROVE RowsTyped'
  <2>1. UNCHANGED rows \/ rows' = Close(rows, <<"ingest", t>>)
    BY <1>4 DEF Wake, EnterLock, JudgingFails, End, storeVars
  <2>. QED
    BY <1>1, <1>2, <2>1, RowsOf DEF RowsTyped
<1>5. ASSUME NEW t \in Task, Judged(t) PROVE RowsTyped'
  <2>. DEFINE session == <<"ingest", t>>
              saved == Commit(rows, session)
              Reads == {list \in Seq(RowSet) : \E g, ids : list = Read(saved, g, ids)}
  <2>1. saved \in Seq(RowSet)
    BY <1>2, RowsOf
  <2>2. \A g, ids : Read(saved, g, ids) \in Reads
    BY <2>1, RowsOf
  <2>3. \/ \E queue, futures : Continue(t, tasks[t].todo, messages, queue, futures, rows)
        \/ rows' = Close(saved, session)
        \/ \E g, ids :
             \/ rows' = Read(saved, g, ids)
             \/ \E queue, futures :
                  Continue(t, tasks[t].todo, messages, queue, futures,
                           Commit(Read(saved, g, ids), session))
    BY <1>5 DEF Judged, End
  <2>. HIDE DEF saved, session
  <2>4. \A list \in Reads : Commit(list, session) \in Seq(RowSet)
    BY RowsOf
  <2>5. CASE \E queue, futures : Continue(t, tasks[t].todo, messages, queue, futures, rows)
    BY <1>2, <2>5, ContinueRows
  <2>6. CASE rows' = Close(saved, session)
    BY <2>1, <2>6, RowsOf DEF RowsTyped
  <2>7. CASE \E g, ids : rows' = Read(saved, g, ids)
    BY <2>2, <2>7 DEF RowsTyped
  <2>8. ASSUME NEW g, NEW ids, NEW queue, NEW futures,
               Continue(t, tasks[t].todo, messages, queue, futures,
                        Commit(Read(saved, g, ids), session))
        PROVE  RowsTyped'
    <3>1. Commit(Read(saved, g, ids), session) \in Seq(RowSet)
      BY <2>2, <2>4
    <3>. QED
      BY <2>8, <3>1, ContinueRows
  <2>. QED
    BY <2>3, <2>5, <2>6, <2>7, <2>8
<1>6. ASSUME NEW t \in Task, Tell(t) PROVE RowsTyped'
  <2>1. Commit(rows, <<"ingest", t>>) \in Seq(RowSet)
    BY <1>2, RowsOf
  <2>. QED
    BY <1>1, <1>6, <2>1, ContinueRows DEF Tell
<1>7. CASE UNCHANGED storeVars
  BY <1>1, <1>7 DEF storeVars
<1>8. CASE StoreStep
  <2>1. ASSUME NEW c \in Analyst, NEW i, BeginAnalysis(c, i) PROVE RowsTyped'
    <3>. DEFINE synced == Synced(Len(messages), <<"analysis", c>>)
    <3>1. Len(messages) \in Nat
      BY MessagesGrow
    <3>2. synced \in Seq(RowSet)
      BY <3>1, SyncedTyped DEF Session
    <3>3. \E g, ids : rows' = Read(synced, g, ids)
      BY <2>1 DEF BeginAnalysis
    <3>. HIDE DEF synced
    <3>. QED
      BY <3>2, <3>3, RowsOf DEF RowsTyped
  <2>2. ASSUME NEW call, NEW found, EndAnalysis(call, found) PROVE RowsTyped'
    <3>. DEFINE session == <<"analysis", call.by>>
    <3>1. rows' = Close(Commit(rows, session), session)
      BY <2>2 DEF EndAnalysis
    <3>2. Commit(rows, session) \in Seq(RowSet)
      BY <1>2, RowsOf
    <3>. QED
      BY <3>1, <3>2, RowsOf DEF RowsTyped
  <2>3. ASSUME NEW call, FailAnalysis(call) PROVE RowsTyped'
    BY <1>2, <2>3, RowsOf DEF FailAnalysis, RowsTyped
  <2>. QED
    BY <1>1, <1>8, <2>1, <2>2, <2>3 DEF StoreStep, ExpireCache, acknowledge_alert, LoadAlerts,
                                        ConnectViewer, LoseViewer, DisconnectViewer
<1>9. CASE UNCHANGED vars
  BY <1>1, <1>9 DEF vars, storeVars
<1>. QED
  BY <1>3, <1>4, <1>5, <1>6, <1>7, <1>8, <1>9 DEF Next, TaskGoesOn

LEMMA EntryKept ==
  ASSUME IngestInv, [Next]_vars, OneEntry
  PROVE  OneEntry'
<1>1. cache' = cache => OneEntry'
  BY DEF OneEntry
<1>2. ASSUME NEW c, cache' \subseteq {c} PROVE OneEntry'
  BY <1>2 DEF OneEntry
<1>3. CASE UNCHANGED vars
  BY <1>1, <1>3 DEF vars, storeVars
<1>4. ASSUME NEW user \in writing.users, NEW minutes \in writing.minutes,
             process_ingest(user, minutes)
      PROVE  OneEntry'
  BY <1>2, <1>4 DEF process_ingest
<1>5. ASSUME NEW t \in Task, TaskGoesOn(t) PROVE OneEntry'
  BY <1>1, <1>5 DEF TaskGoesOn, Wake, EnterLock, JudgingFails, Judged, Tell, storeVars
<1>6. CASE UNCHANGED storeVars
  BY <1>1, <1>6 DEF storeVars
<1>7. CASE StoreStep
  <2>1. CASE ExpireCache
    BY <1>2, <2>1 DEF ExpireCache
  <2>2. ASSUME NEW c \in Analyst, NEW i \in DOMAIN alerts, BeginAnalysis(c, i)
        PROVE  OneEntry'
    BY <1>2, <2>2 DEF BeginAnalysis
  <2>3. CASE UNCHANGED cache
    BY <1>1, <2>3
  <2>. QED
    BY <1>7, <2>1, <2>2, <2>3 DEF StoreStep, acknowledge_alert, LoadAlerts, ConnectViewer,
                                  LoseViewer, DisconnectViewer, FailAnalysis, EndAnalysis
<1>. QED
  BY <1>3, <1>4, <1>5, <1>6, <1>7 DEF Next

LEMMA SpendTyped ==
  ASSUME budget \in [Event -> Nat], NEW event \in Event, Spend(event)
  PROVE  budget' \in [Event -> Nat]
  BY DEF Spend

LEMMA BoundsKept ==
  ASSUME IngestInv, [Next]_vars, BoundsFine
  PROVE  BoundsFine'
<1>1. budget \in [Event -> Nat] /\ Len(messages) <= MaxMessages
  BY DEF BoundsFine
<1>2. ASSUME UNCHANGED messages, UNCHANGED budget \/ \E event \in Event : Spend(event)
      PROVE  BoundsFine'
  BY <1>1, <1>2, SpendTyped DEF BoundsFine
<1>3. CASE UNCHANGED vars
  BY <1>2, <1>3 DEF vars, storeVars
<1>4. ASSUME NEW user \in writing.users, NEW minutes \in writing.minutes,
             process_ingest(user, minutes)
      PROVE  BoundsFine'
  <2>1. Spend("messages") /\ Len(messages) + 1 \in Task
        /\ \E m : messages' = Append(messages, m)
    BY <1>4 DEF process_ingest
  <2>2. "messages" \in Event
    BY DEF Event
  <2>3. budget' \in [Event -> Nat]
    BY <1>1, <2>1, <2>2, SpendTyped
  <2>4. messages \in Seq(Stored) /\ messages' \in Seq(Stored)
    BY MessagesGrow
  <2>5. Len(messages') = Len(messages) + 1
    BY <2>1, <2>4
  <2>. QED
    BY <2>1, <2>3, <2>5 DEF BoundsFine, Task
<1>5. ASSUME NEW t \in Task, TaskGoesOn(t) PROVE BoundsFine'
  BY <1>2, <1>5 DEF TaskGoesOn, Wake, EnterLock, JudgingFails, Judged, Tell, storeVars
<1>6. CASE StreamStep /\ UNCHANGED storeVars
  <2>1. UNCHANGED budget \/ \E event \in Event : Spend(event)
    BY <1>6 DEF StreamStep, Event
  <2>. QED
    BY <1>2, <1>6, <2>1 DEF storeVars
<1>7. CASE StoreStep
  <2>1. UNCHANGED budget \/ \E event \in Event : Spend(event)
    BY <1>7 DEF StoreStep, Event
  <2>2. UNCHANGED messages
    BY <1>7 DEF StoreStep, ExpireCache, acknowledge_alert, LoadAlerts, ConnectViewer,
                LoseViewer, DisconnectViewer, BeginAnalysis, FailAnalysis, EndAnalysis
  <2>. QED
    BY <1>2, <2>1, <2>2
<1>. QED
  BY <1>3, <1>4, <1>5, <1>6, <1>7 DEF Next

-----------------------------------------------------------------------------
(* The whole invariant. *)

IngestFine ==
  /\ IngestInv /\ TasksFine /\ AlertsFine /\ ViewersFine
  /\ StreamTyped /\ RowsTyped /\ OneEntry /\ BoundsFine

LEMMA InitFine == Init => IngestFine
<1>. SUFFICES ASSUME Init PROVE IngestFine
  OBVIOUS
<1>1. IngestInv
  BY InitInv
<1>2. TasksFine
  <2>1. tasks = [t \in Task |-> Idle]
    BY DEF Init
  <2>2. TaskGood(Idle) /\ Work(Idle) = {}
    BY IdleTyped DEF TaskGood, Work, Idle, Running
  <2>. QED
    BY <2>1, <2>2 DEF TasksFine
<1>3. alerts = <<>> /\ analyses = <<>> /\ analysing = {} /\ messages = <<>> /\ cache = {}
  BY DEF Init, StoreInit
<1>4. AlertsFine
  BY <1>3 DEF AlertsFine
<1>5. ViewersFine
  <2>1. /\ seat = [v \in Viewer |-> "none"] /\ joined = [v \in Viewer |-> {}]
        /\ seen = [p \in Page |-> {}] /\ connections = <<>> /\ \A t \in Task : tasks[t].pc = "none"
    BY DEF Init, StoreInit, Idle
  <2>2. ViewersTyped
    BY <2>1 DEF ViewersTyped
  <2>3. KnownOwn /\ OnConnected /\ TellingOwn /\ AllTold
    BY <2>1 DEF KnownOwn, OnConnected, TellingOwn, AllTold
  <2>. QED
    BY <2>2, <2>3 DEF ViewersFine
<1>6. StreamTyped
  BY DEF Init, StreamInit, StreamTyped
<1>7. OneEntry /\ RowsTyped
  BY <1>3 DEF OneEntry, RowsTyped, Init, StoreInit
<1>8. BoundsFine
  <2>1. \E start \in Starts : budget = start.bounds
    BY DEF Init
  <2>2. Len(messages) = 0
    BY <1>3
  <2>. QED
    BY <2>1, <2>2, IngestAssumption DEF BoundsFine
<1>. QED
  BY <1>1, <1>2, <1>4, <1>5, <1>6, <1>7, <1>8 DEF IngestFine

LEMMA NextFine == IngestFine /\ [Next]_vars => IngestFine'
<1>. SUFFICES ASSUME IngestFine, [Next]_vars PROVE IngestFine'
  OBVIOUS
<1>1. /\ IngestInv /\ TasksFine /\ AlertsFine /\ ViewersFine
      /\ StreamTyped /\ RowsTyped /\ OneEntry /\ BoundsFine
  BY DEF IngestFine
<1>2. RaisedByTask
  BY <1>1, RaisedIsTask
<1>3. connections \in Seq(Viewer)
  BY <1>1 DEF ViewersFine, ViewersTyped
<1>4. IngestInv' /\ StreamTyped' /\ RowsTyped' /\ OneEntry' /\ BoundsFine'
  BY <1>1, NextKeeps, StreamKept, RowsKept, EntryKept, BoundsKept
<1>5. TasksFine' /\ AlertsFine'
  BY <1>1, <1>3, TasksKept, AlertsKept
<1>6. ViewersFine'
  BY <1>1, <1>2, ViewersKept
<1>. QED
  BY <1>4, <1>5, <1>6 DEF IngestFine

(* What is judged, the alerts and their records, and what the dashboards   *)
(* are told keep to their parts of the invariant through every step of     *)
(* every task, page, socket and analysis.                                  *)
THEOREM IngestIsFine == Spec => []IngestFine
<1>. QED
  BY InitFine, NextFine, PTL DEF Spec

(* The store, the stream's ends and the tasks keep their types: the cache  *)
(* has one entry of stored messages, every alert has its record, and what  *)
(* the dashboards know are alerts there are, of messages there are.        *)
THEOREM IngestTyped == Spec => []TypeOK
<1>1. ASSUME IngestFine PROVE TypeOK
  <2>1. /\ IngestInv /\ TasksFine /\ AlertsFine /\ ViewersFine
        /\ StreamTyped /\ RowsTyped /\ OneEntry /\ BoundsFine
    BY <1>1 DEF IngestFine
  <2>2. /\ messages \in Seq(Stored) /\ children \in Seq(DOMAIN ParentOf)
        /\ writing.users \subseteq User /\ writing.minutes \subseteq Nat
    BY <2>1 DEF IngestInv, StoreGood
  <2>3. DOMAIN messages = 1..Len(messages)
    BY <2>2
  <2>4. cache \subseteq Seq(DOMAIN messages)
    BY <2>1, <2>3 DEF IngestInv, CacheGood, Holds
  <2>5. Cardinality(cache) <= 1
    <3>1. CASE cache = {}
      <4>1. Cardinality(cache) = 0
        BY <3>1, FS_EmptySet
      <4>. QED
        BY <4>1
    <3>2. ASSUME NEW c \in cache PROVE Cardinality(cache) <= 1
      <4>1. cache = {c}
        BY <2>1 DEF OneEntry
      <4>2. Cardinality({c}) = 1
        BY FS_Singleton
      <4>3. Cardinality(cache) = 1
        BY <4>1, <4>2
      <4>. QED
        BY <4>3
    <3>. QED
      BY <3>1, <3>2
  <2>6. /\ alerts \in Seq(Alert) /\ analyses \in Seq(Record) /\ Len(analyses) = Len(alerts)
        /\ analysing \subseteq Analysing
    BY <2>1 DEF AlertsFine
  <2>7. DOMAIN alerts = 1..Len(alerts) /\ analyses \in [DOMAIN alerts -> Record]
    BY <2>6
  <2>8. /\ seat \in [Viewer -> {"none", "on", "dead", "off"}] /\ connections \in Seq(Viewer)
        /\ joined \in [Viewer -> SUBSET ((DOMAIN alerts) \X (DOMAIN messages))]
        /\ seen \in [Page -> SUBSET ((DOMAIN alerts) \X (DOMAIN messages))]
        /\ rows \in Seq(RowSet)
    BY <2>1, <2>3, <2>7 DEF ViewersFine, ViewersTyped, Pairs, RowsTyped
  <2>9. StoreTypeOK
    BY <2>2, <2>4, <2>5, <2>6, <2>7, <2>8 DEF StoreTypeOK
  <2>10. lock \in Seq(Request) /\ pending \subseteq Request /\ future \in [Request -> FutureState]
    BY <2>1 DEF IngestInv, Held
  <2>11. FutureState =
           {"none", "queued", "waiting", "lost", "set", "returned", "failed"}
    BY DEF FutureState, Active
  <2>12. StreamTypeOK
    BY <2>1, <2>10, <2>11 DEF StreamTypeOK, StreamTyped
  <2>13. tasks \in [Task -> TaskState]
    BY <2>1 DEF TasksFine, TaskGood
  <2>14. budget \in [Event -> Nat]
    BY <2>1 DEF BoundsFine
  <2>. QED
    BY <2>2, <2>9, <2>12, <2>13, <2>14 DEF TypeOK
<1>. QED
  BY IngestIsFine, <1>1, PTL

(* Whatever the cache held when a message came, the classifier is asked to *)
(* judge all that the two senders wrote up to it, with at most one of the  *)
(* messages twice.                                                         *)
THEOREM JudgedIsWhole == Spec => []JudgedWhole
<1>1. ASSUME IngestFine PROVE JudgedWhole
  <2>1. TasksFine
    BY <1>1 DEF IngestFine
  <2>2. ASSUME NEW t \in Task, NEW j \in tasks[t].todo \cup ({tasks[t].current} \ {None})
        PROVE  LET theirs == {n \in 1..t : messages[n].user \in {j.child, j.target}}
               IN ToSet(j.talk) = theirs /\ Len(j.talk) <= Cardinality(theirs) + 1
    <3>1. j \in Work(tasks[t])
      BY <2>1, <2>2 DEF TasksFine, TaskGood, Work
    <3>2. Whole(j, messages, t)
      BY <2>1, <3>1 DEF TasksFine
    <3>. QED
      BY <3>2 DEF Whole, Written
  <2>. QED
    BY <2>2 DEF JudgedWhole
<1>. QED
  BY IngestIsFine, <1>1, PTL

(* A page with a registered socket was given the newest state of each of   *)
(* its parent's alerts that was raised since, or a task is about to tell   *)
(* it, or broke off; whoever loads, connects or is lost while the round    *)
(* goes on.  No page knows of another parent's alert.                      *)
THEOREM ViewersAreTold == Spec => []ViewersTold
<1>1. ASSUME IngestFine PROVE ViewersTold
  <2>1. KnownOwn /\ AllTold /\ DOMAIN alerts = 1..Len(alerts)
    BY <1>1 DEF IngestFine, ViewersFine, AlertsFine
  <2>. QED
    BY <2>1 DEF ViewersTold, KnownOwn, AllTold, Told, Given, About
<1>. QED
  BY IngestIsFine, <1>1, PTL

-----------------------------------------------------------------------------
(* The conversation beside an alert. *)

\* What a page is given: messages of these numbers, none of which is 0.
LEMMA ResponseTyped ==
  ASSUME messages \in Seq(Stored), NEW ids \in Seq(1..Len(messages))
  PROVE  /\ Response(ids) \in Seq(Message)
         /\ \A k \in DOMAIN Response(ids) : Response(ids)[k].id \in Nat \ {0}
<1>1. /\ Len(messages) \in Nat /\ \A n \in 1..Len(messages) : messages[n] \in Stored
      /\ Len(ids) \in Nat /\ DOMAIN ids = 1..Len(ids)
      /\ \A k \in 1..Len(ids) : ids[k] \in 1..Len(messages)
  OBVIOUS
<1>2. ASSUME NEW k \in 1..Len(ids)
      PROVE  Response(ids)[k] \in Message /\ Response(ids)[k].id \in Nat \ {0}
  <2>1. messages[ids[k]].user \in Sender /\ messages[ids[k]].at \in Nat
    BY <1>1 DEF Stored, User
  <2>2. Response(ids)[k] = [id |-> ids[k], userId |-> messages[ids[k]].user,
                            createdAt |-> messages[ids[k]].at]
    BY <1>1 DEF Response
  <2>. QED
    BY <1>1, <2>1, <2>2 DEF Message
<1>. DEFINE f == Response(ids)
<1>3. f = [k \in 1..Len(ids) |-> f[k]]
  BY <1>1 DEF Response
<1>4. \A k \in 1..Len(ids) : f[k] \in Message
  BY <1>2
<1>. HIDE DEF f
<1>5. f \in Seq(Message) /\ DOMAIN f = 1..Len(ids)
  BY <1>1, <1>3, <1>4, ListOf
<1>. QED
  BY <1>2, <1>5 DEF f

LEMMA CopiesTyped ==
  ASSUME IngestFine, NEW i \in DOMAIN alerts, NEW copy \in Copies(i)
  PROVE  /\ copy \in Seq(Message)
         /\ \A k \in DOMAIN copy : copy[k].id \in Nat \ {0}
<1>1. /\ messages \in Seq(Stored) /\ Len(messages) \in Nat
      /\ i \in Nat \ {0} /\ TasksFine /\ IngestInv
  BY StoredCount DEF IngestFine, IngestInv, StoreGood, AlertsFine
<1>2. ASSUME NEW count \in 0..Len(messages), copy = AlertMessages(i, count)
      PROVE  \E ids \in Seq(1..Len(messages)) : copy = Response(ids)
  <2>. DEFINE all == get_server_messages(count)
              kept == {n \in 1..count :
                         messages[n].user \in {alerts[i].child, alerts[i].target}}
  <2>1. all = [n \in 1..count |-> n] /\ count \in Nat /\ 1..count \subseteq 1..Len(messages)
    BY <1>1 DEF get_server_messages
  <2>2. all \in Seq(1..Len(messages)) /\ DOMAIN all = 1..count
    BY <2>1
  <2>3. kept \in SUBSET DOMAIN all /\ copy = Response(Sublist(all, kept))
    BY <1>2, <2>2 DEF AlertMessages
  <2>. HIDE DEF all, kept
  <2>4. Sublist(all, kept) \in Seq(1..Len(messages))
    BY <2>2, <2>3, SublistItems
  <2>. QED
    BY <2>3, <2>4
<1>3. ASSUME NEW t \in Task, tasks[t].alert = i, copy = Response(tasks[t].current.talk)
      PROVE  \E ids \in Seq(1..Len(messages)) : copy = Response(ids)
  <2>. DEFINE j == tasks[t].current
  <2>1. tasks[t].pc = "telling" /\ j \in Judgement /\ j \in Work(tasks[t])
    BY <1>1, <1>3 DEF TasksFine, TaskGood, Running, Work
  <2>2. t <= Len(messages) /\ t \in Nat
    BY <1>1, <2>1, TaskStored, TaskNumber
  <2>3. Whole(j, messages, t)
    BY <1>1, <2>1 DEF TasksFine
  <2>. HIDE DEF j
  <2>4. j.talk \in Seq(Task) /\ ToSet(j.talk) \subseteq 1..Len(messages)
    BY <1>1, <2>1, <2>2, <2>3 DEF Whole, Judgement, Written
  <2>5. /\ j.talk = [k \in 1..Len(j.talk) |-> j.talk[k]] /\ Len(j.talk) \in Nat
        /\ \A k \in 1..Len(j.talk) : j.talk[k] \in 1..Len(messages)
    BY <2>4 DEF ToSet
  <2>6. j.talk \in Seq(1..Len(messages))
    BY <2>5, ListOf
  <2>. QED
    BY <1>3, <2>6 DEF j
<1>4. PICK ids \in Seq(1..Len(messages)) : copy = Response(ids)
  BY <1>2, <1>3 DEF Copies
<1>. QED
  BY <1>1, <1>4, ResponseTyped

\* A message is drawn as flagged if a stage names it.
LEMMA SuspiciousNamed ==
  ASSUME NEW stages \in Seq(Evidence), NEW msg
  PROVE  isSuspicious(stages, msg) <=> \E k \in DOMAIN stages : stages[k].messageId = msg.id
<1>. DEFINE naming == {k \in DOMAIN stages : stages[k].messageId = msg.id}
<1>1. DOMAIN stages = 1..Len(stages) /\ Len(stages) \in Nat
  OBVIOUS
<1>2. CASE naming = {}
  <2>1. messageIdToStage(stages, msg.id) = 0
    BY <1>2 DEF messageIdToStage
  <2>. QED
    BY <1>2, <2>1 DEF isSuspicious
<1>3. CASE naming # {}
  <2>1. naming \in SUBSET (1..Len(stages))
    BY <1>1
  <2>2. IsFiniteSet(1..Len(stages))
    BY <1>1, FS_Interval
  <2>3. IsFiniteSet(naming) /\ naming \in SUBSET Nat
    <3>1. IsFiniteSet(naming)
      BY <2>1, <2>2, FS_Subset
    <3>2. naming \in SUBSET Nat
      BY <2>1
    <3>. QED
      BY <3>1, <3>2
  <2>4. messageIdToStage(stages, msg.id) = Max(naming)
    BY <1>3 DEF messageIdToStage
  <2>5. PICK k \in naming : TRUE
    BY <1>3
  <2>6. stages[k].messageId = msg.id /\ k \in DOMAIN stages
    BY <2>5
  <2>. HIDE DEF naming
  <2>7. \E k1 \in naming : \A i \in naming : k1 >= i
    BY <1>3, <2>3, GreatestMember
  <2>8. Max(naming) \in naming
    BY <2>7 DEF Max
  <2>9. Max(naming) # 0
    BY <2>1, <2>8
  <2>. QED
    BY <2>4, <2>6, <2>9 DEF isSuspicious
<1>. QED
  BY <1>2, <1>3

LEMMA NamedFinite ==
  ASSUME NEW stages \in Seq(Evidence)
  PROVE  IsFiniteSet({stages[k].messageId : k \in DOMAIN stages})
<1>. DEFINE ids == {stages[k].messageId : k \in DOMAIN stages}
            f == [k \in DOMAIN stages |-> stages[k].messageId]
<1>1. DOMAIN stages = 1..Len(stages) /\ Len(stages) \in Nat
  OBVIOUS
<1>2. IsFiniteSet(DOMAIN stages)
  BY <1>1, FS_Interval
<1>3. f \in [DOMAIN stages -> ids] /\ \A i \in ids : \E k \in DOMAIN stages : f[k] = i
  OBVIOUS
<1>. HIDE DEF ids, f
<1>4. f \in Surjection(DOMAIN stages, ids)
  BY <1>3 DEF Surjection
<1>5. IsFiniteSet(ids)
  BY <1>2, <1>4, FS_Surjection
<1>. QED
  BY <1>5 DEF ids

\* The button leads past no message that is drawn as flagged, and to one if it
\* leads to any message of the copy.
ButtonRight(copy, stages) ==
  LET drawn == {k \in DOMAIN copy : isSuspicious(stages, copy[k])}
      target == jumpTargets(copy, stages).firstSuspicious
  IN /\ drawn # {} => "firstSuspicious" \in JumpButtons(copy, stages)
     /\ \A k \in drawn : target <= copy[k].id
     /\ target \in {copy[k].id : k \in DOMAIN copy} => \E k \in drawn : copy[k].id = target

LEMMA EvidenceNamed == ASSUME NEW e \in Evidence PROVE e.messageId \in Int
  BY DEF Evidence

LEMMA FlaggedFirst ==
  ASSUME NEW copy \in Seq(Message), \A k \in DOMAIN copy : copy[k].id \in Nat \ {0},
         NEW stages \in Seq(Evidence)
  PROVE  ButtonRight(copy, stages)
<1>. SUFFICES ASSUME NEW target, target = jumpTargets(copy, stages).firstSuspicious,
                     NEW drawn, drawn = {k \in DOMAIN copy : isSuspicious(stages, copy[k])}
              PROVE  /\ drawn # {} => "firstSuspicious" \in JumpButtons(copy, stages)
                     /\ \A k \in drawn : target <= copy[k].id
                     /\ target \in {copy[k].id : k \in DOMAIN copy} =>
                          \E k \in drawn : copy[k].id = target
  BY Zenon DEF ButtonRight
<1>. DEFINE ids == flaggedIds(stages)
            named == {stages[k].messageId : k \in DOMAIN stages}
<1>1. IsFiniteSet(named) /\ ids = {id \in named : id > 0}
  BY NamedFinite DEF flaggedIds
<1>2. named \in SUBSET Int
  <2>1. \A k \in DOMAIN stages : stages[k].messageId \in Int
    BY EvidenceNamed
  <2>. QED
    BY <2>1
<1>3. \A k \in DOMAIN copy : k \in drawn <=> copy[k].id \in ids
  BY <1>1, SuspiciousNamed
<1>4. drawn \subseteq DOMAIN copy
  OBVIOUS
<1>5. target = IF ids = {} THEN 0 ELSE Min(ids)
  BY DEF jumpTargets
<1>6. "firstSuspicious" \in JumpButtons(copy, stages) <=> target # 0
  BY DEF JumpButtons, jumpTargets
<1>. HIDE DEF ids, named
<1>7. CASE ids = {}
  BY <1>3, <1>4, <1>5, <1>7
<1>8. CASE ids # {}
  <2>1. IsFiniteSet(ids) /\ ids \in SUBSET Nat
    <3>1. ids \subseteq named
      BY <1>1
    <3>2. IsFiniteSet(ids)
      BY <1>1, <3>1, FS_Subset
    <3>3. \A id \in ids : id \in Nat
      BY <1>1, <1>2
    <3>. QED
      BY <3>2, <3>3
  <2>2. \E least \in ids : \A i \in ids : least <= i
    BY <1>8, <2>1, LeastMember
  <2>3. target \in ids /\ \A i \in ids : target <= i
    BY <1>5, <1>8, <2>2 DEF Min
  <2>4. target # 0
    BY <1>1, <2>3
  <2>. QED
    BY <1>3, <1>4, <1>6, <2>3, <2>4
<1>. QED
  BY <1>7, <1>8

(* In any copy a page may have of an alert's conversation, the button for  *)
(* the first flagged message is drawn if a message is, leads past none,    *)
(* and leads to one that is drawn as flagged if it leads anywhere.         *)
THEOREM FirstFlaggedIsFirst == Spec => []FirstFlaggedComesFirst
<1>1. ASSUME IngestFine PROVE FirstFlaggedComesFirst
  <2>1. ASSUME NEW i \in DOMAIN alerts, NEW copy \in Copies(i)
        PROVE  ButtonRight(copy, alerts[i].stages)
    <3>1. copy \in Seq(Message) /\ \A k \in DOMAIN copy : copy[k].id \in Nat \ {0}
      BY <1>1, <2>1, CopiesTyped
    <3>2. alerts[i] \in Alert
      BY <1>1, <2>1 DEF IngestFine, AlertsFine
    <3>3. alerts[i].stages \in Seq(Evidence)
      BY <3>2 DEF Alert
    <3>. QED
      BY <3>1, <3>3, FlaggedFirst
  <2>. QED
    BY <2>1, Zenon DEF FirstFlaggedComesFirst, ButtonRight
<1>. QED
  BY IngestIsFine, <1>1, PTL

-----------------------------------------------------------------------------
(* The dates a reader sees. *)

LEMMA GreatestIsIn ==
  ASSUME NEW n \in Nat, NEW I \in SUBSET (1..n), I # {}
  PROVE  Max(I) \in I /\ \A i \in I : i <= Max(I)
<1>1. IsFiniteSet(I) /\ I \in SUBSET Nat
  <2>1. IsFiniteSet(1..n)
    BY FS_Interval
  <2>2. IsFiniteSet(I)
    BY <2>1, FS_Subset
  <2>. QED
    BY <2>2
<1>2. \E greatest \in I : \A i \in I : greatest >= i
  BY <1>1, GreatestMember
<1>3. Max(I) \in I /\ \A i \in I : Max(I) >= i
  BY <1>2 DEF Max
<1>. QED
  BY <1>1, <1>3

\* Where the groups start and end.
LEMMA GroupBounds ==
  ASSUME NEW list \in Seq(Message), NEW count, count = Cardinality(GroupStarts(list)),
         NEW g \in 1..count,
         NEW from, from = Nth(GroupStarts(list), g), NEW to, to = GroupEnd(list, g)
  PROVE  /\ from \in 1..Len(list) /\ to \in from..Len(list) /\ count \in Nat
         /\ \A i \in from + 1..to : ~isNewGroup(list, i)
<1>. DEFINE starts == GroupStarts(list)
<1>1. Len(list) \in Nat /\ DOMAIN list = 1..Len(list)
  OBVIOUS
<1>2. /\ starts \in SUBSET (1..Len(list))
      /\ \A i \in 1..Len(list) : isNewGroup(list, i) => i \in starts
  BY <1>1 DEF GroupStarts
<1>3. to = IF g = count THEN Len(list) ELSE Nth(starts, g + 1) - 1
  BY DEF GroupEnd
<1>4. count = Cardinality(starts) /\ from = Nth(starts, g)
  OBVIOUS
<1>. HIDE DEF starts
<1>5. IsFiniteSet(starts)
  <2>1. IsFiniteSet(1..Len(list))
    BY <1>1, FS_Interval
  <2>. QED
    BY <1>2, <2>1, FS_Subset
<1>6. starts \in SUBSET Nat
  BY <1>2
<1>7. /\ count \in Nat
      /\ \A n \in 1..count : Nth(starts, n) \in starts
      /\ \A m, n \in 1..count : m < n => Nth(starts, m) < Nth(starts, n)
      /\ \A i \in starts : \E n \in 1..count : Nth(starts, n) = i
  BY <1>4, <1>5, <1>6, NthKept
<1>8. from \in 1..Len(list)
  BY <1>2, <1>4, <1>7
<1>9. to \in from..Len(list)
  <2>1. CASE g = count
    BY <1>1, <1>3, <1>8, <2>1
  <2>2. CASE g # count
    <3>1. g + 1 \in 1..count /\ g < g + 1
      BY <1>7, <2>2
    <3>2. Nth(starts, g + 1) \in 1..Len(list) /\ from < Nth(starts, g + 1)
      BY <1>2, <1>4, <1>7, <3>1
    <3>. QED
      BY <1>1, <1>3, <1>8, <2>2, <3>2
  <2>. QED
    BY <2>1, <2>2
<1>10. ASSUME NEW i \in from + 1..to PROVE ~isNewGroup(list, i)
  <2>1. i \in 1..Len(list) /\ from < i /\ i <= to
    BY <1>1, <1>8, <1>9
  <2>. SUFFICES ASSUME i \in starts PROVE FALSE
    BY <1>2, <2>1
  <2>2. PICK n \in 1..count : Nth(starts, n) = i
    BY <1>7
  <2>3. g < n
    <3>1. CASE n < g
      <4>1. i < from
        BY <1>4, <1>7, <2>2, <3>1
      <4>. QED
        BY <1>8, <2>1, <4>1
    <3>2. CASE n = g
      BY <1>4, <1>8, <2>1, <2>2, <3>2
    <3>. QED
      BY <1>7, <3>1, <3>2
  <2>4. g # count /\ g + 1 \in 1..count /\ to = Nth(starts, g + 1) - 1
    BY <1>3, <1>7, <2>3
  <2>5. PICK next : next = g + 1
    OBVIOUS
  <2>6. next \in 1..count /\ (next = n \/ next < n)
    BY <1>7, <2>3, <2>4, <2>5
  <2>7. Nth(starts, next) \in Nat /\ i \in Nat
    BY <1>2, <1>6, <1>7, <2>1, <2>6
  <2>8. Nth(starts, next) <= i
    BY <1>7, <2>2, <2>6, <2>7
  <2>. QED
    BY <2>1, <2>4, <2>5, <2>7, <2>8
<1>. QED
  BY <1>7, <1>8, <1>9, <1>10

\* All messages of a group are of one date.
LEMMA GroupOfOneDate ==
  ASSUME NEW list \in Seq(Message), NEW groups, groups = messageGroups(list),
         NEW g \in DOMAIN groups, NEW k \in DOMAIN groups[g]
  PROVE  getMessageDate(groups[g][k]) = getMessageDate(groups[g][1])
<1>. DEFINE count == Cardinality(GroupStarts(list))
            from == Nth(GroupStarts(list), g)
            to == GroupEnd(list, g)
            date == [i \in DOMAIN list |-> getMessageDate(list[i])]
<1>1. g \in 1..count /\ groups[g] = SubSeq(list, from, to)
  BY DEF messageGroups
<1>2. /\ from \in 1..Len(list) /\ to \in from..Len(list)
      /\ \A i \in from + 1..to : ~isNewGroup(list, i)
  BY <1>1, GroupBounds
<1>3. Len(list) \in Nat /\ DOMAIN list = 1..Len(list)
  OBVIOUS
<1>4. \A i \in 1..Len(list) : date[i] = getMessageDate(list[i])
  BY <1>3
<1>. HIDE DEF from, to, date, count
<1>5. ASSUME NEW i \in from + 1..to PROVE date[i - 1] = date[i]
  <2>1. i \in 1..Len(list) /\ i - 1 \in 1..Len(list)
    BY <1>2, <1>3
  <2>2. getMessageDate(list[i - 1]) = getMessageDate(list[i])
    BY <1>2 DEF isNewGroup
  <2>. QED
    BY <1>4, <2>1, <2>2
<1>6. \A i \in from..to : date[i] = date[from]
  <2>1. from \in Nat /\ to \in Nat
    BY <1>2, <1>3
  <2>. QED
    BY <1>5, <2>1, SameThroughout
<1>7. /\ k \in 1..to - from + 1 /\ 1 \in 1..to - from + 1
      /\ groups[g][k] = list[from + k - 1] /\ groups[g][1] = list[from]
  <2>1. SubSeq(list, from, to) = [j \in 1..to - from + 1 |-> list[from + j - 1]]
    BY <1>2, <1>3
  <2>2. k \in 1..to - from + 1 /\ 1 \in 1..to - from + 1
    BY <1>1, <1>2, <1>3, <2>1
  <2>. QED
    BY <1>1, <1>2, <2>1, <2>2
<1>8. /\ from + k - 1 \in from..to /\ from + k - 1 \in 1..Len(list)
      /\ from \in 1..Len(list)
  BY <1>2, <1>3, <1>7
<1>9. getMessageDate(list[from + k - 1]) = getMessageDate(list[from])
  BY <1>4, <1>6, <1>8
<1>. QED
  BY <1>7, <1>9

LEMMA SeparatorsRight ==
  ASSUME NEW list \in Seq(Message), NEW groups, groups = messageGroups(list),
         NEW g \in DOMAIN groups, NEW k \in DOMAIN groups[g]
  PROVE  getMessageDate(groups[g][k]) = DateAbove(groups, g)
<1>. DEFINE above == {h \in 1..g : showDateSeparator(groups, h)}
            date == [h \in 1..g |-> getMessageDate(groups[h][1])]
<1>1. g \in Nat /\ 1 \in 1..g
  BY DEF messageGroups
<1>2. above \in SUBSET (1..g) /\ above # {}
  BY <1>1 DEF showDateSeparator
<1>3. \A h \in 1..g : date[h] = getMessageDate(groups[h][1])
  OBVIOUS
<1>4. \A h \in 1..g : h \notin above =>
        h # 1 /\ getMessageDate(groups[h - 1][1]) = getMessageDate(groups[h][1])
  BY DEF showDateSeparator
<1>5. DateAbove(groups, g) = getMessageDate(groups[Max(above)][1])
  BY DEF DateAbove
<1>. HIDE DEF above, date
<1>6. PICK last : last = Max(above)
  OBVIOUS
<1>7. last \in above /\ (\A h \in above : h <= last) /\ last \in 1..g
  BY <1>1, <1>2, <1>6, GreatestIsIn
<1>8. ASSUME NEW h \in last + 1..g PROVE date[h - 1] = date[h]
  <2>1. h \in 1..g /\ h - 1 \in 1..g /\ ~(h <= last)
    BY <1>1, <1>7
  <2>2. h \notin above
    BY <1>7, <2>1
  <2>. QED
    BY <1>3, <1>4, <2>1, <2>2
<1>9. \A h \in last..g : date[h] = date[last]
  <2>1. last \in Nat
    BY <1>1, <1>7
  <2>. QED
    BY <1>1, <1>8, <2>1, SameThroughout
<1>10. date[g] = date[last] /\ g \in 1..g
  BY <1>1, <1>7, <1>9
<1>11. getMessageDate(groups[g][1]) = DateAbove(groups, g)
  BY <1>3, <1>5, <1>6, <1>7, <1>10
<1>12. getMessageDate(groups[g][k]) = getMessageDate(groups[g][1])
  BY GroupOfOneDate
<1>. QED
  BY <1>11, <1>12

(* A message is never below another date's separator: a reader who takes   *)
(* it to be of the last date drawn above it is right.                      *)
THEOREM SeparatorsAreRight == Spec => []SeparatorsShowDates
<1>1. ASSUME IngestFine PROVE SeparatorsShowDates
  <2>. SUFFICES ASSUME NEW i \in DOMAIN alerts, NEW copy \in Copies(i),
                       NEW groups, groups = messageGroups(copy),
                       NEW g \in DOMAIN groups, NEW k \in DOMAIN groups[g]
                PROVE  getMessageDate(groups[g][k]) = DateAbove(groups, g)
    BY DEF SeparatorsShowDates
  <2>1. copy \in Seq(Message)
    BY <1>1, CopiesTyped
  <2>. QED
    BY <2>1, SeparatorsRight
<1>. QED
  BY IngestIsFine, <1>1, PTL
=============================================================================
