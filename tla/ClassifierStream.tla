--------------------------- MODULE ClassifierStream ---------------------------
(***************************************************************************)
(* The backend's end of the classifier's socket                            *)
(* (backend/services/classifier_stream.py and the socket handler of        *)
(* backend/routers/classifier.py).                                         *)
(*                                                                         *)
(* A request is one call of classify and stands for the id it draws.  The  *)
(* operators take the lock's queue as it is when the call is made, because *)
(* a caller may release the lock and ask for it again without an await in  *)
(* between.  The classifier (classifier/main.py) puts the jobs it receives *)
(* into a queue that survives its reconnects, and answers each on whatever *)
(* connection it then has; when it is full or restarts, jobs are lost.     *)
(***************************************************************************)
EXTENDS Sequences, FiniteSets

CONSTANTS Socket, Request, None

VARIABLES
  websocket,    \* _websocket
  connection,   \* per socket: what its handler has seen of it
  lock,         \* _lock: the request that holds it, then those that wait
  pending,      \* keys of _pending
  future,       \* per request: the state of its future
  inference,    \* external: jobs at the classifier
  results,      \* the answers that futures were completed with
  verdicts      \* history: what the classifier answered

streamVars ==
  <<websocket, connection, lock, pending, future, inference, results, verdicts>>

Verdict == [of : Request, flagged : BOOLEAN]
Result == [to : Request, of : Request, flagged : BOOLEAN]

StreamTypeOK ==
  /\ websocket \in Socket \cup {None}
  /\ connection \in [Socket -> {"none", "open", "closing", "gone"}]
  /\ lock \in Seq(Request)
  /\ pending \subseteq Request /\ inference \subseteq Request
  /\ results \subseteq Result /\ verdicts \subseteq Verdict
  /\ future \in [Request ->
       {"none", "queued", "waiting", "lost", "set", "returned", "failed"}]

StreamInit ==
  /\ websocket = None /\ connection = [s \in Socket |-> "none"]
  /\ lock = <<>> /\ pending = {} /\ inference = {} /\ results = {}
  /\ verdicts = {}
  /\ future = [r \in Request |-> "none"]

connected == websocket # None

-----------------------------------------------------------------------------
(* Connections *)

connect(s) ==
  /\ connection[s] = "none"
  /\ connection' = [connection EXCEPT ![s] = "open"]
  /\ websocket' = s
  /\ UNCHANGED <<lock, pending, future, inference, results, verdicts>>

(* The other end is gone; the handler has not been told. *)
Drop(s) ==
  /\ connection[s] = "open"
  /\ connection' = [connection EXCEPT ![s] = "closing"]
  /\ UNCHANGED <<websocket, lock, pending, future, inference, results, verdicts>>

(* WebSocketDisconnect: whatever socket is in use by now is forgotten, and *)
(* whatever waits is failed.                                               *)
disconnect(s) ==
  /\ connection[s] = "closing"
  /\ connection' = [connection EXCEPT ![s] = "gone"]
  /\ websocket' = None
  /\ future' = [r \in Request |-> IF r \in pending THEN "lost" ELSE future[r]]
  /\ pending' = {}
  /\ UNCHANGED <<lock, inference, results, verdicts>>

-----------------------------------------------------------------------------
(* classify *)

(* The lock is free or handed to r: register the future and send the job.  *)
(* A socket whose other end is gone raises later or swallows the job.      *)
Send(r, queue, futures) ==
  /\ lock' = queue
  /\ pending' = pending \cup {r}
  /\ future' = [futures EXCEPT ![r] = "waiting"]
  /\ inference' = IF connection[websocket] = "open" THEN inference \cup {r} ELSE inference

(* A caller that has just found a connection asks for the lock. *)
classify(r, queue, futures) ==
  IF queue = <<>> THEN Send(r, <<r>>, futures)
  ELSE /\ lock' = Append(queue, r)
       /\ future' = [futures EXCEPT ![r] = "queued"]
       /\ UNCHANGED <<pending, inference>>

(* The lock was released to r while the connection is there.  The check    *)
(* that came before the wait is not made again.                            *)
Acquire(r) ==
  /\ lock # <<>> /\ Head(lock) = r
  /\ future[r] = "queued" /\ connected
  /\ Send(r, lock, future)
  /\ UNCHANGED <<websocket, connection, results, verdicts>>

(* The call ends: the lock goes on to whoever waits next. *)
Released == Tail(lock)
Ended(r, how) == [future EXCEPT ![r] = how]

(* The ways to fail: disconnect's ConnectionError, the use of a connection *)
(* that is gone, and a send that raises or the timeout, which may also     *)
(* come after the answer was put into the future.                          *)
Disconnected(r) == future[r] = "lost"
NoConnection(r) == lock # <<>> /\ Head(lock) = r /\ future[r] = "queued" /\ ~connected
TimesOut(r) == future[r] \in {"waiting", "set"}

\* Mutant: the entry of a call that failed stays.
FailKeepsEntry(r) ==
  /\ lock' = Released
  /\ future' = Ended(r, "failed")
  /\ UNCHANGED <<pending, websocket, connection, inference, results, verdicts>>

\* Mutant: a call that failed keeps the lock.
FailKeepsLock(r) ==
  /\ pending' = pending \ {r}
  /\ future' = Ended(r, "failed")
  /\ UNCHANGED <<lock, websocket, connection, inference, results, verdicts>>

Fail(r) ==
  /\ lock' = Released
  /\ pending' = pending \ {r}
  /\ future' = Ended(r, "failed")
  /\ UNCHANGED <<websocket, connection, inference, results, verdicts>>

-----------------------------------------------------------------------------
(* Answers *)

\* Mutant: an answer completes whatever request waits.
CompletedInOrder(r) == pending

(* The request an answer completes. *)
Completed(r) == pending \cap {r}

handle_message(r, flagged) ==
  /\ r \in inference
  /\ \E s \in Socket : connection[s] \in {"open", "closing"}
  /\ inference' = inference \ {r}
  /\ verdicts' = verdicts \cup {[of |-> r, flagged |-> flagged]}
  /\ future' = [q \in Request |-> IF q \in Completed(r) THEN "set" ELSE future[q]]
  /\ results' = results \cup {[to |-> q, of |-> r, flagged |-> flagged] : q \in Completed(r)}
  /\ pending' = pending \ Completed(r)
  /\ UNCHANGED <<websocket, connection, lock>>

LoseJob(r) ==
  /\ r \in inference
  /\ inference' = inference \ {r}
  /\ UNCHANGED <<websocket, connection, lock, pending, future, results, verdicts>>
=============================================================================
