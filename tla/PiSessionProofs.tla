---------------------------- MODULE PiSessionProofs ----------------------------
(***************************************************************************)
(* What every step of the Pi preserves, whoever its clients are: the part  *)
(* of the inductive invariants that AdapterChannelProofs completes with    *)
(* the facts about its client.                                             *)
(***************************************************************************)
EXTENDS PiSession, TLAPS

USE BaseAssumption, PlaintextAssumption, NoneAssumption

-----------------------------------------------------------------------------
(* The sealing functions. *)

\* Under one key, equal nonces mean equal sequence numbers (xor_nonce is
\* injective in the sequence number).
LEMMA NonceInjective ==
  ASSUME NEW k, NEW m, NEW n,
         xor_nonce(nonce_base(k), m) = xor_nonce(nonce_base(k), n)
  PROVE  m = n
<1>1. ASSUME NEW i
      PROVE  xor_nonce(nonce_base(k), i) = {<<"nonce", k>>, <<"seq", i>>}
  <2>1. <<"nonce", k>> # <<"seq", i>>
    OBVIOUS
  <2>. QED
    BY <2>1 DEF xor_nonce, nonce_base
<1>2. {<<"nonce", k>>, <<"seq", m>>} = {<<"nonce", k>>, <<"seq", n>>}
  BY <1>1
<1>3. <<"seq", m>> \in {<<"nonce", k>>, <<"seq", n>>}
  BY <1>2
<1>. QED
  BY <1>3

\* A box opens exactly for its key, session and number.
LEMMA OpensOwn ==
  ASSUME NEW box, NEW k, NEW s, NEW n
  PROVE  Opens(k, nonce_base(k), box, <<s, n>>)
           <=> box.key = k /\ box.sid = s /\ box.seq = n
BY DEF Opens, NonceOf

-----------------------------------------------------------------------------
(* Sessions. *)

\* The ways a handler updates a session keep it a session.
LEMMA SessionUpdates ==
  ASSUME NEW st \in SessionState
  PROVE  /\ [st EXCEPT !.sequence = st.sequence + 1] \in SessionState
         /\ [st EXCEPT !.out_sequence = st.out_sequence + 1] \in SessionState
         /\ [st EXCEPT !.status = "lost"] \in SessionState
         /\ \A k \in Key : [st EXCEPT !.key = k, !.status = "SUCCESS"] \in SessionState
         /\ NewSession("authenticated") \in SessionState
<1>. USE DEF SessionState
<1>1. [st EXCEPT !.sequence = st.sequence + 1] \in SessionState
  OBVIOUS
<1>2. [st EXCEPT !.out_sequence = st.out_sequence + 1] \in SessionState
  OBVIOUS
<1>3. [st EXCEPT !.status = "lost"] \in SessionState
  OBVIOUS
<1>4. ASSUME NEW k \in Key
      PROVE  [st EXCEPT !.key = k, !.status = "SUCCESS"] \in SessionState
  OBVIOUS
<1>5. NewSession("authenticated") \in SessionState
  BY DEF NewSession
<1>. QED
  BY <1>1, <1>2, <1>3, <1>4, <1>5

-----------------------------------------------------------------------------
(* The inductive invariant of the Pi's variables. *)

\* A session with keys finished its one exchange, whose invocation is spent.
KeysSpent ==
  \A s \in Sid : session_states[s].key # None =>
    /\ session_states[s].key.server \in spent
    /\ session_states[s].status \in {"SUCCESS", "lost"}

\* No two sessions share a key.
KeysDistinct ==
  \A s1, s2 \in Sid :
    session_states[s1].key # None /\ session_states[s1].key = session_states[s2].key
      => s1 = s2

\* Whatever will seal belongs to a session with keys.
SealersKeyed ==
  /\ \A c \in calling : session_states[c.sid].key # None
  /\ \A s \in listening : session_states[s].key # None

\* A box the Pi sealed is under its session's key, numbered above the base and
\* up to the session's counter.
PiBoxesNumbered ==
  \A b \in boxes : b.body \in Task =>
    /\ session_states[b.sid].key = b.key
    /\ OutboundBase < b.seq
    /\ b.seq <= session_states[b.sid].out_sequence

\* Two boxes of the Pi under one key differ in their numbers.
PiBoxesDistinct ==
  \A b1, b2 \in boxes :
    b1.body \in Task /\ b2.body \in Task /\ b1.key = b2.key /\ b1.seq = b2.seq => b1 = b2

CountersAboveBase ==
  \A s \in Sid : OutboundBase <= session_states[s].out_sequence

PiInv ==
  /\ PiTypeOK
  /\ KeysSpent
  /\ KeysDistinct
  /\ SealersKeyed
  /\ PiBoxesNumbered
  /\ PiBoxesDistinct
  /\ CountersAboveBase

LEMMA PiInitInv == PiInit => PiInv
<1>. SUFFICES ASSUME PiInit PROVE PiInv
  OBVIOUS
<1>1. PiTypeOK
  BY DEF PiInit, PiTypeOK, NewSession, SessionState
<1>. QED
  BY <1>1 DEF PiInit, NewSession, PiInv, KeysSpent, KeysDistinct, SealersKeyed,
              PiBoxesNumbered, PiBoxesDistinct, CountersAboveBase

\* Sealing one more box for a session with keys keeps the invariant.
LEMMA SealKeepsInv ==
  ASSUME PiInv, NEW s \in Sid, NEW t \in Task,
         session_states[s].key # None,
         seal_outbound(s, t),
         requests' \subseteq Request, replies' \subseteq Reply,
         calling' \subseteq calling, listening' \subseteq listening,
         spent \subseteq spent', spent' \subseteq Task,
         UNCHANGED forwarded
  PROVE  PiInv'
<1>. DEFINE box == SealedBox(s, t)
<1>. USE DEF PiInv
<1>1. /\ session_states \in [Sid -> SessionState] /\ boxes \subseteq Box
      /\ boxes' = boxes \cup {box}
      /\ session_states' = [session_states EXCEPT ![s] =
           [session_states[s] EXCEPT !.out_sequence = session_states[s].out_sequence + 1]]
  BY DEF PiTypeOK, seal_outbound
<1>2. box \in Box
  BY <1>1 DEF SealedBox, encrypt_message, Box, SessionState
<1>3. /\ box.key = session_states[s].key /\ box.sid = s /\ box.body = t
      /\ box.seq = session_states[s].out_sequence + 1
  BY DEF SealedBox, encrypt_message
<1>. HIDE DEF box
<1>4. PiTypeOK'
  <2>1. session_states' \in [Sid -> SessionState]
    BY <1>1, SessionUpdates
  <2>. QED
    BY <1>1, <1>2, <2>1 DEF PiTypeOK
<1>5. \A x \in Sid :
        /\ session_states'[x].key = session_states[x].key
        /\ session_states'[x].status = session_states[x].status
        /\ session_states[x].out_sequence <= session_states'[x].out_sequence
  BY <1>1 DEF SessionState
<1>6. session_states'[s].out_sequence = session_states[s].out_sequence + 1
  BY <1>1 DEF SessionState
<1>7. KeysSpent' /\ KeysDistinct'
  BY <1>5 DEF KeysSpent, KeysDistinct
<1>8. SealersKeyed'
  BY <1>5 DEF SealersKeyed, PiTypeOK, Call
<1>9. CountersAboveBase'
  BY <1>1, <1>4, <1>5 DEF CountersAboveBase, PiTypeOK, SessionState
<1>10. PiBoxesNumbered'
  <2>1. ASSUME NEW b \in boxes, b.body \in Task
        PROVE  /\ session_states'[b.sid].key = b.key
               /\ OutboundBase < b.seq
               /\ b.seq <= session_states'[b.sid].out_sequence
    <3>1. b.sid \in Sid /\ b.seq \in Nat
      BY <1>1 DEF Box
    <3>2. /\ session_states[b.sid].out_sequence \in Nat
          /\ session_states'[b.sid].out_sequence \in Nat
      BY <1>1, <1>4, <3>1 DEF PiTypeOK, SessionState
    <3>. QED
      BY <1>5, <2>1, <3>1, <3>2 DEF PiBoxesNumbered
  <2>2. /\ session_states'[box.sid].key = box.key
        /\ OutboundBase < box.seq
        /\ box.seq <= session_states'[box.sid].out_sequence
    <3>1. session_states[s].out_sequence \in Nat /\ OutboundBase <= session_states[s].out_sequence
      BY <1>1 DEF CountersAboveBase, SessionState
    <3>. QED
      BY <1>3, <1>5, <1>6, <3>1
  <2>. QED
    BY <1>1, <2>1, <2>2 DEF PiBoxesNumbered
<1>11. PiBoxesDistinct'
  <2>1. ASSUME NEW b \in boxes, b.body \in Task, b.key = box.key
        PROVE  b.seq # box.seq
    <3>1. b.sid \in Sid /\ b.seq \in Nat
      BY <1>1 DEF Box
    <3>2. session_states[b.sid].key = b.key /\ b.seq <= session_states[b.sid].out_sequence
      BY <2>1 DEF PiBoxesNumbered
    <3>3. b.sid = s
      BY <1>3, <2>1, <3>1, <3>2 DEF KeysDistinct
    <3>4. session_states[s].out_sequence \in Nat
      BY <1>1 DEF SessionState
    <3>. QED
      BY <1>3, <3>1, <3>2, <3>3, <3>4
  <2>. QED
    BY <1>1, <2>1 DEF PiBoxesDistinct
<1>. QED
  BY <1>4, <1>7, <1>8, <1>9, <1>10, <1>11

\* So does a step that keeps the keys and counters of every session and
\* starts sealers of sessions with keys only.
LEMMA FrameKeepsInv ==
  ASSUME PiInv,
         session_states' \in [Sid -> SessionState],
         \A s \in Sid :
           /\ session_states'[s].key = session_states[s].key
           /\ session_states'[s].out_sequence = session_states[s].out_sequence
           /\ session_states'[s].status \in {session_states[s].status, "lost"},
         requests' \subseteq Request, replies' \subseteq Reply,
         calling' \subseteq Call,
         \A c \in calling' : session_states[c.sid].key # None,
         listening' \subseteq Sid,
         \A s \in listening' : session_states[s].key # None,
         spent \subseteq spent', spent' \subseteq Task,
         UNCHANGED boxes,
         forwarded' \in [Sid -> Seq(Msg \cup Task \cup {None})]
  PROVE  PiInv'
<1>. USE DEF PiInv
<1>1. PiTypeOK'
  BY DEF PiTypeOK
<1>2. KeysSpent' /\ KeysDistinct' /\ CountersAboveBase'
  <2>1. KeysSpent'
    BY DEF KeysSpent
  <2>2. KeysDistinct'
    <3>1. \A s \in Sid : session_states'[s].key = session_states[s].key
      OBVIOUS
    <3>2. KeysDistinct
      OBVIOUS
    <3>. QED
      BY ONLY <3>1, <3>2 DEF KeysDistinct
  <2>3. CountersAboveBase'
    BY DEF CountersAboveBase
  <2>. QED
    BY <2>1, <2>2, <2>3
<1>3. SealersKeyed'
  <2>1. calling' \subseteq Call /\ listening' \subseteq Sid
    OBVIOUS
  <2>2. \A c \in calling' : c.sid \in Sid
    BY <2>1 DEF Call
  <2>3. \A c \in calling' : session_states'[c.sid].key # None
    BY <2>2
  <2>. QED
    BY <2>1, <2>3 DEF SealersKeyed
<1>4. PiBoxesNumbered'
  BY DEF PiBoxesNumbered, PiTypeOK, Box
<1>5. PiBoxesDistinct'
  BY DEF PiBoxesDistinct
<1>. QED
  BY <1>1, <1>2, <1>3, <1>4, <1>5

-----------------------------------------------------------------------------
(* One lemma per handler. *)

LEMMA AssociateKeepsInv ==
  ASSUME PiInv, NEW q \in requests, Associate(q)
  PROVE  PiInv'
<1>. USE DEF PiInv
<1>1. PICK s \in Sid :
        /\ session_states[s].status = "none"
        /\ session_states' = [session_states EXCEPT ![s] = NewSession("authenticated")]
        /\ replies' = replies \cup {[kind |-> "associated", link |-> q.link, sid |-> s]}
  BY DEF Associate, Respond
<1>2. /\ session_states \in [Sid -> SessionState] /\ boxes \subseteq Box
      /\ requests' \subseteq requests
      /\ UNCHANGED <<calling, listening, spent, boxes, forwarded>>
  BY DEF Associate, Take, PiTypeOK
<1>3. session_states[s].key = None
  BY <1>1 DEF KeysSpent
<1>4. session_states' \in [Sid -> SessionState]
  BY <1>1, <1>2, SessionUpdates
<1>5. replies' \subseteq Reply
  <2>1. q.link \in Link
    BY DEF Associate, PiTypeOK, Request
  <2>. QED
    BY <1>1, <2>1 DEF PiTypeOK, Reply
<1>6. PiTypeOK'
  BY <1>2, <1>4, <1>5 DEF PiTypeOK
<1>7. session_states'[s].key = None /\ session_states'[s].out_sequence = OutboundBase
  BY <1>1, <1>2 DEF NewSession
<1>8. \A x \in Sid \ {s} : session_states'[x] = session_states[x]
  BY <1>1, <1>2
<1>9. KeysSpent' /\ KeysDistinct' /\ CountersAboveBase'
  BY <1>2, <1>7, <1>8 DEF KeysSpent, KeysDistinct, CountersAboveBase
<1>10. SealersKeyed'
  BY <1>2, <1>3, <1>8 DEF SealersKeyed, PiTypeOK, Call
<1>11. PiBoxesNumbered' /\ PiBoxesDistinct'
  <2>1. \A b \in boxes : b.body \in Task => b.sid # s
    BY <1>2, <1>3 DEF PiBoxesNumbered, Box
  <2>. QED
    BY <1>2, <1>8, <2>1 DEF PiBoxesNumbered, PiBoxesDistinct, Box
<1>. QED
  BY <1>6, <1>9, <1>10, <1>11

LEMMA ExchangeKeepsInv ==
  ASSUME PiInv, NEW q \in requests, NEW t \in Task, Exchange(q, t)
  PROVE  PiInv'
<1>. USE DEF PiInv
<1>. DEFINE k == [client |-> q.link, server |-> t]
<1>1. /\ session_states \in [Sid -> SessionState] /\ boxes \subseteq Box
      /\ requests' \subseteq requests
      /\ t \notin spent /\ spent' = spent \cup {t}
      /\ session_states[q.sid].status = "authenticated"
      /\ replies' = replies \cup
           {[kind |-> "exchanged", link |-> q.link, sid |-> q.sid, server |-> t]}
      /\ UNCHANGED <<calling, listening, boxes, forwarded>>
  BY DEF Exchange, Take, Respond, PiTypeOK
<1>2. session_states' = [session_states EXCEPT ![q.sid] =
        [session_states[q.sid] EXCEPT !.key = k, !.status = "SUCCESS"]]
  BY DEF Exchange
<1>3. q.link \in Link /\ q.sid \in Sid
  BY DEF Exchange, PiTypeOK, Request
<1>4. k \in Key /\ k.server = t /\ k # None
  BY <1>3 DEF Key
<1>. HIDE DEF k
<1>5. session_states' \in [Sid -> SessionState]
  BY <1>1, <1>2, <1>3, <1>4, SessionUpdates
<1>6. PiTypeOK'
  BY <1>1, <1>3, <1>5 DEF PiTypeOK, Reply
<1>7. /\ session_states[q.sid].key = None
      /\ session_states'[q.sid].key = k /\ session_states'[q.sid].status = "SUCCESS"
      /\ session_states'[q.sid].out_sequence = session_states[q.sid].out_sequence
  BY <1>1, <1>2, <1>3 DEF KeysSpent, SessionState
<1>8. \A x \in Sid \ {q.sid} : session_states'[x] = session_states[x]
  BY <1>1, <1>2
<1>9. KeysSpent' /\ CountersAboveBase'
  BY <1>1, <1>3, <1>4, <1>7, <1>8 DEF KeysSpent, CountersAboveBase
<1>10. KeysDistinct'
  BY <1>1, <1>3, <1>4, <1>7, <1>8 DEF KeysDistinct, KeysSpent
<1>11. SealersKeyed'
  BY <1>1, <1>3, <1>4, <1>7, <1>8 DEF SealersKeyed, PiTypeOK, Call
<1>12. PiBoxesNumbered' /\ PiBoxesDistinct'
  <2>1. \A b \in boxes : b.body \in Task => b.sid # q.sid
    BY <1>1, <1>7 DEF PiBoxesNumbered, Box
  <2>. QED
    BY <1>1, <1>8, <2>1 DEF PiBoxesNumbered, PiBoxesDistinct, Box
<1>. QED
  BY <1>6, <1>9, <1>10, <1>11, <1>12

LEMMA ForwardKeepsInv ==
  ASSUME PiInv, NEW q \in requests, NEW t \in Task, Forward(q, t)
  PROVE  PiInv'
<1>. USE DEF PiInv
<1>1. q.msg \in Msg /\ q.sid \in Sid /\ q.box \in Box \cup {None}
  BY DEF Forward, PiTypeOK, Request
<1>2. /\ session_states \in [Sid -> SessionState]
      /\ forwarded \in [Sid -> Seq(Msg \cup Task \cup {None})]
      /\ session_states[q.sid].key # None
      /\ calling' = calling \cup {[task |-> t, sid |-> q.sid, msg |-> q.msg]}
      /\ requests' \subseteq requests /\ spent' = spent \cup {t}
      /\ UNCHANGED <<replies, listening, boxes>>
  BY DEF Forward, Take, PiTypeOK
<1>3. /\ calling' \subseteq Call
      /\ \A c \in calling' : session_states[c.sid].key # None
  BY <1>1, <1>2 DEF Call, PiTypeOK, SealersKeyed
<1>4. /\ session_states' \in [Sid -> SessionState]
      /\ forwarded' \in [Sid -> Seq(Msg \cup Task \cup {None})]
      /\ \A s \in Sid :
           /\ session_states'[s].key = session_states[s].key
           /\ session_states'[s].out_sequence = session_states[s].out_sequence
           /\ session_states'[s].status = session_states[s].status
  <2>1. CASE q.box = None
    BY <1>2, <2>1 DEF Forward
  <2>2. CASE q.box # None
    <3>1. OpenedBody(q) \in Msg \cup Task \cup {None}
      BY <1>1, <2>2 DEF OpenedBody, Box
    <3>2. forwarded' =
            [forwarded EXCEPT ![q.sid] = Append(forwarded[q.sid], OpenedBody(q))]
      BY <2>2 DEF Forward
    <3>3. Append(forwarded[q.sid], OpenedBody(q)) \in Seq(Msg \cup Task \cup {None})
      BY <1>1, <1>2, <3>1
    <3>4. forwarded' \in [Sid -> Seq(Msg \cup Task \cup {None})]
      BY <1>1, <1>2, <3>2, <3>3
    <3>5. session_states' = [session_states EXCEPT ![q.sid] =
            [session_states[q.sid] EXCEPT !.sequence = session_states[q.sid].sequence + 1]]
      BY <2>2 DEF Forward
    <3>6. session_states' \in [Sid -> SessionState]
      BY <1>1, <1>2, <3>5, SessionUpdates
    <3>. QED
      BY <1>1, <1>2, <3>4, <3>5, <3>6 DEF SessionState
  <2>. QED
    BY <2>1, <2>2
<1>. QED
  BY <1>2, <1>3, <1>4, FrameKeepsInv DEF PiTypeOK, SealersKeyed

LEMMA RestartKeepsInv == PiInv /\ Restart => PiInv'
<1>. SUFFICES ASSUME PiInv, Restart PROVE PiInv'
  OBVIOUS
<1>1. /\ session_states \in [Sid -> SessionState]
      /\ session_states' = [s \in Sid |->
           IF Known(s) THEN [session_states[s] EXCEPT !.status = "lost"]
                       ELSE session_states[s]]
      /\ calling' = {} /\ listening' = {}
      /\ UNCHANGED <<requests, replies, spent, boxes, forwarded>>
  BY DEF Restart, PiInv, PiTypeOK
<1>2. session_states' \in [Sid -> SessionState]
  BY <1>1, SessionUpdates
<1>3. \A s \in Sid :
        /\ session_states'[s].key = session_states[s].key
        /\ session_states'[s].out_sequence = session_states[s].out_sequence
        /\ session_states'[s].status \in {session_states[s].status, "lost"}
  BY <1>1 DEF SessionState
<1>. QED
  BY <1>1, <1>2, <1>3, FrameKeepsInv DEF PiInv, PiTypeOK

\* Every step of the Pi keeps the invariant.
LEMMA PiStepKeepsInv == PiInv /\ PiNext => PiInv'
<1>. SUFFICES ASSUME PiInv, PiNext PROVE PiInv'
  OBVIOUS
<1>1. ASSUME NEW q \in requests,
             RefuseAssociate(q) \/ RefuseExchange(q) \/ RefuseForward(q)
      PROVE  PiInv'
  <2>1. requests' \subseteq requests
    BY <1>1 DEF RefuseAssociate, RefuseExchange, RefuseForward, Take
  <2>2. UNCHANGED <<session_states, replies, calling, listening, spent, boxes, forwarded>>
    BY <1>1 DEF RefuseAssociate, RefuseExchange, RefuseForward
  <2>. QED
    BY <2>1, <2>2, FrameKeepsInv DEF PiInv, PiTypeOK, SealersKeyed
<1>2. ASSUME NEW q \in requests, OpenSocket(q) PROVE PiInv'
  <2>1. /\ q.sid \in Sid /\ requests' \subseteq requests
        /\ UNCHANGED <<session_states, replies, calling, spent, boxes, forwarded>>
    BY <1>2 DEF OpenSocket, Take, PiInv, PiTypeOK, Request
  <2>2. listening' \subseteq Sid /\ \A s \in listening' : session_states[s].key # None
    BY <1>2, <2>1 DEF OpenSocket, PiInv, PiTypeOK, SealersKeyed
  <2>. QED
    BY <2>1, <2>2, FrameKeepsInv DEF PiInv, PiTypeOK, SealersKeyed
<1>3. ASSUME NEW s \in Sid, CloseSocket(s) PROVE PiInv'
  <2>1. /\ listening' \subseteq listening
        /\ UNCHANGED <<session_states, requests, replies, calling, spent, boxes, forwarded>>
    BY <1>3 DEF CloseSocket
  <2>. QED
    BY <2>1, FrameKeepsInv DEF PiInv, PiTypeOK, SealersKeyed
<1>4. ASSUME NEW c \in calling, AnswerUnsealed(c) PROVE PiInv'
  <2>1. /\ calling' \subseteq calling
        /\ UNCHANGED <<session_states, requests, replies, listening, spent, boxes, forwarded>>
    BY <1>4 DEF AnswerUnsealed
  <2>. QED
    BY <2>1, FrameKeepsInv DEF PiInv, PiTypeOK, SealersKeyed
<1>5. ASSUME NEW c \in calling, Answer(c) PROVE PiInv'
  <2>1. /\ c.sid \in Sid /\ c.task \in Task /\ c.msg \in Msg
        /\ session_states[c.sid].key # None
    BY DEF PiInv, PiTypeOK, Call, SealersKeyed
  <2>2. SealedBox(c.sid, c.task) \in Box
    BY <2>1 DEF SealedBox, encrypt_message, Box, PiInv, PiTypeOK, SessionState
  <2>3. /\ seal_outbound(c.sid, c.task)
        /\ replies' \subseteq Reply /\ calling' \subseteq calling
        /\ UNCHANGED <<requests, listening, spent, forwarded>>
    BY <1>5, <2>1, <2>2 DEF Answer, Respond, Reply, PiInv, PiTypeOK
  <2>. QED
    BY <2>1, <2>3, SealKeepsInv DEF PiInv, PiTypeOK
<1>6. ASSUME NEW s \in Sid, NEW t \in Task, RelayFrame(s, t) PROVE PiInv'
  <2>1. session_states[s].key # None
    BY <1>6 DEF RelayFrame, PiInv, SealersKeyed
  <2>2. SealedBox(s, t) \in Box
    BY <2>1 DEF SealedBox, encrypt_message, Box, PiInv, PiTypeOK, SessionState
  <2>3. /\ seal_outbound(s, t)
        /\ replies' \subseteq Reply /\ spent' = spent \cup {t}
        /\ UNCHANGED <<requests, calling, listening, forwarded>>
    BY <1>6, <2>2 DEF RelayFrame, Respond, Reply, PiInv, PiTypeOK
  <2>. QED
    BY <2>1, <2>3, SealKeepsInv DEF PiInv, PiTypeOK
<1>. QED
  BY <1>1, <1>2, <1>3, <1>4, <1>5, <1>6, AssociateKeepsInv, ExchangeKeepsInv,
     ForwardKeepsInv, RestartKeepsInv DEF PiNext, PiHandles

-----------------------------------------------------------------------------
(* What the clients' invariants need to know of a step of the Pi. *)

\* Keys stay, no request appears, and only the Pi's own boxes are added.
LEMMA PiStepEffects ==
  ASSUME PiInv, PiNext
  PROVE  /\ requests' \subseteq requests
         /\ \A s \in Sid : session_states[s].key # None =>
              session_states'[s].key = session_states[s].key
         /\ boxes \subseteq boxes'
         /\ \A b \in boxes' \ boxes : b.body \in Task
<1>. USE DEF PiInv
<1>0. session_states \in [Sid -> SessionState]
  BY DEF PiTypeOK
<1>. DEFINE Goal ==
       /\ requests' \subseteq requests
       /\ \A s \in Sid : session_states[s].key # None =>
            session_states'[s].key = session_states[s].key
       /\ boxes \subseteq boxes'
       /\ \A b \in boxes' \ boxes : b.body \in Task
<1>1. ASSUME NEW q \in requests,
             \/ RefuseAssociate(q) \/ RefuseExchange(q) \/ RefuseForward(q) \/ OpenSocket(q)
      PROVE  Goal
  BY <1>1 DEF RefuseAssociate, RefuseExchange, RefuseForward, OpenSocket, Take
<1>2. ASSUME NEW q \in requests, Associate(q) PROVE Goal
  <2>1. PICK s \in Sid :
          /\ session_states[s].status = "none"
          /\ session_states' = [session_states EXCEPT ![s] = NewSession("authenticated")]
    BY <1>2 DEF Associate
  <2>2. requests' \subseteq requests /\ UNCHANGED boxes
    BY <1>2 DEF Associate, Take
  <2>3. session_states[s].key = None
    BY <2>1 DEF KeysSpent
  <2>. QED
    BY <1>0, <2>1, <2>2, <2>3 DEF NewSession
<1>3. ASSUME NEW q \in requests, NEW t \in Task, Exchange(q, t) PROVE Goal
  <2>1. /\ session_states[q.sid].status = "authenticated"
        /\ session_states' = [session_states EXCEPT ![q.sid] =
             [session_states[q.sid] EXCEPT !.key = [client |-> q.link, server |-> t],
                                           !.status = "SUCCESS"]]
        /\ requests' \subseteq requests /\ UNCHANGED boxes
    BY <1>3 DEF Exchange, Take
  <2>2. q.sid \in Sid
    BY <1>3 DEF Exchange, PiTypeOK, Request
  <2>3. session_states[q.sid].key = None
    BY <2>1, <2>2 DEF KeysSpent
  <2>. QED
    BY <1>0, <2>1, <2>2, <2>3
<1>4. ASSUME NEW q \in requests, NEW t \in Task, Forward(q, t) PROVE Goal
  <2>1. requests' \subseteq requests /\ UNCHANGED boxes
    BY <1>4 DEF Forward, Take
  <2>2. \/ UNCHANGED session_states
        \/ session_states' = [session_states EXCEPT ![q.sid] =
             [session_states[q.sid] EXCEPT !.sequence = session_states[q.sid].sequence + 1]]
    BY <1>4 DEF Forward
  <2>. QED
    BY <1>0, <2>1, <2>2 DEF SessionState
<1>5. ASSUME NEW s \in Sid, NEW t \in Task, seal_outbound(s, t), UNCHANGED requests
      PROVE  Goal
  <2>1. /\ boxes' = boxes \cup {SealedBox(s, t)}
        /\ SealedBox(s, t).body = t
    BY <1>5 DEF seal_outbound, SealedBox, encrypt_message
  <2>2. session_states' = [session_states EXCEPT ![s] =
          [session_states[s] EXCEPT !.out_sequence = session_states[s].out_sequence + 1]]
    BY <1>5 DEF seal_outbound
  <2>. QED
    BY <1>0, <1>5, <2>1, <2>2 DEF SessionState
<1>6. ASSUME NEW c \in calling, Answer(c) \/ AnswerUnsealed(c) PROVE Goal
  <2>1. c.sid \in Sid /\ c.task \in Task
    BY DEF PiTypeOK, Call
  <2>. QED
    BY <1>5, <1>6, <2>1 DEF Answer, AnswerUnsealed
<1>7. ASSUME NEW s \in Sid, CloseSocket(s) \/ (\E t \in Task : RelayFrame(s, t))
      PROVE  Goal
  BY <1>5, <1>7 DEF CloseSocket, RelayFrame
<1>8. ASSUME Restart PROVE Goal
  BY <1>0, <1>8 DEF Restart, SessionState
<1>. QED
  BY <1>1, <1>2, <1>3, <1>4, <1>6, <1>7, <1>8 DEF PiNext, PiHandles

\* An "exchanged" reply answers an exchange request of that link and session,
\* and names the key the session has from then on.
LEMMA PiStepReplies ==
  ASSUME PiInv, PiNext
  PROVE  \/ UNCHANGED replies
         \/ \E r : replies' = replies \cup {r} /\ r.kind # "exchanged"
         \/ \E l \in Link, s \in Sid, t \in Task :
              /\ \E q \in requests : q.kind = "exchange" /\ q.link = l /\ q.sid = s
              /\ replies' = replies \cup
                   {[kind |-> "exchanged", link |-> l, sid |-> s, server |-> t]}
              /\ session_states'[s].key = [client |-> l, server |-> t]
<1>. USE DEF PiInv
<1>. DEFINE Goal ==
         \/ UNCHANGED replies
         \/ \E r : replies' = replies \cup {r} /\ r.kind # "exchanged"
         \/ \E l \in Link, s \in Sid, t \in Task :
              /\ \E q \in requests : q.kind = "exchange" /\ q.link = l /\ q.sid = s
              /\ replies' = replies \cup
                   {[kind |-> "exchanged", link |-> l, sid |-> s, server |-> t]}
              /\ session_states'[s].key = [client |-> l, server |-> t]
<1>0. session_states \in [Sid -> SessionState]
  BY DEF PiTypeOK
<1>1. ASSUME NEW q \in requests, Associate(q) PROVE Goal
  BY <1>1 DEF Associate, Respond
<1>2. ASSUME NEW q \in requests, NEW t \in Task, Exchange(q, t) PROVE Goal
  <2>1. q.kind = "exchange" /\ q.link \in Link /\ q.sid \in Sid
    BY <1>2 DEF Exchange, PiTypeOK, Request
  <2>2. replies' = replies \cup
          {[kind |-> "exchanged", link |-> q.link, sid |-> q.sid, server |-> t]}
    BY <1>2 DEF Exchange, Respond
  <2>3. session_states'[q.sid].key = [client |-> q.link, server |-> t]
    <3>. DEFINE k == [client |-> q.link, server |-> t]
    <3>1. session_states' = [session_states EXCEPT ![q.sid] =
            [session_states[q.sid] EXCEPT !.key = k, !.status = "SUCCESS"]]
      BY <1>2 DEF Exchange
    <3>. HIDE DEF k
    <3>2. session_states'[q.sid].key = k
      BY <1>0, <2>1, <3>1 DEF SessionState
    <3>. QED
      BY <3>2 DEF k
  <2>. QED
    BY <2>1, <2>2, <2>3
<1>3. ASSUME NEW c \in calling, Answer(c) PROVE Goal
  BY <1>3 DEF Answer, Respond
<1>4. ASSUME NEW s \in Sid, NEW t \in Task, RelayFrame(s, t) PROVE Goal
  BY <1>4 DEF RelayFrame, Respond
<1>5. ASSUME NEW q \in requests, NEW t \in Task, Forward(q, t) PROVE Goal
  BY <1>5 DEF Forward
<1>6. ASSUME NEW q \in requests,
             \/ RefuseAssociate(q) \/ RefuseExchange(q) \/ RefuseForward(q) \/ OpenSocket(q)
      PROVE  Goal
  BY <1>6 DEF RefuseAssociate, RefuseExchange, RefuseForward, OpenSocket
<1>7. ASSUME Restart \/ (\E s \in Sid : CloseSocket(s))
               \/ (\E c \in calling : AnswerUnsealed(c))
      PROVE  Goal
  BY <1>7 DEF Restart, CloseSocket, AnswerUnsealed
<1>. QED
  BY <1>1, <1>2, <1>3, <1>4, <1>5, <1>6, <1>7 DEF PiNext, PiHandles

\* A body reaches the local API only from a forwarded request that carries the
\* number its session, which has keys, expects.
LEMMA PiStepForwards ==
  ASSUME PiInv, PiNext
  PROVE  \/ UNCHANGED forwarded
         \/ \E q \in requests :
              /\ q.kind = "forward" /\ q.box # None
              /\ q.sid \in Sid /\ q.box \in Box
              /\ session_states[q.sid].key # None
              /\ q.box.seq = session_states[q.sid].sequence
              /\ forwarded' =
                   [forwarded EXCEPT ![q.sid] = Append(forwarded[q.sid], OpenedBody(q))]
<1>1. ASSUME NEW q \in requests, NEW t \in Task, Forward(q, t), q.box # None
      PROVE  /\ q.kind = "forward" /\ q.sid \in Sid /\ q.box \in Box
             /\ session_states[q.sid].key # None
             /\ q.box.seq = session_states[q.sid].sequence
             /\ forwarded' =
                  [forwarded EXCEPT ![q.sid] = Append(forwarded[q.sid], OpenedBody(q))]
  <2>1. q.kind = "forward" /\ q.sid \in Sid /\ q.box \in Box
    BY <1>1 DEF Forward, PiInv, PiTypeOK, Request
  <2>. QED
    BY <1>1, <2>1 DEF Forward, OutOfSequence
<1>2. ASSUME NEW q \in requests, NEW t \in Task, Forward(q, t), q.box = None
      PROVE  UNCHANGED forwarded
  BY <1>2 DEF Forward
<1>3. ASSUME NEW q \in requests, NEW t \in Task, Exchange(q, t)
      PROVE  UNCHANGED forwarded
  BY <1>3 DEF Exchange
<1>4. ASSUME NEW q \in requests,
             \/ Associate(q) \/ RefuseAssociate(q) \/ RefuseExchange(q)
             \/ RefuseForward(q) \/ OpenSocket(q)
      PROVE  UNCHANGED forwarded
  BY <1>4 DEF Associate, RefuseAssociate, RefuseExchange, RefuseForward, OpenSocket
<1>5. ASSUME \/ \E c \in calling : Answer(c) \/ AnswerUnsealed(c)
             \/ \E s \in Sid : CloseSocket(s) \/ \E t \in Task : RelayFrame(s, t)
             \/ Restart
      PROVE  UNCHANGED forwarded
  BY <1>5 DEF Answer, AnswerUnsealed, CloseSocket, RelayFrame, Restart
<1>. QED
  BY <1>1, <1>2, <1>3, <1>4, <1>5 DEF PiNext, PiHandles

-----------------------------------------------------------------------------
(* The expected sequence number counts the bodies handed over. *)

PiCounts ==
  \A s \in Sid :
    /\ session_states[s].sequence = Len(forwarded[s]) + 1
    /\ session_states[s].status = "none" => session_states[s].sequence = 1

LEMMA PiInitCounts == PiInit => PiCounts
<1>. SUFFICES ASSUME PiInit, NEW s \in Sid
              PROVE  /\ session_states[s].sequence = Len(forwarded[s]) + 1
                     /\ session_states[s].status = "none" => session_states[s].sequence = 1
  BY DEF PiCounts
<1>1. session_states[s].sequence = 1
  BY DEF PiInit, NewSession
<1>2. forwarded[s] = <<>>
  BY DEF PiInit
<1>3. Len(forwarded[s]) = 0
  BY <1>2
<1>. QED
  BY <1>1, <1>3

\* Every step of the Pi keeps the count.
LEMMA PiStepKeepsCounts == PiInv /\ PiCounts /\ PiNext => PiCounts'
<1>. SUFFICES ASSUME PiInv, PiCounts, PiNext PROVE PiCounts'
  OBVIOUS
<1>0. /\ session_states \in [Sid -> SessionState]
      /\ forwarded \in [Sid -> Seq(Msg \cup Task \cup {None})]
  BY DEF PiInv, PiTypeOK
<1>1. ASSUME UNCHANGED forwarded,
             \A s \in Sid :
               /\ session_states'[s].sequence = session_states[s].sequence
               /\ session_states'[s].status = "none" => session_states[s].status = "none"
      PROVE  PiCounts'
  BY <1>1 DEF PiCounts
<1>2. ASSUME NEW q \in requests, Associate(q) PROVE PiCounts'
  <2>1. PICK s \in Sid :
          /\ session_states[s].status = "none"
          /\ session_states' = [session_states EXCEPT ![s] = NewSession("authenticated")]
    BY <1>2 DEF Associate
  <2>2. UNCHANGED forwarded /\ session_states[s].sequence = 1
    BY <1>2, <2>1 DEF Associate, PiCounts
  <2>. QED
    BY <1>0, <1>1, <2>1, <2>2 DEF NewSession
<1>3. ASSUME NEW q \in requests, NEW t \in Task, Exchange(q, t) PROVE PiCounts'
  <2>. DEFINE k == [client |-> q.link, server |-> t]
  <2>1. /\ session_states' = [session_states EXCEPT ![q.sid] =
             [session_states[q.sid] EXCEPT !.key = k, !.status = "SUCCESS"]]
        /\ UNCHANGED forwarded
    BY <1>3 DEF Exchange
  <2>. HIDE DEF k
  <2>. QED
    BY <1>0, <1>1, <2>1 DEF SessionState
<1>4. ASSUME NEW q \in requests, NEW t \in Task, Forward(q, t) PROVE PiCounts'
  <2>1. CASE q.box = None
    BY <1>1, <1>4, <2>1 DEF Forward
  <2>2. CASE q.box # None
    <3>1. q.sid \in Sid /\ q.box \in Box
      BY <1>4, <2>2 DEF Forward, PiInv, PiTypeOK, Request
    <3>2. /\ forwarded' =
               [forwarded EXCEPT ![q.sid] = Append(forwarded[q.sid], OpenedBody(q))]
          /\ session_states' = [session_states EXCEPT ![q.sid] =
               [session_states[q.sid] EXCEPT !.sequence = session_states[q.sid].sequence + 1]]
          /\ Known(q.sid)
      BY <1>4, <2>2 DEF Forward
    <3>3. OpenedBody(q) \in Msg \cup Task \cup {None}
      BY <3>1 DEF OpenedBody, Box
    <3>4. Len(forwarded'[q.sid]) = Len(forwarded[q.sid]) + 1
      BY <1>0, <3>1, <3>2, <3>3
    <3>5. /\ session_states'[q.sid].sequence = session_states[q.sid].sequence + 1
          /\ session_states'[q.sid].status = session_states[q.sid].status
      BY <1>0, <3>1, <3>2 DEF SessionState
    <3>6. session_states'[q.sid].status # "none"
      BY <3>2, <3>5 DEF Known
    <3>7. \A s \in Sid \ {q.sid} :
            forwarded'[s] = forwarded[s] /\ session_states'[s] = session_states[s]
      BY <1>0, <3>2
    <3>. QED
      BY <3>1, <3>4, <3>5, <3>6, <3>7 DEF PiCounts
  <2>. QED
    BY <2>1, <2>2
<1>5. ASSUME NEW s \in Sid, NEW t \in Task, seal_outbound(s, t), UNCHANGED forwarded
      PROVE  PiCounts'
  <2>1. session_states' = [session_states EXCEPT ![s] =
          [session_states[s] EXCEPT !.out_sequence = session_states[s].out_sequence + 1]]
    BY <1>5 DEF seal_outbound
  <2>. QED
    BY <1>0, <1>1, <1>5, <2>1 DEF SessionState
<1>6. ASSUME NEW c \in calling, Answer(c) \/ AnswerUnsealed(c) PROVE PiCounts'
  <2>1. c.sid \in Sid /\ c.task \in Task
    BY DEF PiInv, PiTypeOK, Call
  <2>2. CASE Answer(c)
    BY <1>5, <2>1, <2>2 DEF Answer
  <2>3. CASE AnswerUnsealed(c)
    BY <1>1, <2>3 DEF AnswerUnsealed
  <2>. QED
    BY <1>6, <2>2, <2>3
<1>7. ASSUME NEW s \in Sid, CloseSocket(s) PROVE PiCounts'
  BY <1>1, <1>7 DEF CloseSocket
<1>8. ASSUME NEW s \in Sid, NEW t \in Task, RelayFrame(s, t) PROVE PiCounts'
  BY <1>5, <1>8 DEF RelayFrame
<1>9. ASSUME Restart PROVE PiCounts'
  BY <1>0, <1>1, <1>9 DEF Restart, SessionState
<1>10. ASSUME NEW q \in requests,
              RefuseAssociate(q) \/ RefuseExchange(q) \/ RefuseForward(q) \/ OpenSocket(q)
       PROVE  PiCounts'
  BY <1>1, <1>10 DEF RefuseAssociate, RefuseExchange, RefuseForward, OpenSocket
<1>. QED
  BY <1>2, <1>3, <1>4, <1>6, <1>7, <1>8, <1>9, <1>10 DEF PiNext, PiHandles

-----------------------------------------------------------------------------
\* A client's step that posts requests and adds boxes of its own keeps both.
LEMMA ClientKeepsPiInv ==
  ASSUME PiInv, PiCounts,
         UNCHANGED <<session_states, replies, calling, listening, spent, forwarded>>,
         requests' \subseteq Request,
         boxes' \subseteq Box,
         \A b \in boxes' \ boxes : b.body \in Msg
  PROVE  PiInv' /\ PiCounts'
<1>. USE DEF PiInv
<1>1. PiTypeOK'
  BY DEF PiTypeOK
<1>2. KeysSpent' /\ KeysDistinct' /\ SealersKeyed' /\ CountersAboveBase'
  BY DEF KeysSpent, KeysDistinct, SealersKeyed, CountersAboveBase
<1>3. \A b \in boxes' : b.body \in Task => b \in boxes
  OBVIOUS
<1>4. PiBoxesNumbered' /\ PiBoxesDistinct'
  BY <1>3 DEF PiBoxesNumbered, PiBoxesDistinct
<1>5. PiCounts'
  BY DEF PiCounts
<1>. QED
  BY <1>1, <1>2, <1>4, <1>5
=============================================================================
