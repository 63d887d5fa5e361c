-------------------------- MODULE BrowserChannelProofs --------------------------
(***************************************************************************)
(* The dashboard's sealed channel for any number of tabs, submissions,     *)
(* requests, sessions and invocations: the two directions never share a    *)
(* nonce, what opens at the Pi opens in its session's order and once, the  *)
(* stored keys are those of the stored session, and answers open.          *)
(***************************************************************************)
EXTENDS BrowserChannel, PiSessionProofs

USE BaseAssumption, PlaintextAssumption, NoneAssumption

-----------------------------------------------------------------------------
(* The inductive invariant. *)

\* Submission l was given session s, or is over.
Begun(l, s) ==
  \/ pairing[l].pc = "over"
  \/ pairing[l].pc = "key-exchange" /\ pairing[l].sid = s

\* Exchanges are about the session their submission was given.
ExchangesMatch ==
  /\ \A q \in requests : q.kind = "exchange" => Begun(q.link, q.sid)
  /\ \A r \in replies : r.kind = "exchanged" =>
       /\ Begun(r.link, r.sid)
       /\ session_states[r.sid].key = [client |-> r.link, server |-> r.server]

\* The browser forgets its session no later than its keys.
StorageMatches ==
  stored_session # None =>
    stored_key # None /\ session_states[stored_session].key = stored_key

\* The call of request m was posted, in session s unless it has ended.
Asked(m, s) ==
  /\ fetches[m].pc \notin {"none", "sealing"}
  /\ fetches[m].pc = "sent" => fetches[m].sid = s

\* A request is sealed by one call, once, under a number up to the base.
SealedOnce ==
  /\ \A p \in sealing :
       /\ p.seq <= OutboundBase
       /\ fetches[p.msg] = [pc |-> "sealing", tab |-> p.tab, sid |-> p.sid]
  /\ \A p1, p2 \in sealing : p1.msg = p2.msg => p1 = p2
  /\ \A b \in boxes : b.body \in Msg =>
       b.seq <= OutboundBase /\ fetches[b.body].pc \notin {"none", "sealing"}
  /\ \A b1, b2 \in boxes : b1.body \in Msg /\ b1.body = b2.body => b1 = b2

\* What is on its way to the Pi and back belongs to the call it names.
CallsMatch ==
  /\ \A q \in requests : q.kind = "forward" =>
       /\ Asked(q.msg, q.sid)
       /\ q.box # None => q.box \in boxes /\ q.box.body \in Msg
  /\ \A c \in calling : Asked(c.msg, c.sid)
  /\ \A r \in replies : r.kind = "answer" =>
       Asked(r.msg, r.box.sid) /\ session_states[r.box.sid].key = r.box.key

\* A body that opened was sealed by the browser as that number of that session.
ForwardedSealed ==
  \A s \in Sid : \A i \in 1..Len(forwarded[s]) : forwarded[s][i] # None =>
    \E box \in boxes :
      /\ box.body \in Msg /\ box.body = forwarded[s][i]
      /\ box.sid = s /\ box.seq = i /\ box.key = session_states[s].key

BrowserInv ==
  /\ TypeOK
  /\ PiInv
  /\ PiCounts
  /\ ExchangesMatch
  /\ StorageMatches
  /\ SealedOnce
  /\ CallsMatch
  /\ ForwardedSealed

-----------------------------------------------------------------------------
LEMMA BrowserInitInv == Init => BrowserInv
<1>. SUFFICES ASSUME Init PROVE BrowserInv
  OBVIOUS
<1>1. PiInit /\ PiInv /\ PiCounts
  BY PiInitInv, PiInitCounts DEF Init
<1>2. TypeOK
  BY <1>1 DEF Init, TypeOK, PiInv, Pairing, NoPairing, Fetch, NoFetch
<1>3. ExchangesMatch /\ StorageMatches /\ SealedOnce /\ CallsMatch
  BY <1>1 DEF Init, PiInit, ExchangesMatch, StorageMatches, SealedOnce, CallsMatch
<1>4. ForwardedSealed
  <2>1. \A s \in Sid : Len(forwarded[s]) = 0
    BY <1>1 DEF PiInit
  <2>. QED
    BY <2>1 DEF ForwardedSealed
<1>. QED
  BY <1>1, <1>2, <1>3, <1>4 DEF BrowserInv

-----------------------------------------------------------------------------
(* A step of the Pi. *)

\* A call is made for a forwarded request and answered under its session's key.
LEMMA PiStepAnswers ==
  ASSUME PiInv, PiNext
  PROVE  /\ \A c \in calling' : c \in calling \/
              \E q \in requests : q.kind = "forward" /\ c.msg = q.msg /\ c.sid = q.sid
         /\ \A r \in replies' : \/ r \in replies
                                \/ r.kind # "answer"
                                \/ \E c \in calling :
                                     /\ r.msg = c.msg /\ r.box.sid = c.sid
                                     /\ r.box.key = session_states[c.sid].key
<1>. DEFINE Goal ==
       /\ \A c \in calling' : c \in calling \/
            \E q \in requests : q.kind = "forward" /\ c.msg = q.msg /\ c.sid = q.sid
       /\ \A r \in replies' : \/ r \in replies
                              \/ r.kind # "answer"
                              \/ \E c \in calling :
                                   /\ r.msg = c.msg /\ r.box.sid = c.sid
                                   /\ r.box.key = session_states[c.sid].key
<1>1. ASSUME NEW q \in requests,
             \/ RefuseAssociate(q) \/ RefuseExchange(q) \/ RefuseForward(q) \/ OpenSocket(q)
      PROVE  Goal
  BY <1>1 DEF RefuseAssociate, RefuseExchange, RefuseForward, OpenSocket
<1>6. ASSUME NEW q \in requests, Associate(q) PROVE Goal
  <2>1. PICK s \in Sid :
          replies' = replies \cup {[kind |-> "associated", link |-> q.link, sid |-> s]}
    BY <1>6 DEF Associate, Respond
  <2>2. UNCHANGED calling
    BY <1>6 DEF Associate
  <2>. QED
    BY <2>1, <2>2
<1>7. ASSUME NEW q \in requests, NEW t \in Task, Exchange(q, t) PROVE Goal
  BY <1>7 DEF Exchange, Respond
<1>2. ASSUME NEW q \in requests, NEW t \in Task, Forward(q, t) PROVE Goal
  BY <1>2 DEF Forward
<1>3. ASSUME NEW c \in calling, Answer(c) PROVE Goal
  <2>. DEFINE box == SealedBox(c.sid, c.task)
  <2>1. box.sid = c.sid /\ box.key = session_states[c.sid].key
    BY DEF SealedBox, encrypt_message
  <2>2. replies' = replies \cup {[kind |-> "answer", msg |-> c.msg, box |-> box]}
    BY <1>3 DEF Answer, Respond
  <2>3. calling' \subseteq calling
    BY <1>3 DEF Answer
  <2>. HIDE DEF box
  <2>. QED
    BY <2>1, <2>2, <2>3
<1>4. ASSUME NEW s \in Sid, CloseSocket(s) \/ \E t \in Task : RelayFrame(s, t) PROVE Goal
  BY <1>4 DEF CloseSocket, RelayFrame, Respond
<1>5. ASSUME Restart \/ \E c \in calling : AnswerUnsealed(c) PROVE Goal
  BY <1>5 DEF Restart, AnswerUnsealed
<1>. QED
  BY <1>1, <1>2, <1>3, <1>4, <1>5, <1>6, <1>7 DEF PiNext, PiHandles

\* A body that the Pi opens was sealed by the browser for that place.
LEMMA OpenedWasSealed ==
  ASSUME BrowserInv, NEW q \in requests,
         q.kind = "forward", q.box # None, q.sid \in Sid, q.box \in Box,
         q.box.seq = session_states[q.sid].sequence, OpenedBody(q) # None
  PROVE  /\ q.box \in boxes /\ q.box.body \in Msg /\ q.box.body = OpenedBody(q)
         /\ q.box.sid = q.sid /\ q.box.seq = Len(forwarded[q.sid]) + 1
         /\ q.box.key = session_states[q.sid].key
<1>1. q.box \in boxes /\ q.box.body \in Msg
  BY DEF BrowserInv, CallsMatch
<1>2. OpensHere(q) /\ OpenedBody(q) = q.box.body
  BY DEF OpenedBody
<1>3. q.box.key = session_states[q.sid].key /\ q.box.sid = q.sid
  BY <1>2, OpensOwn DEF OpensHere
<1>4. q.box.seq = Len(forwarded[q.sid]) + 1
  BY DEF BrowserInv, PiCounts
<1>. QED
  BY <1>1, <1>2, <1>3, <1>4

LEMMA PiKeepsForwarded ==
  ASSUME BrowserInv, PiNext
  PROVE  ForwardedSealed'
<1>. DEFINE Sealed(s, i, body) == \E box \in boxes :
              /\ box.body \in Msg /\ box.body = body
              /\ box.sid = s /\ box.seq = i /\ box.key = session_states[s].key
            SealedNow(s, i, body) == \E box \in boxes' :
              /\ box.body \in Msg /\ box.body = body
              /\ box.sid = s /\ box.seq = i /\ box.key = session_states'[s].key
<1>1. forwarded \in [Sid -> Seq(Msg \cup Task \cup {None})] /\ PiInv /\ boxes \subseteq Box
  BY DEF BrowserInv, PiInv, PiTypeOK
<1>2. ASSUME NEW s \in Sid, NEW i, NEW body, Sealed(s, i, body)
      PROVE  SealedNow(s, i, body)
  <2>1. PICK box \in boxes :
          /\ box.body \in Msg /\ box.body = body
          /\ box.sid = s /\ box.seq = i /\ box.key = session_states[s].key
    BY <1>2
  <2>2. box.key # None
    BY <1>1 DEF Box
  <2>3. box \in boxes' /\ session_states'[s].key = session_states[s].key
    BY <1>1, <2>1, <2>2, PiStepEffects
  <2>. QED
    BY <2>1, <2>3
<1>3. ASSUME NEW s \in Sid, NEW i \in 1..Len(forwarded[s]), forwarded[s][i] # None
      PROVE  SealedNow(s, i, forwarded[s][i])
  <2>1. Sealed(s, i, forwarded[s][i])
    BY <1>3 DEF BrowserInv, ForwardedSealed
  <2>. QED
    BY <1>2, <2>1
<1>. HIDE DEF SealedNow
<1>4. CASE UNCHANGED forwarded
  BY <1>3, <1>4 DEF ForwardedSealed, SealedNow
<1>5. ASSUME NEW q \in requests,
             q.kind = "forward", q.box # None, q.sid \in Sid, q.box \in Box,
             q.box.seq = session_states[q.sid].sequence,
             forwarded' = [forwarded EXCEPT ![q.sid] = Append(forwarded[q.sid], OpenedBody(q))]
      PROVE  ForwardedSealed'
  <2>. DEFINE f == forwarded[q.sid]
              e == OpenedBody(q)
  <2>1. f \in Seq(Msg \cup Task \cup {None}) /\ Len(f) \in Nat
    BY <1>1, <1>5
  <2>2. e # None => Sealed(q.sid, Len(f) + 1, e)
    BY <1>5, OpenedWasSealed
  <2>3. e # None => SealedNow(q.sid, Len(f) + 1, e)
    BY <1>2, <1>5, <2>2
  <2>4. e \in Msg \cup Task \cup {None}
    BY <1>5 DEF OpenedBody, Box
  <2>5. forwarded'[q.sid] = Append(f, e) /\ \A s \in Sid \ {q.sid} : forwarded'[s] = forwarded[s]
    BY <1>1, <1>5
  <2>. HIDE DEF e
  <2>6. /\ Len(Append(f, e)) = Len(f) + 1
        /\ \A i \in 1..(Len(f) + 1) : Append(f, e)[i] = IF i = Len(f) + 1 THEN e ELSE f[i]
    BY <2>1, <2>4
  <2>7. ASSUME NEW i \in 1..(Len(f) + 1), Append(f, e)[i] # None
        PROVE  SealedNow(q.sid, i, Append(f, e)[i])
    <3>1. CASE i = Len(f) + 1
      BY <2>3, <2>6, <2>7, <3>1
    <3>2. CASE i # Len(f) + 1
      <4>1. i \in 1..Len(f) /\ Append(f, e)[i] = f[i]
        BY <2>1, <2>6, <3>2
      <4>. QED
        BY <1>3, <1>5, <2>7, <4>1
    <3>. QED
      BY <3>1, <3>2
  <2>8. ASSUME NEW s \in Sid, NEW i \in 1..Len(forwarded'[s]), forwarded'[s][i] # None
        PROVE  SealedNow(s, i, forwarded'[s][i])
    <3>1. CASE s = q.sid
      BY <2>5, <2>6, <2>7, <2>8, <3>1
    <3>2. CASE s # q.sid
      BY <1>3, <2>5, <2>8, <3>2
    <3>. QED
      BY <3>1, <3>2
  <2>. QED
    BY <2>8 DEF ForwardedSealed, SealedNow
<1>. QED
  BY <1>1, <1>4, <1>5, PiStepForwards

LEMMA PiKeepsBrowserInv ==
  ASSUME BrowserInv, PiNext, UNCHANGED browserVars
  PROVE  BrowserInv'
<1>. USE DEF browserVars, storage
<1>1. PiInv /\ PiCounts /\ TypeOK
  BY DEF BrowserInv
<1>2. PiInv' /\ PiCounts'
  BY <1>1, PiStepKeepsInv, PiStepKeepsCounts
<1>3. TypeOK'
  BY <1>1, <1>2 DEF TypeOK, PiInv
<1>4. /\ requests' \subseteq requests
      /\ \A s \in Sid : session_states[s].key # None =>
           session_states'[s].key = session_states[s].key
      /\ boxes \subseteq boxes'
      /\ \A b \in boxes' \ boxes : b.body \in Task
  BY <1>1, PiStepEffects
<1>5. /\ requests \subseteq Request /\ replies \subseteq Reply /\ calling \subseteq Call
  BY <1>1 DEF TypeOK, PiTypeOK
<1>6. \A l \in Link, s \in Sid : Begun(l, s) => Begun(l, s)'
  BY DEF Begun
<1>7. \A m \in Msg, s \in Sid : Asked(m, s) => Asked(m, s)'
  BY DEF Asked
<1>8. ExchangesMatch'
  <2>. DEFINE Matches(r) ==
                /\ Begun(r.link, r.sid)'
                /\ session_states'[r.sid].key = [client |-> r.link, server |-> r.server]
  <2>1. \A q \in requests : q.kind = "exchange" => q.link \in Link /\ q.sid \in Sid
    BY <1>5 DEF Request
  <2>2. \A q \in requests' : q.kind = "exchange" => Begun(q.link, q.sid)'
    BY <1>4, <1>6, <2>1 DEF BrowserInv, ExchangesMatch
  <2>3. ASSUME NEW r \in replies, r.kind = "exchanged" PROVE Matches(r)
    <3>1. r.link \in Link /\ r.sid \in Sid /\ r.server \in Task
      BY <1>5, <2>3 DEF Reply
    <3>2. /\ Begun(r.link, r.sid)
          /\ session_states[r.sid].key = [client |-> r.link, server |-> r.server]
      BY <2>3 DEF BrowserInv, ExchangesMatch
    <3>3. session_states[r.sid].key # None
      BY <3>1, <3>2 DEF Key
    <3>. QED
      BY <1>4, <1>6, <3>1, <3>2, <3>3
  <2>4. ASSUME NEW l \in Link, NEW s \in Sid, NEW t \in Task,
               \E q \in requests : q.kind = "exchange" /\ q.link = l /\ q.sid = s,
               replies' = replies \cup
                 {[kind |-> "exchanged", link |-> l, sid |-> s, server |-> t]},
               session_states'[s].key = [client |-> l, server |-> t]
        PROVE  \A r \in replies' : r.kind = "exchanged" => Matches(r)
    <3>. DEFINE x == [kind |-> "exchanged", link |-> l, sid |-> s, server |-> t]
    <3>1. Begun(l, s)'
      BY <1>6, <2>4 DEF BrowserInv, ExchangesMatch
    <3>2. Matches(x)
      BY <2>4, <3>1
    <3>. HIDE DEF x, Matches
    <3>3. replies' = replies \cup {x}
      BY <2>4 DEF x
    <3>. QED
      BY <2>3, <3>2, <3>3
  <2>. HIDE DEF Matches
  <2>5. \A r \in replies' : r.kind = "exchanged" => Matches(r)
    BY <1>1, <2>3, <2>4, PiStepReplies
  <2>. QED
    BY <2>2, <2>5 DEF ExchangesMatch, Matches
<1>9. StorageMatches'
  <2>1. stored_session \in Sid \cup {None}
    BY <1>1 DEF TypeOK
  <2>. QED
    BY <1>4, <2>1 DEF BrowserInv, StorageMatches
<1>10. SealedOnce'
  <2>1. \A b \in boxes' : b.body \in Msg => b \in boxes
    BY <1>4
  <2>. QED
    BY <2>1 DEF BrowserInv, SealedOnce
<1>11. CallsMatch'
  <2>1. ASSUME NEW q \in requests, q.kind = "forward"
        PROVE  /\ Asked(q.msg, q.sid) /\ Asked(q.msg, q.sid)'
               /\ q.box # None => q.box \in boxes' /\ q.box.body \in Msg
    <3>1. q.msg \in Msg /\ q.sid \in Sid
      BY <1>5, <2>1 DEF Request
    <3>. QED
      BY <1>4, <1>7, <2>1, <3>1 DEF BrowserInv, CallsMatch
  <2>2. ASSUME NEW c \in calling PROVE Asked(c.msg, c.sid)'
    <3>1. c.msg \in Msg /\ c.sid \in Sid
      BY <1>5 DEF Call
    <3>. QED
      BY <1>7, <3>1 DEF BrowserInv, CallsMatch
  <2>3. \A c \in calling' : Asked(c.msg, c.sid)'
    <3>1. ASSUME NEW c \in calling', NEW q \in requests, q.kind = "forward",
                 c.msg = q.msg, c.sid = q.sid
          PROVE  Asked(c.msg, c.sid)'
      BY <2>1, <3>1
    <3>. QED
      BY <1>1, <2>2, <3>1, PiStepAnswers
  <2>4. ASSUME NEW r \in replies, r.kind = "answer"
        PROVE  Asked(r.msg, r.box.sid)' /\ session_states'[r.box.sid].key = r.box.key
    <3>1. r.msg \in Msg /\ r.box.sid \in Sid /\ r.box.key \in Key
      BY <1>5, <2>4 DEF Reply, Box
    <3>2. Asked(r.msg, r.box.sid) /\ session_states[r.box.sid].key = r.box.key
      BY <2>4 DEF BrowserInv, CallsMatch
    <3>. QED
      BY <1>4, <1>7, <3>1, <3>2
  <2>5. ASSUME NEW r \in replies', NEW c \in calling,
               r.msg = c.msg, r.box.sid = c.sid, r.box.key = session_states[c.sid].key
        PROVE  Asked(r.msg, r.box.sid)' /\ session_states'[r.box.sid].key = r.box.key
    <3>1. c.sid \in Sid /\ session_states[c.sid].key # None
      BY <1>1, <1>5 DEF PiInv, SealersKeyed, Call
    <3>. QED
      BY <1>4, <2>2, <2>5, <3>1
  <2>6. \A r \in replies' : r.kind = "answer" =>
          Asked(r.msg, r.box.sid)' /\ session_states'[r.box.sid].key = r.box.key
    BY <1>1, <2>4, <2>5, PiStepAnswers
  <2>. QED
    BY <1>4, <2>1, <2>3, <2>6 DEF CallsMatch
<1>12. ForwardedSealed'
  BY PiKeepsForwarded
<1>. QED
  BY <1>2, <1>3, <1>8, <1>9, <1>10, <1>11, <1>12 DEF BrowserInv

-----------------------------------------------------------------------------
(* The steps of the browser.  A step posts requests and may add boxes; what *)
(* it keeps is said part by part.                                           *)

LEMMA ExchangesStay ==
  ASSUME BrowserInv, UNCHANGED <<session_states, replies>>,
         \A l \in Link, s \in Sid : Begun(l, s) => Begun(l, s)',
         \A q \in requests' \ requests : q.kind = "exchange" => Begun(q.link, q.sid)'
  PROVE  ExchangesMatch'
<1>1. requests \subseteq Request /\ replies \subseteq Reply
  BY DEF BrowserInv, PiInv, PiTypeOK
<1>2. \A q \in requests : q.kind = "exchange" => q.link \in Link /\ q.sid \in Sid
  BY <1>1 DEF Request
<1>3. \A r \in replies : r.kind = "exchanged" => r.link \in Link /\ r.sid \in Sid
  BY <1>1 DEF Reply
<1>. QED
  BY <1>2, <1>3 DEF BrowserInv, ExchangesMatch

LEMMA CallsStay ==
  ASSUME BrowserInv, UNCHANGED <<session_states, replies, calling>>, boxes \subseteq boxes',
         \A m \in Msg, s \in Sid : Asked(m, s) => Asked(m, s)',
         \A q \in requests' \ requests : q.kind = "forward" =>
           /\ Asked(q.msg, q.sid)'
           /\ q.box # None => q.box \in boxes' /\ q.box.body \in Msg
  PROVE  CallsMatch'
<1>1. requests \subseteq Request /\ replies \subseteq Reply /\ calling \subseteq Call
  BY DEF BrowserInv, PiInv, PiTypeOK
<1>2. \A q \in requests : q.kind = "forward" => q.msg \in Msg /\ q.sid \in Sid
  BY <1>1 DEF Request
<1>3. \A c \in calling : c.msg \in Msg /\ c.sid \in Sid
  BY <1>1 DEF Call
<1>4. \A r \in replies : r.kind = "answer" => r.msg \in Msg /\ r.box.sid \in Sid
  BY <1>1 DEF Reply, Box
<1>. QED
  BY <1>2, <1>3, <1>4 DEF BrowserInv, CallsMatch

LEMMA ForwardedStay ==
  ASSUME BrowserInv, UNCHANGED <<session_states, forwarded>>, boxes \subseteq boxes'
  PROVE  ForwardedSealed'
  BY DEF BrowserInv, ForwardedSealed

\* A step that leaves the calls of customFetch and the storage alone.
LEMMA PostKeepsInv ==
  ASSUME BrowserInv,
         UNCHANGED <<session_states, replies, calling, listening, spent, boxes, forwarded>>,
         UNCHANGED <<storage, sealing, fetches>>,
         requests' \subseteq Request,
         \A q \in requests' \ requests : q.kind # "forward",
         \A l \in Link, s \in Sid : Begun(l, s) => Begun(l, s)',
         \A q \in requests' \ requests : q.kind = "exchange" => Begun(q.link, q.sid)',
         pairing' \in [Link -> Pairing], tab_session' \in [Tab -> Sid \cup {None}]
  PROVE  BrowserInv'
<1>. USE DEF storage
<1>1. PiInv /\ PiCounts /\ TypeOK /\ boxes \subseteq Box
  BY DEF BrowserInv, PiInv, PiTypeOK
<1>2. PiInv' /\ PiCounts'
  BY <1>1, ClientKeepsPiInv
<1>3. TypeOK'
  BY <1>1, <1>2 DEF TypeOK, PiInv
<1>4. ExchangesMatch'
  BY ExchangesStay
<1>5. \A m \in Msg, s \in Sid : Asked(m, s) => Asked(m, s)'
  BY DEF Asked
<1>6. CallsMatch' /\ ForwardedSealed'
  BY <1>5, CallsStay, ForwardedStay
<1>7. StorageMatches' /\ SealedOnce'
  BY DEF BrowserInv, StorageMatches, SealedOnce
<1>. QED
  BY <1>2, <1>3, <1>4, <1>6, <1>7 DEF BrowserInv

LEMMA SubmitKeepsInv ==
  ASSUME BrowserInv, NEW b \in Tab, NEW l \in Link, Submit(b, l)
  PROVE  BrowserInv'
<1>1. /\ pairing \in [Link -> Pairing] /\ requests \subseteq Request
      /\ tab_session \in [Tab -> Sid \cup {None}]
  BY DEF BrowserInv, TypeOK, PiTypeOK
<1>. DEFINE new == [pairing[l] EXCEPT !.pc = "connect", !.tab = b]
<1>2. /\ pairing' = [pairing EXCEPT ![l] = new]
      /\ pairing[l].pc = "idle"
      /\ requests' = requests \cup {[kind |-> "associate", link |-> l]}
  BY DEF Submit, Post
<1>3. new \in Pairing
  <2>1. pairing[l] \in Pairing
    BY <1>1
  <2>. QED
    BY <2>1 DEF Pairing
<1>. HIDE DEF new
<1>4. pairing' \in [Link -> Pairing] /\ \A k \in Link \ {l} : pairing'[k] = pairing[k]
  BY <1>1, <1>2, <1>3
<1>5. \A k \in Link, s \in Sid : Begun(k, s) => Begun(k, s)'
  BY <1>2, <1>4 DEF Begun
<1>6. requests' \subseteq Request
  BY <1>1, <1>2 DEF Request
<1>. QED
  BY <1>1, <1>2, <1>4, <1>5, <1>6, PostKeepsInv DEF Submit, UnchangedPi

LEMMA AssociatedKeepsInv ==
  ASSUME BrowserInv, NEW l \in Link, NEW r \in replies, Associated(l, r)
  PROVE  BrowserInv'
<1>1. /\ pairing \in [Link -> Pairing] /\ requests \subseteq Request /\ replies \subseteq Reply
      /\ tab_session \in [Tab -> Sid \cup {None}]
  BY DEF BrowserInv, TypeOK, PiTypeOK
<1>. DEFINE new == [pairing[l] EXCEPT !.pc = "key-exchange", !.sid = r.sid]
<1>2. /\ pairing' = [pairing EXCEPT ![l] = new]
      /\ pairing[l].pc = "connect"
      /\ requests' = requests \cup {[kind |-> "exchange", link |-> l, sid |-> r.sid]}
  BY DEF Associated, Post, deriveDhPublicKey
<1>3. r.sid \in Sid
  BY <1>1 DEF Associated, Reply
<1>4. new \in Pairing /\ new.pc = "key-exchange" /\ new.sid = r.sid
  <2>1. pairing[l] \in Pairing
    BY <1>1
  <2>. QED
    BY <1>3, <2>1 DEF Pairing
<1>. HIDE DEF new
<1>5. /\ pairing' \in [Link -> Pairing] /\ pairing'[l] = new
      /\ \A k \in Link \ {l} : pairing'[k] = pairing[k]
  BY <1>1, <1>2, <1>4
<1>6. \A k \in Link, s \in Sid : Begun(k, s) => Begun(k, s)'
  BY <1>2, <1>5 DEF Begun
<1>7. Begun(l, r.sid)'
  BY <1>4, <1>5 DEF Begun
<1>8. requests' \subseteq Request
  BY <1>1, <1>2, <1>3 DEF Request
<1>. QED
  BY <1>1, <1>2, <1>5, <1>6, <1>7, <1>8, PostKeepsInv DEF Associated, UnchangedPi

LEMMA OverIsPairing == Over \in Pairing /\ Over.pc = "over"
  BY DEF Over, NoPairing, Pairing

LEMMA ExchangedKeepsInv ==
  ASSUME BrowserInv, NEW l \in Link, NEW r \in replies, Exchanged(l, r)
  PROVE  BrowserInv'
<1>. DEFINE k == [client |-> l, server |-> r.server]
            s == pairing[l].sid
<1>1. /\ pairing \in [Link -> Pairing] /\ requests \subseteq Request /\ replies \subseteq Reply
      /\ tab_session \in [Tab -> Sid \cup {None}] /\ boxes \subseteq Box
      /\ PiInv /\ PiCounts
  BY DEF BrowserInv, TypeOK, PiTypeOK
<1>2. r.kind = "exchanged" /\ r.link = l /\ r.sid \in Sid /\ r.server \in Task
  BY <1>1 DEF Exchanged, Reply
<1>3. k \in Key /\ k # None
  BY <1>2 DEF Key
<1>4. /\ pairing[l].pc = "key-exchange"
      /\ pairing' = [pairing EXCEPT ![l] = Over]
      /\ stored_key' = k /\ stored_session' = s
      /\ tab_session' = [tab_session EXCEPT ![pairing[l].tab] = s]
      /\ UNCHANGED <<session_states, requests, replies, calling, listening, spent, boxes,
                     forwarded, stored_sequence, sealing, fetches>>
  BY DEF Exchanged, deriveSharedSecret, piVars
<1>5. Begun(l, r.sid) /\ session_states[r.sid].key = k
  BY <1>2 DEF BrowserInv, ExchangesMatch
<1>6. s = r.sid
  BY <1>4, <1>5 DEF Begun
<1>. HIDE DEF k, s
<1>7. PiInv' /\ PiCounts'
  BY <1>1, <1>4, ClientKeepsPiInv
<1>8. TypeOK'
  <2>1. pairing' \in [Link -> Pairing] /\ tab_session' \in [Tab -> Sid \cup {None}]
    BY <1>1, <1>2, <1>4, <1>6, OverIsPairing
  <2>. QED
    BY <1>2, <1>3, <1>4, <1>6, <1>7, <2>1 DEF BrowserInv, TypeOK, PiInv
<1>9. \A x \in Link, y \in Sid : Begun(x, y) => Begun(x, y)'
  BY <1>1, <1>4, OverIsPairing DEF Begun
<1>10. ExchangesMatch'
  BY <1>4, <1>9, ExchangesStay
<1>11. StorageMatches'
  BY <1>3, <1>4, <1>5, <1>6 DEF StorageMatches
<1>12. \A m \in Msg, y \in Sid : Asked(m, y) => Asked(m, y)'
  BY <1>4 DEF Asked
<1>13. SealedOnce' /\ CallsMatch' /\ ForwardedSealed'
  BY <1>4, <1>12, CallsStay, ForwardedStay DEF BrowserInv, SealedOnce
<1>. QED
  BY <1>7, <1>8, <1>10, <1>11, <1>13 DEF BrowserInv

LEMMA PairingFailsKeepsInv ==
  ASSUME BrowserInv, NEW l \in Link, PairingFails(l)
  PROVE  BrowserInv'
<1>1. /\ pairing \in [Link -> Pairing] /\ requests \subseteq Request
      /\ tab_session \in [Tab -> Sid \cup {None}]
  BY DEF BrowserInv, TypeOK, PiTypeOK
<1>2. pairing' = [pairing EXCEPT ![l] = Over] /\ UNCHANGED <<requests, tab_session>>
  BY DEF PairingFails, piVars
<1>3. \A x \in Link, y \in Sid : Begun(x, y) => Begun(x, y)'
  BY <1>1, <1>2, OverIsPairing DEF Begun
<1>4. pairing' \in [Link -> Pairing]
  BY <1>1, <1>2, OverIsPairing
<1>. QED
  BY <1>1, <1>2, <1>3, <1>4, PostKeepsInv DEF PairingFails, piVars

LEMMA OpenLiveKeepsInv ==
  ASSUME BrowserInv, NEW b \in Tab, OpenLive(b)
  PROVE  BrowserInv'
<1>1. /\ pairing \in [Link -> Pairing] /\ requests \subseteq Request
      /\ tab_session \in [Tab -> Sid \cup {None}]
  BY DEF BrowserInv, TypeOK, PiTypeOK
<1>2. requests' = requests \cup {[kind |-> "open", sid |-> tab_session[b]]}
  BY DEF OpenLive, Post
<1>3. tab_session[b] \in Sid
  BY <1>1 DEF OpenLive
<1>4. requests' \subseteq Request
  BY <1>1, <1>2, <1>3 DEF Request
<1>5. \A x \in Link, y \in Sid : Begun(x, y) => Begun(x, y)'
  BY DEF OpenLive, browserVars, Begun
<1>. QED
  BY <1>1, <1>2, <1>4, <1>5, PostKeepsInv DEF OpenLive, UnchangedPi, browserVars

LEMMA ForgetKeepsInv ==
  ASSUME BrowserInv, NEW b \in Tab, Logout(b) \/ Wipe(b)
  PROVE  BrowserInv'
<1>1. /\ tab_session \in [Tab -> Sid \cup {None}] /\ PiInv /\ PiCounts
      /\ requests \subseteq Request /\ boxes \subseteq Box
  BY DEF BrowserInv, TypeOK, PiTypeOK
<1>2. /\ tab_session' = [tab_session EXCEPT ![b] = None]
      /\ stored_session' = None
      /\ stored_key' \in {stored_key, None} /\ stored_sequence' \in {stored_sequence, None}
      /\ UNCHANGED <<session_states, requests, replies, calling, listening, spent, boxes,
                     forwarded, pairing, sealing, fetches>>
  BY DEF Logout, Wipe, piVars
<1>3. PiInv' /\ PiCounts'
  BY <1>1, <1>2, ClientKeepsPiInv
<1>4. TypeOK'
  BY <1>1, <1>2, <1>3 DEF BrowserInv, TypeOK, PiInv
<1>5. /\ \A x \in Link, y \in Sid : Begun(x, y) => Begun(x, y)'
      /\ \A m \in Msg, y \in Sid : Asked(m, y) => Asked(m, y)'
  BY <1>2 DEF Begun, Asked
<1>6. ExchangesMatch' /\ CallsMatch' /\ ForwardedSealed'
  BY <1>2, <1>5, ExchangesStay, CallsStay, ForwardedStay
<1>7. StorageMatches' /\ SealedOnce'
  BY <1>2 DEF BrowserInv, StorageMatches, SealedOnce
<1>. QED
  BY <1>3, <1>4, <1>6, <1>7 DEF BrowserInv

-----------------------------------------------------------------------------
(* The steps of customFetch, and the page that is loaded again. *)

Ended(pc) == [NoFetch EXCEPT !.pc = pc]

LEMMA EndedTyped ==
  \A pc \in {"done", "unopened"} : Ended(pc) \in Fetch /\ Ended(pc).pc = pc
  BY DEF Ended, NoFetch, Fetch

\* A step that changes calls and what is being sealed, and adds no box.
LEMMA FetchKeepsInv ==
  ASSUME BrowserInv,
         UNCHANGED <<session_states, replies, calling, listening, spent, boxes, forwarded>>,
         UNCHANGED storage,
         requests' \subseteq Request,
         \A q \in requests' \ requests :
           q.kind = "forward" /\ Asked(q.msg, q.sid)' /\ q.box = None,
         \A l \in Link, s \in Sid : Begun(l, s) => Begun(l, s)',
         \A m \in Msg, s \in Sid : Asked(m, s) => Asked(m, s)',
         SealedOnce',
         pairing' \in [Link -> Pairing], tab_session' \in [Tab -> Sid \cup {None}],
         sealing' \subseteq Sealing, fetches' \in [Msg -> Fetch]
  PROVE  BrowserInv'
<1>. USE DEF storage
<1>1. PiInv /\ PiCounts /\ TypeOK /\ boxes \subseteq Box
  BY DEF BrowserInv, PiInv, PiTypeOK
<1>2. PiInv' /\ PiCounts'
  BY <1>1, ClientKeepsPiInv
<1>3. TypeOK'
  BY <1>1, <1>2 DEF TypeOK, PiInv
<1>4. ExchangesMatch' /\ CallsMatch' /\ ForwardedSealed'
  BY ExchangesStay, CallsStay, ForwardedStay
<1>5. StorageMatches'
  BY DEF BrowserInv, StorageMatches
<1>. QED
  BY <1>2, <1>3, <1>4, <1>5 DEF BrowserInv

LEMMA SealingFetch ==
  ASSUME BrowserInv, NEW p \in sealing
  PROVE  /\ p \in Sealing /\ p.msg \in Msg
         /\ fetches[p.msg].pc = "sealing" /\ fetches[p.msg].tab = p.tab
         /\ fetches[p.msg].sid = p.sid
<1>1. p \in Sealing
  BY DEF BrowserInv, TypeOK
<1>2. p.msg \in Msg
  BY <1>1 DEF Sealing
<1>3. fetches[p.msg] = [pc |-> "sealing", tab |-> p.tab, sid |-> p.sid]
  BY DEF BrowserInv, SealedOnce
<1>. QED
  BY <1>1, <1>2, <1>3

LEMMA BeginSealKeepsInv ==
  ASSUME BrowserInv, NEW b \in Tab, NEW m \in Msg, BeginSeal(b, m)
  PROVE  BrowserInv'
<1>. DEFINE s == tab_session[b]
            n == NextSequence
            new == [pc |-> "sealing", tab |-> b, sid |-> s]
            part == [tab |-> b, msg |-> m, sid |-> s, key |-> stored_key, seq |-> n]
<1>1. /\ pairing \in [Link -> Pairing] /\ requests \subseteq Request
      /\ tab_session \in [Tab -> Sid \cup {None}] /\ fetches \in [Msg -> Fetch]
      /\ sealing \subseteq Sealing /\ boxes \subseteq Box
      /\ stored_key \in Key \cup {None} /\ stored_sequence \in Nat \cup {None}
  BY DEF BrowserInv, TypeOK, PiTypeOK
<1>2. /\ fetches[m].pc = "none"
      /\ n <= OutboundBase
      /\ fetches' = [fetches EXCEPT ![m] = new]
      /\ sealing' = sealing \cup {part}
      /\ UNCHANGED <<session_states, requests, replies, calling, listening, spent, boxes,
                     forwarded, pairing, tab_session, storage>>
  BY DEF BeginSeal, piVars
<1>3. s \in Sid /\ n \in Nat /\ stored_key \in Key
  BY <1>1 DEF BeginSeal, NextSequence
<1>. HIDE DEF s, n
<1>4. new \in Fetch /\ part \in Sealing
  BY <1>3 DEF Fetch, Sealing
<1>5. /\ fetches'[m] = new /\ \A x \in Msg \ {m} : fetches'[x] = fetches[x]
      /\ fetches' \in [Msg -> Fetch]
  BY <1>1, <1>2, <1>4
<1>6. \A x \in Msg, y \in Sid : Asked(x, y) => Asked(x, y)'
  BY <1>2, <1>5 DEF Asked
<1>7. \A p \in sealing : p.msg \in Msg /\ p.msg # m
  BY <1>2, SealingFetch
<1>8. /\ part.msg = m /\ part.seq = n
      /\ fetches'[m] = [pc |-> "sealing", tab |-> part.tab, sid |-> part.sid]
  BY <1>5
<1>. HIDE DEF new, part
<1>9. SealedOnce'
  <2>1. \A p \in sealing' :
          /\ p.seq <= OutboundBase
          /\ fetches'[p.msg] = [pc |-> "sealing", tab |-> p.tab, sid |-> p.sid]
    BY <1>2, <1>5, <1>7, <1>8 DEF BrowserInv, SealedOnce
  <2>2. \A p1, p2 \in sealing' : p1.msg = p2.msg => p1 = p2
    BY <1>2, <1>7, <1>8 DEF BrowserInv, SealedOnce
  <2>3. \A x \in boxes : x.body \in Msg =>
          x.seq <= OutboundBase /\ fetches'[x.body].pc \notin {"none", "sealing"}
    BY <1>2, <1>5 DEF BrowserInv, SealedOnce
  <2>. QED
    BY <1>2, <2>1, <2>2, <2>3 DEF BrowserInv, SealedOnce
<1>10. \A x \in Link, y \in Sid : Begun(x, y) => Begun(x, y)'
  BY <1>2 DEF Begun
<1>11. sealing' \subseteq Sealing
  BY <1>1, <1>2, <1>4
<1>. QED
  BY <1>1, <1>2, <1>5, <1>6, <1>9, <1>10, <1>11, FetchKeepsInv

LEMMA SendBareKeepsInv ==
  ASSUME BrowserInv, NEW b \in Tab, NEW m \in Msg, SendBare(b, m)
  PROVE  BrowserInv'
<1>3. PICK s \in Sid : s = tab_session[b]
  BY DEF SendBare, BrowserInv, TypeOK
<1>. DEFINE new == [pc |-> "sent", tab |-> b, sid |-> s]
            q == [kind |-> "forward", msg |-> m, sid |-> s, box |-> None]
<1>1. /\ pairing \in [Link -> Pairing] /\ requests \subseteq Request
      /\ tab_session \in [Tab -> Sid \cup {None}] /\ fetches \in [Msg -> Fetch]
      /\ sealing \subseteq Sealing /\ boxes \subseteq Box
  BY DEF BrowserInv, TypeOK, PiTypeOK
<1>2. /\ fetches[m].pc = "none"
      /\ fetches' = [fetches EXCEPT ![m] = new]
      /\ requests' = requests \cup {q}
      /\ UNCHANGED <<session_states, replies, calling, listening, spent, boxes, forwarded,
                     pairing, tab_session, storage, sealing>>
  BY <1>3 DEF SendBare, Post, UnchangedPi
<1>4. /\ new \in Fetch /\ new.pc = "sent" /\ new.sid = s
      /\ q \in Request /\ q.kind = "forward" /\ q.msg = m /\ q.sid = s /\ q.box = None
  BY <1>3 DEF Fetch, Request
<1>. HIDE DEF new, q
<1>5. /\ fetches'[m] = new /\ \A x \in Msg \ {m} : fetches'[x] = fetches[x]
      /\ fetches' \in [Msg -> Fetch]
  BY <1>1, <1>2, <1>4
<1>6. \A x \in Msg, y \in Sid : Asked(x, y) => Asked(x, y)'
  BY <1>2, <1>5 DEF Asked
<1>7. Asked(m, s)'
  BY <1>4, <1>5 DEF Asked
<1>8. SealedOnce'
  <2>1. \A p \in sealing : p.msg \in Msg /\ p.msg # m
    BY <1>2, SealingFetch
  <2>2. \A x \in boxes : x.body \in Msg =>
          x.seq <= OutboundBase /\ fetches'[x.body].pc \notin {"none", "sealing"}
    BY <1>2, <1>5 DEF BrowserInv, SealedOnce
  <2>3. \A p \in sealing' :
          /\ p.seq <= OutboundBase
          /\ fetches'[p.msg] = [pc |-> "sealing", tab |-> p.tab, sid |-> p.sid]
    BY <1>2, <1>5, <2>1 DEF BrowserInv, SealedOnce
  <2>. QED
    BY <1>2, <2>2, <2>3 DEF BrowserInv, SealedOnce
<1>9. requests' \subseteq Request /\ \A x \in Link, y \in Sid : Begun(x, y) => Begun(x, y)'
  BY <1>1, <1>2, <1>4 DEF Begun
<1>10. \A x \in requests' \ requests :
         x.kind = "forward" /\ Asked(x.msg, x.sid)' /\ x.box = None
  BY <1>2, <1>4, <1>7
<1>. QED
  BY <1>1, <1>2, <1>5, <1>6, <1>8, <1>9, <1>10, FetchKeepsInv

\* A call that was posted ends.
LEMMA EndsKeepsInv ==
  ASSUME BrowserInv, NEW m \in Msg, NEW pc \in {"done", "unopened"},
         fetches[m].pc = "sent",
         fetches' = [fetches EXCEPT ![m] = Ended(pc)],
         UNCHANGED <<piVars, pairing, tab_session, storage, sealing>>
  PROVE  BrowserInv'
<1>1. /\ pairing \in [Link -> Pairing] /\ requests \subseteq Request
      /\ tab_session \in [Tab -> Sid \cup {None}] /\ fetches \in [Msg -> Fetch]
      /\ sealing \subseteq Sealing
  BY DEF BrowserInv, TypeOK, PiTypeOK
<1>2. /\ fetches'[m].pc = pc /\ \A x \in Msg \ {m} : fetches'[x] = fetches[x]
      /\ fetches' \in [Msg -> Fetch]
  BY <1>1, EndedTyped
<1>3. /\ \A x \in Link, y \in Sid : Begun(x, y) => Begun(x, y)'
      /\ \A x \in Msg, y \in Sid : Asked(x, y) => Asked(x, y)'
  BY <1>2 DEF Begun, Asked
<1>4. SealedOnce'
  <2>1. \A p \in sealing : p.msg \in Msg /\ p.msg # m
    BY SealingFetch
  <2>2. \A p \in sealing' :
          /\ p.seq <= OutboundBase
          /\ fetches'[p.msg] = [pc |-> "sealing", tab |-> p.tab, sid |-> p.sid]
    BY <1>2, <2>1 DEF BrowserInv, SealedOnce
  <2>3. \A x \in boxes' : x.body \in Msg =>
          x.seq <= OutboundBase /\ fetches'[x.body].pc \notin {"none", "sealing"}
    BY <1>2 DEF BrowserInv, SealedOnce, piVars
  <2>. QED
    BY <2>2, <2>3 DEF BrowserInv, SealedOnce, piVars
<1>. QED
  BY <1>1, <1>2, <1>3, <1>4, FetchKeepsInv DEF piVars

LEMMA AnswerKeepsInv ==
  ASSUME BrowserInv, NEW m \in Msg,
         FetchFails(m) \/ \E r \in replies : ReadAnswer(m, r)
  PROVE  BrowserInv'
<1>1. CASE FetchFails(m)
  <2>1. fetches' = [fetches EXCEPT ![m] = Ended("done")]
    BY <1>1 DEF FetchFails, Ended
  <2>. QED
    BY <1>1, <2>1, EndsKeepsInv DEF FetchFails
<1>2. ASSUME NEW r \in replies, ReadAnswer(m, r) PROVE BrowserInv'
  <2>1. \/ fetches' = [fetches EXCEPT ![m] = Ended("done")]
        \/ fetches' = [fetches EXCEPT ![m] = Ended("unopened")]
    BY <1>2 DEF ReadAnswer, Ended
  <2>. QED
    BY <1>2, <2>1, EndsKeepsInv DEF ReadAnswer
<1>. QED
  BY <1>1, <1>2

LEMMA EndSealKeepsInv ==
  ASSUME BrowserInv, NEW p \in sealing, EndSeal(p)
  PROVE  BrowserInv'
<1>. DEFINE m == p.msg
            new == [fetches[m] EXCEPT !.pc = "sent"]
            box == encryptMessage(p.seq, p.key, p.msg, p.sid)
            q == [kind |-> "forward", msg |-> m, sid |-> p.sid, box |-> box]
<1>1. /\ pairing \in [Link -> Pairing] /\ requests \subseteq Request
      /\ tab_session \in [Tab -> Sid \cup {None}] /\ fetches \in [Msg -> Fetch]
      /\ sealing \subseteq Sealing /\ boxes \subseteq Box /\ PiInv /\ PiCounts
  BY DEF BrowserInv, TypeOK, PiTypeOK
<1>2. /\ sealing' = sealing \ {p}
      /\ fetches' = [fetches EXCEPT ![m] = new]
      /\ stored_sequence' = p.seq + 1
      /\ boxes' = boxes \cup {box}
      /\ requests' = requests \cup {q}
      /\ UNCHANGED <<session_states, replies, calling, listening, spent, forwarded,
                     pairing, tab_session, stored_session, stored_key>>
  BY DEF EndSeal, Post
<1>3. /\ p \in Sealing /\ m \in Msg /\ p.sid \in Sid /\ p.key \in Key /\ p.seq \in Nat
      /\ fetches[m].pc = "sealing" /\ fetches[m].sid = p.sid
  BY SealingFetch DEF Sealing
<1>4. new \in Fetch /\ new.pc = "sent" /\ new.sid = p.sid
  <2>1. fetches[m] \in Fetch
    BY <1>1, <1>3
  <2>. QED
    BY <1>3, <2>1 DEF Fetch
<1>5. /\ box \in Box /\ box.body = m /\ box.sid = p.sid /\ box.seq = p.seq
      /\ q.kind = "forward" /\ q.msg = m /\ q.sid = p.sid /\ q.box = box
  BY <1>3 DEF Box, encryptMessage
<1>6. q \in Request
  BY <1>3, <1>5 DEF Request
<1>7. p.seq <= OutboundBase
  BY DEF BrowserInv, SealedOnce
<1>8. \A x \in boxes : x.body \in Msg => x.body # m
  BY <1>3 DEF BrowserInv, SealedOnce
<1>9. \A x \in sealing \ {p} : x.msg \in Msg /\ x.msg # m
  <2>1. \A x \in sealing : x.msg \in Msg
    BY SealingFetch
  <2>. QED
    BY <2>1 DEF BrowserInv, SealedOnce
<1>. HIDE DEF new, box, q, m
<1>10. /\ fetches'[m] = new /\ \A x \in Msg \ {m} : fetches'[x] = fetches[x]
       /\ fetches' \in [Msg -> Fetch]
  BY <1>1, <1>2, <1>3, <1>4
<1>11. requests' \subseteq Request /\ boxes' \subseteq Box
  BY <1>1, <1>2, <1>5, <1>6
<1>12. PiInv' /\ PiCounts'
  <2>1. \A x \in boxes' \ boxes : x.body \in Msg
    BY <1>2, <1>3, <1>5
  <2>. QED
    BY <1>1, <1>2, <1>11, <2>1, ClientKeepsPiInv
<1>13. TypeOK'
  BY <1>1, <1>2, <1>3, <1>10, <1>12 DEF BrowserInv, TypeOK, PiInv
<1>14. \A x \in Msg, y \in Sid : Asked(x, y) => Asked(x, y)'
  BY <1>3, <1>10 DEF Asked
<1>15. CallsMatch'
  <2>1. fetches'[m].pc \notin {"none", "sealing"} /\ fetches'[m].sid = p.sid
    BY <1>4, <1>10
  <2>2. ASSUME NEW x \in requests' \ requests, x.kind = "forward"
        PROVE  /\ Asked(x.msg, x.sid)'
               /\ x.box # None => x.box \in boxes' /\ x.box.body \in Msg
    BY <1>2, <1>3, <1>5, <2>1 DEF Asked
  <2>. QED
    BY <1>2, <1>14, <2>2, CallsStay
<1>16. ExchangesMatch' /\ ForwardedSealed'
  <2>1. \A x \in Link, y \in Sid : Begun(x, y) => Begun(x, y)'
    BY <1>2 DEF Begun
  <2>2. \A x \in requests' \ requests : x.kind # "exchange"
    BY <1>2, <1>5
  <2>. QED
    BY <1>2, <2>1, <2>2, ExchangesStay, ForwardedStay
<1>17. StorageMatches'
  BY <1>2 DEF BrowserInv, StorageMatches
<1>18. SealedOnce'
  <2>1. \A x \in sealing' :
          /\ x.seq <= OutboundBase
          /\ fetches'[x.msg] = [pc |-> "sealing", tab |-> x.tab, sid |-> x.sid]
    BY <1>2, <1>9, <1>10 DEF BrowserInv, SealedOnce
  <2>2. \A x \in boxes' : x.body \in Msg =>
          x.seq <= OutboundBase /\ fetches'[x.body].pc \notin {"none", "sealing"}
    <3>1. ASSUME NEW x \in boxes, x.body \in Msg
          PROVE  x.seq <= OutboundBase /\ fetches'[x.body].pc \notin {"none", "sealing"}
      BY <1>8, <1>10, <3>1 DEF BrowserInv, SealedOnce
    <3>2. box.seq <= OutboundBase /\ fetches'[box.body].pc \notin {"none", "sealing"}
      BY <1>4, <1>5, <1>7, <1>10
    <3>. QED
      BY <1>2, <3>1, <3>2
  <2>3. \A b1, b2 \in boxes' : b1.body \in Msg /\ b1.body = b2.body => b1 = b2
    BY <1>2, <1>5, <1>8 DEF BrowserInv, SealedOnce
  <2>4. \A p1, p2 \in sealing' : p1.msg = p2.msg => p1 = p2
    BY <1>2 DEF BrowserInv, SealedOnce
  <2>. QED
    BY <2>1, <2>2, <2>3, <2>4 DEF SealedOnce
<1>. QED
  BY <1>12, <1>13, <1>15, <1>16, <1>17, <1>18 DEF BrowserInv

LEMMA LoadKeepsInv ==
  ASSUME BrowserInv, NEW b \in Tab, Load(b)
  PROVE  BrowserInv'
<1>1. /\ pairing \in [Link -> Pairing] /\ requests \subseteq Request
      /\ tab_session \in [Tab -> Sid \cup {None}] /\ fetches \in [Msg -> Fetch]
      /\ stored_session \in Sid \cup {None} /\ sealing \subseteq Sealing
  BY DEF BrowserInv, TypeOK, PiTypeOK
<1>2. /\ tab_session' = [tab_session EXCEPT ![b] = stored_session]
      /\ sealing' = {p \in sealing : p.tab # b}
      /\ \A l \in Link : pairing'[l] = IF Running(l) /\ pairing[l].tab = b THEN Over
                                       ELSE pairing[l]
      /\ \A m \in Msg : fetches'[m] = IF fetches[m].tab = b THEN Ended("done") ELSE fetches[m]
      /\ UNCHANGED <<session_states, requests, replies, calling, listening, spent, boxes,
                     forwarded, storage>>
  BY DEF Load, piVars, Ended
<1>3. pairing' \in [Link -> Pairing] /\ fetches' \in [Msg -> Fetch]
  <2>1. /\ pairing' = [l \in Link |-> IF Running(l) /\ pairing[l].tab = b THEN Over
                                       ELSE pairing[l]]
        /\ fetches' = [m \in Msg |-> IF fetches[m].tab = b THEN Ended("done") ELSE fetches[m]]
    BY DEF Load, Ended
  <2>. QED
    BY <1>1, <2>1, OverIsPairing, EndedTyped
<1>4. tab_session' \in [Tab -> Sid \cup {None}] /\ sealing' \subseteq Sealing
  BY <1>1, <1>2
<1>5. \A x \in Link, y \in Sid : Begun(x, y) => Begun(x, y)'
  BY <1>2, OverIsPairing DEF Begun
<1>6. \A x \in Msg, y \in Sid : Asked(x, y) => Asked(x, y)'
  BY <1>2, EndedTyped DEF Asked
<1>7. SealedOnce'
  <2>1. \A p \in sealing' : p \in sealing /\ p.msg \in Msg /\ fetches'[p.msg] = fetches[p.msg]
    BY <1>2, SealingFetch
  <2>2. \A x \in boxes : x.body \in Msg =>
          x.seq <= OutboundBase /\ fetches'[x.body].pc \notin {"none", "sealing"}
    BY <1>2, EndedTyped DEF BrowserInv, SealedOnce
  <2>. QED
    BY <1>2, <2>1, <2>2 DEF BrowserInv, SealedOnce
<1>. QED
  BY <1>1, <1>2, <1>3, <1>4, <1>5, <1>6, <1>7, FetchKeepsInv

-----------------------------------------------------------------------------
LEMMA StepKeepsInv == BrowserInv /\ [Next]_vars => BrowserInv'
<1>. SUFFICES ASSUME BrowserInv, [Next]_vars PROVE BrowserInv'
  OBVIOUS
<1>1. CASE PiNext /\ UNCHANGED browserVars
  BY <1>1, PiKeepsBrowserInv
<1>2. CASE BrowserNext
  BY <1>2, SubmitKeepsInv, AssociatedKeepsInv, ExchangedKeepsInv, PairingFailsKeepsInv,
     OpenLiveKeepsInv, ForgetKeepsInv, BeginSealKeepsInv, EndSealKeepsInv, SendBareKeepsInv,
     AnswerKeepsInv, LoadKeepsInv DEF BrowserNext
<1>3. CASE UNCHANGED vars
  BY <1>3 DEF vars, piVars, browserVars, storage, BrowserInv, TypeOK, PiInv, PiTypeOK,
     KeysSpent, KeysDistinct, SealersKeyed, PiBoxesNumbered, PiBoxesDistinct,
     CountersAboveBase, PiCounts, ExchangesMatch, StorageMatches, SealedOnce, CallsMatch,
     ForwardedSealed, Begun, Asked
<1>. QED
  BY <1>1, <1>2, <1>3 DEF Next

THEOREM BrowserInvariant == Spec => []BrowserInv
<1>. QED
  BY BrowserInitInv, StepKeepsInv, PTL DEF Spec

\* Every variable of the browser and the Pi keeps its type.
THEOREM TypeCorrect == Spec => []TypeOK
<1>1. BrowserInv => TypeOK
  BY DEF BrowserInv
<1>. QED
  BY <1>1, BrowserInvariant, PTL

\* No box of the Pi shares a nonce with another box under its key: the browser
\* numbers its boxes up to the base and the Pi numbers its own above it.
THEOREM PiBoxesSeparate == Spec => []DirectionsSeparate
<1>1. ASSUME BrowserInv, NEW b1 \in boxes, NEW b2 \in boxes, b1.body \in Task,
             b1.key = b2.key, NonceOf(b1) = NonceOf(b2)
      PROVE  b1 = b2
  <2>1. b1.seq = b2.seq
    BY <1>1, NonceInjective DEF NonceOf
  <2>2. b1 \in Box /\ b2 \in Box
    BY <1>1 DEF BrowserInv, TypeOK, PiTypeOK
  <2>3. OutboundBase < b1.seq /\ b1.seq \in Nat
    BY <1>1, <2>2 DEF BrowserInv, PiInv, PiBoxesNumbered, Box
  <2>4. b2.body \notin Msg
    BY <1>1, <2>1, <2>3 DEF BrowserInv, SealedOnce
  <2>5. b2.body \in Task
    BY <2>2, <2>4 DEF Box
  <2>. QED
    BY <1>1, <2>1, <2>5 DEF BrowserInv, PiInv, PiBoxesDistinct
<1>2. BrowserInv => DirectionsSeparate
  BY <1>1 DEF DirectionsSeparate
<1>. QED
  BY <1>2, BrowserInvariant, PTL

\* What opens at the Pi was sealed as that number of its session, and opens
\* once, though tabs mix sessions and requests are repeated.
THEOREM BodiesOpenInSequence == Spec => []OpensInSequence
<1>1. ASSUME BrowserInv, NEW s \in Sid, NEW i \in 1..Len(forwarded[s]),
             forwarded[s][i] # None
      PROVE  /\ \E box \in boxes :
                  /\ box.body = forwarded[s][i]
                  /\ box.sid = s /\ box.seq = i /\ box.key = session_states[s].key
             /\ \A j \in 1..Len(forwarded[s]) : forwarded[s][j] = forwarded[s][i] => j = i
  <2>1. PICK box \in boxes :
          /\ box.body \in Msg /\ box.body = forwarded[s][i]
          /\ box.sid = s /\ box.seq = i /\ box.key = session_states[s].key
    BY <1>1 DEF BrowserInv, ForwardedSealed
  <2>2. ASSUME NEW j \in 1..Len(forwarded[s]), forwarded[s][j] = forwarded[s][i]
        PROVE  j = i
    <3>1. PICK other \in boxes :
            other.body \in Msg /\ other.body = forwarded[s][j] /\ other.seq = j
      BY <1>1, <2>2 DEF BrowserInv, ForwardedSealed
    <3>2. other = box
      BY <1>1, <2>1, <2>2, <3>1 DEF BrowserInv, SealedOnce
    <3>. QED
      BY <2>1, <3>1, <3>2
  <2>. QED
    BY <2>1, <2>2
<1>2. BrowserInv => OpensInSequence
  BY <1>1 DEF OpensInSequence
<1>. QED
  BY <1>2, BrowserInvariant, PTL

\* The keys beside the stored session are the keys the Pi has for it.
THEOREM StoredKeysAgree == Spec => []StoredKeysMatch
<1>1. BrowserInv => StoredKeysMatch
  BY DEF BrowserInv, StorageMatches, StoredKeysMatch
<1>. QED
  BY <1>1, BrowserInvariant, PTL

-----------------------------------------------------------------------------
(* What a step may never do. *)

SessionsKeepKeys ==
  \A s \in Sid : session_states[s].key # None =>
    session_states'[s].key = session_states[s].key

\* The keys of a session are never changed, by whatever request.
THEOREM SessionKeysStay == Spec => KeysStay
<1>1. BrowserInv /\ [Next]_vars => [SessionsKeepKeys]_vars
  <2>. SUFFICES ASSUME BrowserInv, Next PROVE SessionsKeepKeys
    OBVIOUS
  <2>1. CASE PiNext
    BY <2>1, PiStepEffects DEF BrowserInv, SessionsKeepKeys
  <2>2. CASE BrowserNext
    BY <2>2 DEF BrowserNext, Submit, BeginSeal, SendBare, OpenLive, Logout, Wipe, Load,
       PairingFails, Associated, Exchanged, EndSeal, FetchFails, ReadAnswer, UnchangedPi,
       piVars, SessionsKeepKeys
  <2>. QED
    BY <2>1, <2>2 DEF Next
<1>2. Spec => [][SessionsKeepKeys]_vars
  BY <1>1, BrowserInvariant, PTL DEF Spec
<1>. QED
  BY <1>2 DEF KeysStay, SessionsKeepKeys

\* An answer is about the session its call was made in and sealed under that
\* session's key, so the keys of that session open it.
LEMMA KeptKeysOpen ==
  ASSUME BrowserInv, NEW m \in Msg, NEW r \in replies,
         r.kind = "answer", r.msg = m, fetches[m].pc = "sent",
         stored_key = session_states[fetches[m].sid].key
  PROVE  OpensAnswer(m, r.box)
<1>1. r.box.sid = fetches[m].sid /\ session_states[r.box.sid].key = r.box.key
  BY DEF BrowserInv, CallsMatch, Asked
<1>2. r.box.key \in Key /\ r.box.key # None
  BY DEF BrowserInv, TypeOK, PiTypeOK, Reply, Box
<1>3. stored_key = r.box.key
  BY <1>1
<1>4. decryptMessage(deriveSessionKeys(stored_key), r.box, <<fetches[m].sid, r.box.seq>>)
  BY <1>1, <1>3 DEF decryptMessage, deriveSessionKeys, hkdfExpand, xorNonce, NonceOf,
     xor_nonce, nonce_base
<1>. QED
  BY <1>2, <1>3, <1>4 DEF OpensAnswer

KeptAnswersOpen ==
  \A m \in Msg :
    fetches[m].pc = "sent" /\ fetches'[m].pc = "unopened" =>
      stored_key # session_states[fetches[m].sid].key

LEMMA AnswerStep == BrowserInv /\ [Next]_vars => [KeptAnswersOpen]_vars
<1>. SUFFICES ASSUME BrowserInv, Next, NEW m \in Msg,
                     fetches[m].pc = "sent", fetches'[m].pc = "unopened",
                     stored_key = session_states[fetches[m].sid].key
              PROVE  FALSE
  BY DEF KeptAnswersOpen
<1>1. fetches \in [Msg -> Fetch]
  BY DEF BrowserInv, TypeOK
<1>2. CASE UNCHANGED fetches
  BY <1>2
<1>3. ASSUME NEW b \in Tab, NEW x \in Msg, BeginSeal(b, x) \/ SendBare(b, x) PROVE FALSE
  <2>1. \E new : fetches' = [fetches EXCEPT ![x] = new] /\ new.pc # "unopened"
    BY <1>3 DEF BeginSeal, SendBare
  <2>. QED
    BY <1>1, <2>1
<1>4. ASSUME NEW p \in sealing, EndSeal(p) PROVE FALSE
  <2>. DEFINE new == [fetches[p.msg] EXCEPT !.pc = "sent"]
  <2>1. fetches' = [fetches EXCEPT ![p.msg] = new] /\ fetches[p.msg].pc = "sealing"
    BY <1>4, SealingFetch DEF EndSeal
  <2>. HIDE DEF new
  <2>. QED
    BY <1>1, <2>1
<1>5. ASSUME NEW b \in Tab, Load(b) PROVE FALSE
  <2>1. fetches'[m] = IF fetches[m].tab = b THEN Ended("done") ELSE fetches[m]
    BY <1>5 DEF Load, Ended
  <2>. QED
    BY <2>1, EndedTyped
<1>6. ASSUME NEW x \in Msg, FetchFails(x) PROVE FALSE
  <2>1. fetches' = [fetches EXCEPT ![x] = Ended("done")]
    BY <1>6 DEF FetchFails, Ended
  <2>. QED
    BY <1>1, <2>1, EndedTyped
<1>7. ASSUME NEW x \in Msg, NEW r \in replies, ReadAnswer(x, r) PROVE FALSE
  <2>1. /\ r.kind = "answer" /\ r.msg = x /\ fetches[x].pc = "sent"
        /\ fetches' = [fetches EXCEPT ![x] =
             IF OpensAnswer(x, r.box) THEN Ended("done") ELSE Ended("unopened")]
    BY <1>7 DEF ReadAnswer, Ended
  <2>2. x = m
    BY <1>1, <2>1
  <2>3. OpensAnswer(x, r.box)
    BY <2>1, <2>2, KeptKeysOpen
  <2>. QED
    BY <1>1, <2>1, <2>2, <2>3, EndedTyped
<1>. QED
  BY <1>2, <1>3, <1>4, <1>5, <1>6, <1>7
     DEF Next, BrowserNext, browserVars, Submit, OpenLive, Logout, Wipe, PairingFails,
     Associated, Exchanged

\* The answer to a call opens as long as the browser holds the keys of the
\* session the call was made in.
THEOREM AnswersDoOpen == Spec => AnswersOpen
<1>1. Spec => [][KeptAnswersOpen]_vars
  BY AnswerStep, BrowserInvariant, PTL DEF Spec
<1>. QED
  BY <1>1 DEF AnswersOpen, KeptAnswersOpen

=============================================================================
