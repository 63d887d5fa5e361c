------------------------- MODULE AdapterChannelProofs -------------------------
(***************************************************************************)
(* The adapter's sealed channel for any number of sessions, clients, lines *)
(* and invocations: types, nonces, agreement on keys, and that it          *)
(* implements OrderedDelivery.                                             *)
(***************************************************************************)
EXTENDS AdapterChannel, PiSessionProofs

USE BaseAssumption, PlaintextAssumption, NoneAssumption

-----------------------------------------------------------------------------
(* The inductive invariant. *)

\* Only a client that finished its exchange has a key or a counter; its key
\* names it and is the one the Pi has for its session.
LinksKeyed ==
  \A l \in Link :
    /\ link[l].pc \in {"idle", "associating"} => link[l].sid = None
    /\ link[l].pc = "exchanging" => link[l].sid # None
    /\ link[l].pc # "ready" => link[l].key = None
    /\ link[l].key = None => link[l].sequence = 0
    /\ link[l].key # None =>
         /\ link[l].sid # None
         /\ link[l].key.client = l
         /\ session_states[link[l].sid].key = link[l].key
    /\ link[l].sequence <= OutboundBase

\* connect installs a client only when it has its key.
ClientKeyed == client # None => link[client].key # None

\* Exchanges are about the session their client was given.
ExchangesMatch ==
  /\ \A q \in requests : q.kind = "exchange" => link[q.link].sid = q.sid
  /\ \A r \in replies : r.kind = "exchanged" =>
       /\ link[r.link].sid = r.sid
       /\ session_states[r.sid].key = [client |-> r.link, server |-> r.server]

\* A sealed line is where its client and number say in its session's history.
LinesNumbered ==
  \A b \in boxes : b.body \in Msg =>
    /\ link[b.key.client].key = b.key
    /\ link[b.key.client].sid = b.sid
    /\ 1 <= b.seq /\ b.seq <= link[b.key.client].sequence
    /\ sealed[b.sid][b.seq] = b.body

\* The client's counter counts its session's lines, and nobody else seals there.
LinesCounted ==
  /\ \A l \in Link : link[l].key # None => Len(sealed[link[l].sid]) = link[l].sequence
  /\ \A s \in Sid : sealed[s] # <<>> =>
       \E l \in Link : link[l].key # None /\ link[l].sid = s

\* A forwarded request carries a line sealed for the session it names.
LinesPosted ==
  \A q \in requests : q.kind = "forward" =>
    q.box \in boxes /\ q.box.body \in Msg /\ q.box.sid = q.sid

\* What was handed over is a prefix of what was sealed.
Delivered ==
  \A s \in Sid :
    /\ Len(forwarded[s]) <= Len(sealed[s])
    /\ \A i \in 1..Len(forwarded[s]) : forwarded[s][i] = sealed[s][i]

AdapterInv ==
  /\ TypeOK
  /\ PiInv
  /\ PiCounts
  /\ LinksKeyed
  /\ ClientKeyed
  /\ ExchangesMatch
  /\ LinesNumbered
  /\ LinesCounted
  /\ LinesPosted
  /\ Delivered

-----------------------------------------------------------------------------
LEMMA AdapterInitInv == Init => AdapterInv
<1>. SUFFICES ASSUME Init PROVE AdapterInv
  OBVIOUS
<1>1. PiInit
  BY DEF Init
<1>2. PiInv /\ PiCounts
  BY <1>1, PiInitInv, PiInitCounts
<1>3. TypeOK
  <2>1. link \in [Link -> LinkState]
    BY DEF Init, LinkState
  <2>2. sealed \in [Sid -> Seq(Msg)]
    BY DEF Init
  <2>. QED
    BY <1>2, <2>1, <2>2 DEF Init, TypeOK, PiInv
<1>4. \A l \in Link :
        /\ link[l].pc = "idle" /\ link[l].sid = None
        /\ link[l].key = None /\ link[l].sequence = 0
  BY DEF Init
<1>5. LinksKeyed
  BY <1>4 DEF LinksKeyed
<1>6. ClientKeyed /\ ExchangesMatch /\ LinesNumbered /\ LinesPosted
  BY <1>1 DEF Init, PiInit, ClientKeyed, ExchangesMatch, LinesNumbered, LinesPosted
<1>7. LinesCounted
  BY <1>4 DEF Init, LinesCounted
<1>8. Delivered
  <2>1. \A s \in Sid : forwarded[s] = <<>> /\ sealed[s] = <<>>
    BY <1>1 DEF Init, PiInit
  <2>2. ASSUME NEW s \in Sid
        PROVE  /\ Len(forwarded[s]) <= Len(sealed[s])
               /\ \A i \in 1..Len(forwarded[s]) : forwarded[s][i] = sealed[s][i]
    <3>1. forwarded[s] = <<>> /\ sealed[s] = <<>>
      BY <2>1
    <3>2. Len(forwarded[s]) = 0 /\ Len(sealed[s]) = 0
      BY <3>1
    <3>. QED
      BY <3>2
  <2>. QED
    BY <2>2 DEF Delivered
<1>. QED
  BY <1>2, <1>3, <1>5, <1>6, <1>7, <1>8 DEF AdapterInv

-----------------------------------------------------------------------------
(* A step of the Pi. *)

\* The next body the Pi hands over is the next line sealed in that session: a
\* forwarded request that passes the sequence check always opens.
LEMMA ForwardedIsSealed ==
  ASSUME AdapterInv, NEW q \in requests,
         q.kind = "forward", q.sid \in Sid, q.box \in Box,
         session_states[q.sid].key # None,
         q.box.seq = session_states[q.sid].sequence
  PROVE  /\ Len(forwarded[q.sid]) + 1 <= Len(sealed[q.sid])
         /\ OpenedBody(q) = sealed[q.sid][Len(forwarded[q.sid]) + 1]
<1>. DEFINE lk == link[q.box.key.client]
<1>1. q.box \in boxes /\ q.box.body \in Msg /\ q.box.sid = q.sid
  BY DEF AdapterInv, LinesPosted
<1>2. q.box.key \in Key /\ q.box.key.client \in Link /\ q.box.key # None
  BY DEF Box, Key
<1>3. /\ lk.key = q.box.key /\ lk.sid = q.sid
      /\ q.box.seq <= lk.sequence
      /\ sealed[q.sid][q.box.seq] = q.box.body
  BY <1>1 DEF AdapterInv, LinesNumbered
<1>4. session_states[q.sid].key = q.box.key
  BY <1>2, <1>3 DEF AdapterInv, LinksKeyed
<1>5. OpensHere(q)
  BY <1>1, <1>4, OpensOwn DEF OpensHere
<1>6. q.box.seq = Len(forwarded[q.sid]) + 1
  BY DEF AdapterInv, PiCounts
<1>7. Len(sealed[q.sid]) = lk.sequence
  BY <1>2, <1>3 DEF AdapterInv, LinesCounted
<1>. QED
  BY <1>3, <1>5, <1>6, <1>7 DEF OpenedBody

\* What a step of the Pi does to the histories of its sessions: nothing, or it
\* hands over the next line of one.
LEMMA PiStepDelivers ==
  ASSUME AdapterInv, PiNext
  PROVE  \/ UNCHANGED forwarded
         \/ \E s \in Sid :
              /\ Len(forwarded[s]) + 1 <= Len(sealed[s])
              /\ forwarded' = [forwarded EXCEPT ![s] =
                   Append(forwarded[s], sealed[s][Len(forwarded[s]) + 1])]
<1>1. PiInv
  BY DEF AdapterInv
<1>. QED
  BY <1>1, PiStepForwards, ForwardedIsSealed

LEMMA PiKeepsAdapterInv ==
  ASSUME AdapterInv, PiNext, UNCHANGED adapterVars
  PROVE  AdapterInv'
<1>. USE DEF adapterVars
<1>1. PiInv /\ PiCounts /\ TypeOK
  BY DEF AdapterInv
<1>2. PiInv' /\ PiCounts'
  BY <1>1, PiStepKeepsInv, PiStepKeepsCounts
<1>3. TypeOK'
  BY <1>1, <1>2 DEF TypeOK, PiInv
<1>4. /\ requests' \subseteq requests
      /\ \A s \in Sid : session_states[s].key # None =>
           session_states'[s].key = session_states[s].key
      /\ boxes \subseteq boxes'
      /\ \A b \in boxes' \ boxes : b.body \in Task
  BY <1>1, PiStepEffects
<1>5. LinksKeyed'
  <2>1. \A l \in Link : link[l].sid \in Sid \cup {None}
    BY <1>1 DEF TypeOK, LinkState
  <2>. QED
    BY <1>4, <2>1 DEF AdapterInv, LinksKeyed
<1>6. ClientKeyed' /\ LinesCounted'
  BY DEF AdapterInv, ClientKeyed, LinesCounted
<1>7. ExchangesMatch'
  <2>1. \A q \in requests' : q.kind = "exchange" => link'[q.link].sid = q.sid
    BY <1>4 DEF AdapterInv, ExchangesMatch
  <2>2. ASSUME NEW r \in replies, r.kind = "exchanged"
        PROVE  /\ link'[r.link].sid = r.sid
               /\ session_states'[r.sid].key = [client |-> r.link, server |-> r.server]
    <3>1. r.link \in Link /\ r.sid \in Sid /\ r.server \in Task
      BY <1>1, <2>2 DEF TypeOK, PiTypeOK, Reply
    <3>2. session_states[r.sid].key = [client |-> r.link, server |-> r.server]
      BY <2>2 DEF AdapterInv, ExchangesMatch
    <3>3. session_states[r.sid].key # None
      BY <3>1, <3>2 DEF Key
    <3>. QED
      BY <1>4, <2>2, <3>1, <3>2, <3>3 DEF AdapterInv, ExchangesMatch
  <2>. DEFINE Matches(r) ==
                /\ link'[r.link].sid = r.sid
                /\ session_states'[r.sid].key = [client |-> r.link, server |-> r.server]
  <2>3. ASSUME UNCHANGED replies
        PROVE  \A r \in replies' : r.kind = "exchanged" => Matches(r)
    BY <2>2, <2>3
  <2>4. ASSUME NEW x, replies' = replies \cup {x}, x.kind # "exchanged"
        PROVE  \A r \in replies' : r.kind = "exchanged" => Matches(r)
    BY <2>2, <2>4
  <2>5. ASSUME NEW l \in Link, NEW s \in Sid, NEW t \in Task,
               \E q \in requests : q.kind = "exchange" /\ q.link = l /\ q.sid = s,
               replies' = replies \cup
                 {[kind |-> "exchanged", link |-> l, sid |-> s, server |-> t]},
               session_states'[s].key = [client |-> l, server |-> t]
        PROVE  \A r \in replies' : r.kind = "exchanged" => Matches(r)
    <3>. DEFINE x == [kind |-> "exchanged", link |-> l, sid |-> s, server |-> t]
    <3>0. link'[l].sid = s
      BY <2>5 DEF AdapterInv, ExchangesMatch
    <3>1. Matches(x)
      BY <2>5, <3>0
    <3>. HIDE DEF x, Matches
    <3>2. \A r \in replies : r.kind = "exchanged" => Matches(r)
      BY <2>2 DEF Matches
    <3>3. replies' = replies \cup {x}
      BY <2>5 DEF x
    <3>. QED
      BY <3>1, <3>2, <3>3
  <2>6. \A r \in replies' : r.kind = "exchanged" => Matches(r)
    <3>. HIDE DEF Matches
    <3>. QED
      BY <1>1, <2>3, <2>4, <2>5, PiStepReplies
  <2>. QED
    BY <2>1, <2>6 DEF ExchangesMatch
<1>8. LinesNumbered'
  <2>1. \A b \in boxes' : b.body \in Msg => b \in boxes
    BY <1>4
  <2>. QED
    BY <2>1 DEF AdapterInv, LinesNumbered
<1>9. LinesPosted'
  BY <1>4 DEF AdapterInv, LinesPosted
<1>10. Delivered'
  <2>1. CASE UNCHANGED forwarded
    BY <2>1 DEF AdapterInv, Delivered
  <2>2. ASSUME NEW s \in Sid,
               Len(forwarded[s]) + 1 <= Len(sealed[s]),
               forwarded' = [forwarded EXCEPT ![s] =
                 Append(forwarded[s], sealed[s][Len(forwarded[s]) + 1])]
        PROVE  Delivered'
    <3>. DEFINE f == forwarded[s]
                e == sealed[s][Len(f) + 1]
    <3>1. forwarded \in [Sid -> Seq(Msg \cup Task \cup {None})] /\ sealed \in [Sid -> Seq(Msg)]
      BY <1>1 DEF TypeOK, PiTypeOK
    <3>2. f \in Seq(Msg \cup Task \cup {None}) /\ Len(f) \in Nat
      BY <3>1
    <3>3. e \in Msg
      BY <2>2, <3>1, <3>2
    <3>4. forwarded'[s] = Append(f, e)
      BY <2>2, <3>1
    <3>5. \A x \in Sid \ {s} : forwarded'[x] = forwarded[x]
      BY <2>2, <3>1
    <3>6. Len(Append(f, e)) = Len(f) + 1
      BY <3>2, <3>3
    <3>7. \A i \in 1..(Len(f) + 1) :
            Append(f, e)[i] = IF i = Len(f) + 1 THEN e ELSE f[i]
      BY <3>2, <3>3
    <3>8. Len(f) <= Len(sealed[s]) /\ \A i \in 1..Len(f) : f[i] = sealed[s][i]
      BY DEF AdapterInv, Delivered
    <3>9. \A i \in 1..(Len(f) + 1) : Append(f, e)[i] = sealed[s][i]
      BY <3>2, <3>7, <3>8
    <3>10. /\ Len(forwarded'[s]) <= Len(sealed'[s])
           /\ \A i \in 1..Len(forwarded'[s]) : forwarded'[s][i] = sealed'[s][i]
      BY <2>2, <3>4, <3>6, <3>9
    <3>11. \A x \in Sid \ {s} :
             /\ Len(forwarded'[x]) <= Len(sealed'[x])
             /\ \A i \in 1..Len(forwarded'[x]) : forwarded'[x][i] = sealed'[x][i]
      BY <3>5 DEF AdapterInv, Delivered
    <3>. QED
      BY <3>10, <3>11 DEF Delivered
  <2>. QED
    BY <2>1, <2>2, PiStepDelivers
<1>. QED
  BY <1>2, <1>3, <1>5, <1>6, <1>7, <1>8, <1>9, <1>10 DEF AdapterInv

-----------------------------------------------------------------------------
(* The steps of the adapter, one lemma per action. *)

\* What a step keeps that seals nothing and leaves the Pi and the key, session
\* and counter of every client alone.
LEMMA QuietKeepsRest ==
  ASSUME AdapterInv,
         UNCHANGED <<session_states, replies, calling, listening, spent, boxes,
                     forwarded, sealed>>,
         requests' \subseteq Request,
         \A q \in requests' \ requests : q.kind = "associate",
         \A l \in Link :
           /\ link'[l].sid = link[l].sid
           /\ link'[l].key = link[l].key
           /\ link'[l].sequence = link[l].sequence
  PROVE  /\ PiInv' /\ PiCounts'
         /\ ExchangesMatch' /\ LinesNumbered' /\ LinesCounted' /\ LinesPosted'
         /\ Delivered'
<1>. USE DEF AdapterInv
<1>1. PiTypeOK /\ boxes \subseteq Box /\ requests \subseteq Request /\ replies \subseteq Reply
  BY DEF PiInv, PiTypeOK
<1>2. PiInv' /\ PiCounts'
  BY <1>1, ClientKeepsPiInv
<1>3. ExchangesMatch'
  <2>1. ASSUME NEW q \in requests', q.kind = "exchange" PROVE link'[q.link].sid = q.sid
    <3>1. q \in requests /\ q.link \in Link
      BY <1>1, <2>1 DEF Request
    <3>. QED
      BY <2>1, <3>1 DEF ExchangesMatch
  <2>2. ASSUME NEW r \in replies, r.kind = "exchanged" PROVE link'[r.link].sid = r.sid
    <3>1. r.link \in Link
      BY <1>1, <2>2 DEF Reply
    <3>. QED
      BY <2>2, <3>1 DEF ExchangesMatch
  <2>. QED
    BY <2>1, <2>2 DEF ExchangesMatch
<1>4. LinesNumbered'
  <2>1. \A b \in boxes : b.key.client \in Link
    BY <1>1 DEF Box, Key
  <2>. QED
    BY <2>1 DEF LinesNumbered
<1>5. LinesCounted'
  BY DEF LinesCounted
<1>6. LinesPosted'
  BY DEF LinesPosted
<1>7. Delivered'
  BY DEF Delivered
<1>. QED
  BY <1>2, <1>3, <1>4, <1>5, <1>6, <1>7

LEMMA ConnectKeepsInv ==
  ASSUME AdapterInv, NEW l \in Link, Connect(l)
  PROVE  AdapterInv'
<1>1. link \in [Link -> LinkState] /\ requests \subseteq Request
  BY DEF AdapterInv, TypeOK, PiTypeOK
<1>2. /\ link[l].pc = "idle"
      /\ link' = [link EXCEPT ![l] = [link[l] EXCEPT !.pc = "associating"]]
      /\ requests' = requests \cup {[kind |-> "associate", link |-> l]}
      /\ closed' = closed \cup ({client} \ {None})
      /\ UNCHANGED <<session_states, replies, calling, listening, spent, boxes,
                     forwarded, client, status, disconnecting, offered, sealed>>
  BY DEF Connect, Post, Close
<1>3. \A k \in Link :
        /\ link'[k].sid = link[k].sid /\ link'[k].key = link[k].key
        /\ link'[k].sequence = link[k].sequence
        /\ link'[k].pc = IF k = l THEN "associating" ELSE link[k].pc
  BY <1>1, <1>2 DEF LinkState
<1>4. requests' \subseteq Request
  BY <1>1, <1>2 DEF Request
<1>5. /\ PiInv' /\ PiCounts' /\ ExchangesMatch' /\ LinesNumbered' /\ LinesCounted'
      /\ LinesPosted' /\ Delivered'
  BY <1>2, <1>3, <1>4, QuietKeepsRest
<1>6. LinksKeyed'
  BY <1>2, <1>3 DEF AdapterInv, LinksKeyed
<1>7. ClientKeyed'
  <2>1. client \in Link \cup {None}
    BY DEF AdapterInv, TypeOK
  <2>. QED
    BY <1>2, <1>3, <2>1 DEF AdapterInv, ClientKeyed
<1>8. TypeOK'
  <2>1. link' \in [Link -> LinkState]
    BY <1>1, <1>2 DEF LinkState
  <2>2. closed' \subseteq Link
    BY <1>2 DEF AdapterInv, TypeOK
  <2>. QED
    BY <1>2, <1>5, <2>1, <2>2 DEF AdapterInv, TypeOK, PiInv
<1>. QED
  BY <1>5, <1>6, <1>7, <1>8 DEF AdapterInv

LEMMA AuthenticatedKeepsInv ==
  ASSUME AdapterInv, NEW l \in Link, NEW r \in replies, Authenticated(l, r)
  PROVE  AdapterInv'
<1>1. /\ link \in [Link -> LinkState] /\ requests \subseteq Request
      /\ replies \subseteq Reply /\ boxes \subseteq Box
  BY DEF AdapterInv, TypeOK, PiTypeOK
<1>2. r.sid \in Sid
  BY <1>1 DEF Authenticated, Reply
<1>3. /\ link[l].pc = "associating"
      /\ link' = [link EXCEPT ![l] = [link[l] EXCEPT !.pc = "exchanging", !.sid = r.sid]]
      /\ requests' = requests \cup {[kind |-> "exchange", link |-> l, sid |-> r.sid]}
      /\ UNCHANGED <<session_states, replies, calling, listening, spent, boxes, forwarded,
                     client, status, closed, disconnecting, offered, sealed>>
  BY <1>1 DEF Authenticated, Post, LinkState
<1>4. /\ link[l].sid = None /\ link[l].key = None /\ link[l].sequence = 0
  BY <1>3 DEF AdapterInv, LinksKeyed
<1>5. /\ link'[l].pc = "exchanging" /\ link'[l].sid = r.sid
      /\ link'[l].key = None /\ link'[l].sequence = 0
      /\ \A k \in Link \ {l} : link'[k] = link[k]
  BY <1>1, <1>3, <1>4 DEF LinkState
<1>6. requests' \subseteq Request
  BY <1>1, <1>2, <1>3 DEF Request
<1>7. PiInv' /\ PiCounts'
  BY <1>1, <1>3, <1>6, ClientKeepsPiInv DEF AdapterInv
<1>8. LinksKeyed'
  BY <1>2, <1>3, <1>5 DEF AdapterInv, LinksKeyed
<1>9. ClientKeyed'
  <2>1. client \in Link \cup {None} /\ client # l
    BY <1>4 DEF AdapterInv, TypeOK, ClientKeyed
  <2>. QED
    BY <1>3, <1>5, <2>1 DEF AdapterInv, ClientKeyed
<1>10. ExchangesMatch'
  <2>1. ASSUME NEW q \in requests', q.kind = "exchange" PROVE link'[q.link].sid = q.sid
    <3>1. CASE q \in requests
      <4>1. q.link \in Link /\ q.sid \in Sid
        BY <1>1, <2>1, <3>1 DEF Request
      <4>2. link[q.link].sid = q.sid
        BY <2>1, <3>1 DEF AdapterInv, ExchangesMatch
      <4>. QED
        BY <1>4, <1>5, <4>1, <4>2
    <3>2. CASE q = [kind |-> "exchange", link |-> l, sid |-> r.sid]
      BY <1>5, <3>2
    <3>. QED
      BY <1>3, <3>1, <3>2
  <2>2. ASSUME NEW x \in replies, x.kind = "exchanged" PROVE link'[x.link].sid = x.sid
    <3>1. x.link \in Link /\ x.sid \in Sid
      BY <1>1, <2>2 DEF Reply
    <3>2. link[x.link].sid = x.sid
      BY <2>2 DEF AdapterInv, ExchangesMatch
    <3>. QED
      BY <1>4, <1>5, <3>1, <3>2
  <2>. QED
    BY <1>3, <2>1, <2>2 DEF AdapterInv, ExchangesMatch
<1>11. LinesNumbered'
  <2>1. \A b \in boxes : b.key \in Key /\ b.key.client \in Link /\ b.key # None
    BY <1>1 DEF Box, Key
  <2>2. \A b \in boxes : b.body \in Msg => b.key.client # l
    BY <1>4, <2>1 DEF AdapterInv, LinesNumbered
  <2>. QED
    BY <1>3, <1>5, <2>1, <2>2 DEF AdapterInv, LinesNumbered
<1>12. LinesCounted'
  <2>1. \A k \in Link : link'[k].key # None => k # l
    BY <1>5
  <2>2. \A k \in Link : link[k].key # None => k # l
    BY <1>4
  <2>. QED
    BY <1>3, <1>5, <2>1, <2>2 DEF AdapterInv, LinesCounted
<1>13. LinesPosted' /\ Delivered'
  BY <1>3 DEF AdapterInv, LinesPosted, Delivered
<1>14. TypeOK'
  <2>1. link' \in [Link -> LinkState]
    BY <1>1, <1>2, <1>3 DEF LinkState
  <2>. QED
    BY <1>3, <1>7, <2>1 DEF AdapterInv, TypeOK, PiInv
<1>. QED
  BY <1>7, <1>8, <1>9, <1>10, <1>11, <1>12, <1>13, <1>14 DEF AdapterInv

LEMMA ExchangedKeepsInv ==
  ASSUME AdapterInv, NEW l \in Link, NEW r \in replies, Exchanged(l, r)
  PROVE  AdapterInv'
<1>. DEFINE k == [client |-> l, server |-> r.server]
<1>1. /\ link \in [Link -> LinkState] /\ requests \subseteq Request
      /\ replies \subseteq Reply /\ boxes \subseteq Box
  BY DEF AdapterInv, TypeOK, PiTypeOK
<1>2. r.kind = "exchanged" /\ r.link = l /\ r.sid \in Sid /\ r.server \in Task
  BY <1>1 DEF Exchanged, Reply
<1>3. k \in Key /\ k.client = l /\ k # None
  BY <1>2 DEF Key
<1>4. link[l].sid = r.sid /\ session_states[r.sid].key = k
  BY <1>2 DEF AdapterInv, ExchangesMatch
<1>5. /\ link[l].pc = "exchanging"
      /\ link' = [link EXCEPT ![l] = [link[l] EXCEPT !.pc = "ready", !.key = k]]
      /\ client' = l /\ status' = "Connected"
      /\ UNCHANGED <<session_states, requests, replies, calling, listening, spent,
                     boxes, forwarded, closed, disconnecting, offered, sealed>>
  BY <1>1 DEF Exchanged, piVars, LinkState
<1>. HIDE DEF k
<1>6. link[l].key = None /\ link[l].sequence = 0
  BY <1>5 DEF AdapterInv, LinksKeyed
<1>7. /\ link'[l].pc = "ready" /\ link'[l].sid = r.sid
      /\ link'[l].key = k /\ link'[l].sequence = 0
      /\ \A x \in Link \ {l} : link'[x] = link[x]
  BY <1>1, <1>4, <1>5, <1>6 DEF LinkState
<1>8. PiInv' /\ PiCounts'
  BY <1>1, <1>5, ClientKeepsPiInv DEF AdapterInv
<1>9. LinksKeyed'
  BY <1>2, <1>3, <1>4, <1>5, <1>7 DEF AdapterInv, LinksKeyed
<1>10. ClientKeyed'
  BY <1>3, <1>5, <1>7 DEF ClientKeyed
<1>11. ExchangesMatch'
  BY <1>1, <1>4, <1>5, <1>7 DEF AdapterInv, ExchangesMatch, Request, Reply
<1>12. LinesNumbered'
  <2>1. \A b \in boxes : b.key \in Key /\ b.key.client \in Link /\ b.key # None
    BY <1>1 DEF Box, Key
  <2>2. \A b \in boxes : b.body \in Msg => b.key.client # l
    BY <1>6, <2>1 DEF AdapterInv, LinesNumbered
  <2>. QED
    BY <1>5, <1>7, <2>1, <2>2 DEF AdapterInv, LinesNumbered
<1>13. LinesCounted'
  \* a line sealed in this session would have been sealed by a client whose key
  \* is the session's, which is this client's
  <2>1. sealed[r.sid] = <<>>
    <3>1. ASSUME NEW x \in Link, link[x].key # None, link[x].sid = r.sid PROVE FALSE
      <4>1. link[x].key = k /\ link[x].key.client = x
        BY <1>4, <3>1 DEF AdapterInv, LinksKeyed
      <4>. QED
        BY <1>3, <1>6, <3>1, <4>1
    <3>. QED
      BY <1>2, <3>1 DEF AdapterInv, LinesCounted
  <2>2. Len(sealed[r.sid]) = 0
    BY <2>1
  <2>3. \A x \in Link : link'[x].key # None => Len(sealed'[link'[x].sid]) = link'[x].sequence
    BY <1>5, <1>7, <2>2 DEF AdapterInv, LinesCounted
  <2>4. \A s \in Sid : sealed'[s] # <<>> =>
          \E x \in Link : link'[x].key # None /\ link'[x].sid = s
    BY <1>5, <1>6, <1>7 DEF AdapterInv, LinesCounted
  <2>. QED
    BY <2>3, <2>4 DEF LinesCounted
<1>14. LinesPosted' /\ Delivered'
  BY <1>5 DEF AdapterInv, LinesPosted, Delivered
<1>15. TypeOK'
  <2>1. [link[l] EXCEPT !.pc = "ready", !.key = k] \in LinkState
    <3>1. link[l] \in LinkState
      BY <1>1
    <3>. QED
      BY <1>3, <3>1 DEF LinkState
  <2>2. link' \in [Link -> LinkState]
    BY <1>1, <1>5, <2>1
  <2>. QED
    BY <1>5, <1>8, <2>2 DEF AdapterInv, TypeOK, PiInv
<1>. QED
  BY <1>8, <1>9, <1>10, <1>11, <1>12, <1>13, <1>14, <1>15 DEF AdapterInv

LEMMA ConnectFailsKeepsInv ==
  ASSUME AdapterInv, NEW l \in Link, ConnectFails(l)
  PROVE  AdapterInv'
<1>1. link \in [Link -> LinkState] /\ requests \subseteq Request
  BY DEF AdapterInv, TypeOK, PiTypeOK
<1>2. /\ link[l].pc \in {"associating", "exchanging"}
      /\ link' = [link EXCEPT ![l] = [link[l] EXCEPT !.pc = "failed"]]
      /\ status' = "Error"
      /\ UNCHANGED <<session_states, requests, replies, calling, listening, spent, boxes,
                     forwarded, client, closed, disconnecting, offered, sealed>>
  BY DEF ConnectFails, piVars
<1>3. \A k \in Link :
        /\ link'[k].sid = link[k].sid /\ link'[k].key = link[k].key
        /\ link'[k].sequence = link[k].sequence
        /\ link'[k].pc = IF k = l THEN "failed" ELSE link[k].pc
  BY <1>1, <1>2 DEF LinkState
<1>4. /\ PiInv' /\ PiCounts' /\ ExchangesMatch' /\ LinesNumbered' /\ LinesCounted'
      /\ LinesPosted' /\ Delivered'
  BY <1>1, <1>2, <1>3, QuietKeepsRest
<1>5. LinksKeyed'
  BY <1>2, <1>3 DEF AdapterInv, LinksKeyed
<1>6. ClientKeyed'
  <2>1. client \in Link \cup {None}
    BY DEF AdapterInv, TypeOK
  <2>. QED
    BY <1>2, <1>3, <2>1 DEF AdapterInv, ClientKeyed
<1>7. TypeOK'
  <2>1. link' \in [Link -> LinkState]
    BY <1>1, <1>2 DEF LinkState
  <2>. QED
    BY <1>2, <1>4, <2>1 DEF AdapterInv, TypeOK, PiInv
<1>. QED
  BY <1>4, <1>5, <1>6, <1>7 DEF AdapterInv

LEMMA DisconnectKeepsInv ==
  ASSUME AdapterInv,
         \/ Disconnect \/ Disconnected \/ DisconnectNoClient
         \/ \E m \in Msg : DropLine(m)
  PROVE  AdapterInv'
<1>1. UNCHANGED <<session_states, requests, replies, calling, listening, spent, boxes,
                  forwarded, link, sealed>>
  BY DEF Disconnect, Disconnected, DisconnectNoClient, DropLine, piVars
<1>2. requests \subseteq Request
  BY DEF AdapterInv, TypeOK, PiTypeOK
<1>3. /\ PiInv' /\ PiCounts' /\ ExchangesMatch' /\ LinesNumbered' /\ LinesCounted'
      /\ LinesPosted' /\ Delivered'
  BY <1>1, <1>2, QuietKeepsRest
<1>4. client' \in {client, None}
  BY DEF Disconnect, Disconnected, DisconnectNoClient, DropLine
<1>5. LinksKeyed' /\ ClientKeyed'
  BY <1>1, <1>4 DEF AdapterInv, LinksKeyed, ClientKeyed
<1>6. TypeOK'
  <2>1. /\ status' \in {"Disconnected", "Connected", "Error"}
        /\ disconnecting' \in BOOLEAN /\ offered' \subseteq Msg
    BY DEF Disconnect, Disconnected, DisconnectNoClient, DropLine, AdapterInv, TypeOK
  <2>2. closed' \subseteq Link
    BY DEF Disconnect, Disconnected, DisconnectNoClient, DropLine, Close, AdapterInv, TypeOK
  <2>. QED
    BY <1>1, <1>3, <1>4, <2>1, <2>2 DEF AdapterInv, TypeOK, PiInv
<1>. QED
  BY <1>3, <1>5, <1>6 DEF AdapterInv

LEMMA SendLineKeepsInv ==
  ASSUME AdapterInv, NEW m \in Msg, SendLine(m)
  PROVE  AdapterInv'
<1>. DEFINE lk  == link[client]
            sid == lk.sid
            n   == lk.sequence
            box == encrypt_message(lk.key, lk.sid, lk.sequence + 1, m)
<1>1. /\ link \in [Link -> LinkState] /\ requests \subseteq Request
      /\ replies \subseteq Reply /\ boxes \subseteq Box /\ sealed \in [Sid -> Seq(Msg)]
      /\ client \in Link
  BY DEF SendLine, AdapterInv, TypeOK, PiTypeOK
<1>2. /\ n < OutboundBase
      /\ offered' = offered \cup {m}
      /\ link' = [link EXCEPT ![client] =
           [link[client] EXCEPT !.sequence = link[client].sequence + 1]]
      /\ boxes' = boxes \cup {box}
      /\ sealed' = [sealed EXCEPT ![sid] = Append(sealed[sid], m)]
      /\ \/ UNCHANGED requests
         \/ requests' = requests \cup
              {[kind |-> "forward", msg |-> m, sid |-> sid, box |-> box]}
      /\ UNCHANGED <<session_states, replies, calling, listening, spent, forwarded,
                     client, status, closed, disconnecting>>
  BY <1>1 DEF SendLine, Post
<1>3. /\ lk.key \in Key /\ lk.key # None /\ sid \in Sid /\ n \in Nat
      /\ lk.key.client = client /\ session_states[sid].key = lk.key
  <2>1. lk \in LinkState /\ lk.key # None
    BY <1>1 DEF SendLine, AdapterInv, ClientKeyed
  <2>2. lk.sid # None /\ lk.key.client = client /\ session_states[sid].key = lk.key
    BY <1>1, <2>1 DEF AdapterInv, LinksKeyed
  <2>. QED
    BY <2>1, <2>2 DEF LinkState
<1>4. /\ box.key = lk.key /\ box.sid = sid /\ box.seq = n + 1 /\ box.body = m
      /\ box \in Box
  BY <1>3 DEF encrypt_message, Box
<1>5. /\ link'[client].sid = sid /\ link'[client].key = lk.key
      /\ link'[client].sequence = n + 1 /\ link'[client].pc = lk.pc
      /\ \A x \in Link \ {client} : link'[x] = link[x]
  BY <1>1, <1>2 DEF LinkState
<1>6. Len(sealed[sid]) = n
  BY <1>1, <1>3 DEF AdapterInv, LinesCounted
<1>. HIDE DEF box, lk, sid, n
<1>7. /\ Len(sealed'[sid]) = n + 1 /\ sealed'[sid][n + 1] = m
      /\ \A i \in 1..n : sealed'[sid][i] = sealed[sid][i]
      /\ \A s \in Sid \ {sid} : sealed'[s] = sealed[s]
      /\ sealed' \in [Sid -> Seq(Msg)]
  BY <1>1, <1>2, <1>3, <1>6
<1>8. requests' \subseteq Request
  BY <1>1, <1>2, <1>3, <1>4 DEF Request
<1>9. PiInv' /\ PiCounts'
  <2>1. boxes' \subseteq Box /\ \A b \in boxes' \ boxes : b.body \in Msg
    BY <1>1, <1>2, <1>4
  <2>. QED
    BY <1>2, <1>8, <2>1, ClientKeepsPiInv DEF AdapterInv
<1>10. LinksKeyed'
  BY <1>1, <1>2, <1>3, <1>5 DEF AdapterInv, LinksKeyed, lk, sid, n
<1>11. ClientKeyed'
  BY <1>2, <1>3, <1>5 DEF ClientKeyed
<1>12. \A x \in Link : link'[x].sid = link[x].sid /\ link'[x].key = link[x].key
  BY <1>5 DEF lk, sid
<1>13. ExchangesMatch'
  <2>1. ASSUME NEW q \in requests', q.kind = "exchange" PROVE link'[q.link].sid = q.sid
    <3>1. q \in requests
      BY <1>2, <2>1
    <3>2. q.link \in Link
      BY <1>1, <2>1, <3>1 DEF Request
    <3>. QED
      BY <1>12, <2>1, <3>1, <3>2 DEF AdapterInv, ExchangesMatch
  <2>2. ASSUME NEW r \in replies, r.kind = "exchanged" PROVE link'[r.link].sid = r.sid
    <3>1. r.link \in Link
      BY <1>1, <2>2 DEF Reply
    <3>. QED
      BY <1>12, <2>2, <3>1 DEF AdapterInv, ExchangesMatch
  <2>. QED
    BY <1>2, <2>1, <2>2 DEF AdapterInv, ExchangesMatch
<1>14. LinesNumbered'
  <2>1. ASSUME NEW b \in boxes, b.body \in Msg
        PROVE  /\ link'[b.key.client].key = b.key
               /\ link'[b.key.client].sid = b.sid
               /\ 1 <= b.seq /\ b.seq <= link'[b.key.client].sequence
               /\ sealed'[b.sid][b.seq] = b.body
    <3>. DEFINE c == b.key.client
    <3>1. b.key \in Key /\ c \in Link /\ b.sid \in Sid /\ b.seq \in Nat /\ b.key # None
      BY <1>1 DEF Box, Key
    <3>2. /\ link[c].key = b.key /\ link[c].sid = b.sid
          /\ 1 <= b.seq /\ b.seq <= link[c].sequence
          /\ sealed[b.sid][b.seq] = b.body
      BY <2>1 DEF AdapterInv, LinesNumbered
    <3>3. CASE c = client
      <4>1. b.sid = sid /\ b.seq \in 1..n
        BY <1>3, <3>1, <3>2, <3>3 DEF lk, sid, n
      <4>2. sealed'[b.sid][b.seq] = b.body /\ b.seq <= link'[c].sequence
        BY <1>3, <1>5, <1>7, <3>2, <3>3, <4>1
      <4>. QED
        BY <1>12, <3>1, <3>2, <4>2
    <3>4. CASE c # client
      \* another client's session has another key
      <4>1. session_states[b.sid].key = b.key
        BY <3>1, <3>2 DEF AdapterInv, LinksKeyed
      <4>2. b.sid # sid
        BY <1>3, <3>4, <4>1
      <4>. QED
        BY <1>5, <1>7, <3>1, <3>2, <3>4, <4>2
    <3>. QED
      BY <3>3, <3>4
  <2>2. /\ link'[box.key.client].key = box.key
        /\ link'[box.key.client].sid = box.sid
        /\ 1 <= box.seq /\ box.seq <= link'[box.key.client].sequence
        /\ sealed'[box.sid][box.seq] = box.body
    BY <1>3, <1>4, <1>5, <1>7
  <2>. QED
    BY <1>2, <2>1, <2>2 DEF LinesNumbered
<1>15. LinesCounted'
  <2>1. ASSUME NEW x \in Link, link[x].key # None, x # client PROVE link[x].sid # sid
    BY <1>3, <2>1 DEF AdapterInv, LinksKeyed
  <2>2. ASSUME NEW x \in Link, link'[x].key # None
        PROVE  Len(sealed'[link'[x].sid]) = link'[x].sequence
    <3>1. CASE x = client
      BY <1>5, <1>7, <3>1
    <3>2. CASE x # client
      <4>1. link[x].key # None /\ link[x].sid \in Sid /\ link[x].sid # sid
        BY <1>1, <1>12, <2>1, <2>2, <3>2 DEF AdapterInv, LinksKeyed, LinkState
      <4>. QED
        BY <1>5, <1>7, <3>2, <4>1 DEF AdapterInv, LinesCounted
    <3>. QED
      BY <3>1, <3>2
  <2>3. ASSUME NEW s \in Sid, sealed'[s] # <<>>
        PROVE  \E x \in Link : link'[x].key # None /\ link'[x].sid = s
    <3>1. CASE s = sid
      BY <1>1, <1>3, <1>5, <3>1
    <3>2. CASE s # sid
      BY <1>7, <1>12, <2>3, <3>2 DEF AdapterInv, LinesCounted
    <3>. QED
      BY <3>1, <3>2
  <2>. QED
    BY <2>2, <2>3 DEF LinesCounted
<1>16. LinesPosted'
  BY <1>2, <1>4 DEF AdapterInv, LinesPosted
<1>17. Delivered'
  <2>1. ASSUME NEW s \in Sid
        PROVE  /\ Len(forwarded[s]) <= Len(sealed'[s])
               /\ \A i \in 1..Len(forwarded[s]) : forwarded[s][i] = sealed'[s][i]
    <3>1. Len(forwarded[s]) \in Nat
      BY DEF AdapterInv, PiInv, PiTypeOK
    <3>2. /\ Len(forwarded[s]) <= Len(sealed[s])
          /\ \A i \in 1..Len(forwarded[s]) : forwarded[s][i] = sealed[s][i]
      BY DEF AdapterInv, Delivered
    <3>3. CASE s = sid
      <4>1. Len(sealed'[s]) = Len(sealed[s]) + 1
        BY <1>3, <1>6, <1>7, <3>3
      <4>2. \A i \in 1..Len(sealed[s]) : sealed'[s][i] = sealed[s][i]
        BY <1>3, <1>6, <1>7, <3>3
      <4>3. Len(sealed[s]) \in Nat
        BY <1>2
      <4>. QED
        BY <3>1, <3>2, <4>1, <4>2, <4>3
    <3>4. CASE s # sid
      BY <1>7, <3>2, <3>4
    <3>. QED
      BY <3>3, <3>4
  <2>. QED
    BY <1>2, <2>1 DEF Delivered
<1>18. TypeOK'
  <2>1. link' \in [Link -> LinkState]
    <3>1. link[client] \in LinkState /\ link[client].sequence + 1 \in Nat
      BY <1>1, <1>3 DEF lk, n
    <3>2. [link[client] EXCEPT !.sequence = link[client].sequence + 1] \in LinkState
      BY <3>1 DEF LinkState
    <3>. QED
      BY <1>1, <1>2, <3>2
  <2>. QED
    BY <1>2, <1>7, <1>9, <2>1 DEF AdapterInv, TypeOK, PiInv
<1>. QED
  BY <1>9, <1>10, <1>11, <1>13, <1>14, <1>15, <1>16, <1>17, <1>18 DEF AdapterInv

-----------------------------------------------------------------------------
LEMMA StepKeepsInv == AdapterInv /\ [Next]_vars => AdapterInv'
<1>. SUFFICES ASSUME AdapterInv, [Next]_vars PROVE AdapterInv'
  OBVIOUS
<1>1. CASE PiNext /\ UNCHANGED adapterVars
  BY <1>1, PiKeepsAdapterInv
<1>2. CASE AdapterNext
  BY <1>2, ConnectKeepsInv, ConnectFailsKeepsInv, AuthenticatedKeepsInv,
     ExchangedKeepsInv, DisconnectKeepsInv, SendLineKeepsInv DEF AdapterNext
<1>3. CASE UNCHANGED vars
  BY <1>3 DEF vars, piVars, adapterVars, AdapterInv, TypeOK, PiInv, PiTypeOK, KeysSpent,
     KeysDistinct, SealersKeyed, PiBoxesNumbered, PiBoxesDistinct, CountersAboveBase,
     PiCounts, LinksKeyed, ClientKeyed, ExchangesMatch, LinesNumbered, LinesCounted,
     LinesPosted, Delivered, Known
<1>. QED
  BY <1>1, <1>2, <1>3 DEF Next

\* The inductive invariant holds of every behaviour.
THEOREM AdapterInvariant == Spec => []AdapterInv
<1>. QED
  BY AdapterInitInv, StepKeepsInv, PTL DEF Spec

\* Every variable keeps its type.
THEOREM TypeCorrect == Spec => []TypeOK
<1>1. AdapterInv => TypeOK
  BY DEF AdapterInv
<1>. QED
  BY <1>1, AdapterInvariant, PTL

\* No key seals two boxes under one nonce: the adapter's numbers end where the
\* Pi's begin, and each side never repeats one of its own.
THEOREM NoncesUnique == Spec => []NonceNeverReused
<1>1. ASSUME AdapterInv, NEW b1 \in boxes, NEW b2 \in boxes,
             b1.key = b2.key, NonceOf(b1) = NonceOf(b2)
      PROVE  b1 = b2
  <2>1. b1 \in Box /\ b2 \in Box
    BY <1>1 DEF AdapterInv, TypeOK, PiTypeOK
  <2>2. b1.seq = b2.seq
    BY <1>1, NonceInjective DEF NonceOf
  <2>3. \A b \in boxes : b.body \in Msg => b.seq <= OutboundBase
    <3>1. \A b \in boxes : b.seq \in Nat /\ b.key.client \in Link
      BY <1>1 DEF AdapterInv, TypeOK, PiTypeOK, Box, Key
    <3>2. \A l \in Link : link[l].sequence \in Nat /\ link[l].sequence <= OutboundBase
      BY <1>1 DEF AdapterInv, TypeOK, LinkState, LinksKeyed
    <3>. QED
      BY <1>1, <3>1, <3>2 DEF AdapterInv, LinesNumbered
  <2>4. \A b \in boxes : b.body \in Task => OutboundBase < b.seq
    BY <1>1 DEF AdapterInv, PiInv, PiBoxesNumbered
  <2>5. CASE b1.body \in Task /\ b2.body \in Task
    BY <1>1, <2>2, <2>5 DEF AdapterInv, PiInv, PiBoxesDistinct
  <2>6. CASE b1.body \in Msg /\ b2.body \in Msg
    <3>1. b1.sid = b2.sid /\ b1.body = b2.body
      BY <1>1, <2>2, <2>6 DEF AdapterInv, LinesNumbered
    <3>. QED
      BY <1>1, <2>1, <2>2, <3>1 DEF Box
  <2>7. b1.seq \in Nat /\ b2.seq \in Nat
    BY <2>1 DEF Box
  <2>8. b1.body \in Msg \cup Task /\ b2.body \in Msg \cup Task
    BY <2>1 DEF Box
  <2>. QED
    BY <1>1, <2>2, <2>3, <2>4, <2>5, <2>6, <2>7, <2>8
<1>2. AdapterInv => NonceNeverReused
  BY <1>1 DEF NonceNeverReused
<1>. QED
  BY <1>2, AdapterInvariant, PTL

\* A client with a key has the key of its session at the Pi.
THEOREM KeysAgree == Spec => []KeyAgreement
<1>1. AdapterInv => KeyAgreement
  BY DEF AdapterInv, LinksKeyed, KeyAgreement
<1>. QED
  BY <1>1, AdapterInvariant, PTL

-----------------------------------------------------------------------------
(* The sealed channel implements OrderedDelivery. *)

LEMMA StepDelivers ==
  ASSUME AdapterInv, [Next]_vars
  PROVE  [Channel!Next]_(Channel!vars)
<1>1. sealed \in [Sid -> Seq(Msg)] /\ forwarded \in [Sid -> Seq(Msg \cup Task \cup {None})]
  BY DEF AdapterInv, TypeOK, PiTypeOK
<1>2. ASSUME UNCHANGED <<sealed, forwarded>> PROVE [Channel!Next]_(Channel!vars)
  BY <1>2 DEF Channel!vars
<1>3. CASE PiNext /\ UNCHANGED adapterVars
  <2>1. UNCHANGED sealed
    BY <1>3 DEF adapterVars
  <2>2. ASSUME NEW s \in Sid,
               Len(forwarded[s]) + 1 <= Len(sealed[s]),
               forwarded' = [forwarded EXCEPT ![s] =
                 Append(forwarded[s], sealed[s][Len(forwarded[s]) + 1])]
        PROVE  Channel!Next
    <3>1. Len(forwarded[s]) < Len(sealed[s])
      BY <1>1, <2>2
    <3>2. Channel!Deliver(s)
      BY <2>1, <2>2, <3>1 DEF Channel!Deliver
    <3>. QED
      BY <3>2 DEF Channel!Next
  <2>. QED
    BY <1>2, <1>3, <2>1, <2>2, PiStepDelivers
<1>4. ASSUME NEW m \in Msg, SendLine(m) PROVE [Channel!Next]_(Channel!vars)
  <2>1. link[client].sid \in Sid
    BY <1>4 DEF SendLine, AdapterInv, TypeOK, LinkState, LinksKeyed, ClientKeyed
  <2>2. Channel!Send(link[client].sid, m)
    BY <1>4 DEF SendLine, Channel!Send
  <2>. QED
    BY <2>1, <2>2 DEF Channel!Next
<1>5. CASE AdapterNext /\ ~\E m \in Msg : SendLine(m)
  BY <1>2, <1>5 DEF AdapterNext, Connect, ConnectFails, Authenticated, Exchanged,
     Disconnect, Disconnected, DisconnectNoClient, DropLine, piVars
<1>6. CASE UNCHANGED vars
  BY <1>2, <1>6 DEF vars, piVars, adapterVars
<1>. QED
  BY <1>3, <1>4, <1>5, <1>6 DEF Next

\* The Pi hands over what the adapter sealed, in order and without gaps.
THEOREM ImplementsOrderedDelivery == Spec => DeliversInOrder
<1>1. Init => Channel!Init
  BY DEF Init, PiInit, Channel!Init
<1>. QED
  BY <1>1, StepDelivers, AdapterInvariant, PTL DEF Spec, DeliversInOrder, Channel!Spec
=============================================================================
