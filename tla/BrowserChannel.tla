---------------------------- MODULE BrowserChannel ----------------------------
(***************************************************************************)
(* The dashboard's end of the sealed channel (frontend/src/apis/client.ts, *)
(* lib/security.ts, ConnectPage.tsx, and the logout and session check of   *)
(* App.tsx), composed with the Pi of PiSession.                            *)
(*                                                                         *)
(* Tabs of one browser share the keys, the session id and the sequence     *)
(* number in localStorage; each page also holds the session id in memory.  *)
(* A link is one submission of the pairing form.                           *)
(***************************************************************************)
EXTENDS PiSession

CONSTANT Tab

VARIABLES
  pairing,          \* per submission: progress, the tab it runs in, its session
  tab_session,      \* client.ts sessionId of each page; None shows the form
  stored_session,   \* localStorage tellmom_session_id
  stored_key,       \* localStorage tellmom_aes_key and tellmom_nonce_base
  stored_sequence,  \* localStorage tellmom_sequence
  sealing,          \* customFetch calls suspended in encryptMessage
  fetches           \* per request: the call of customFetch that makes it

storage == <<stored_session, stored_key, stored_sequence>>
browserVars == <<pairing, tab_session, storage, sealing, fetches>>
vars == <<piVars, browserVars>>

Pairing ==
  [pc : {"idle", "connect", "key-exchange", "over"},
   tab : Tab \cup {None}, sid : Sid \cup {None}]

NoPairing == [pc |-> "idle", tab |-> None, sid |-> None]
Over == [NoPairing EXCEPT !.pc = "over"]

Sealing == [tab : Tab, msg : Msg, sid : Sid, key : Key, seq : Nat]

Fetch ==
  [pc : {"none", "sealing", "sent", "unopened", "done"},
   tab : Tab \cup {None}, sid : Sid \cup {None}]

NoFetch == [pc |-> "none", tab |-> None, sid |-> None]

TypeOK ==
  /\ PiTypeOK
  /\ pairing \in [Link -> Pairing]
  /\ tab_session \in [Tab -> Sid \cup {None}]
  /\ stored_session \in Sid \cup {None}
  /\ stored_key \in Key \cup {None}
  /\ stored_sequence \in Nat \cup {None}
  /\ sealing \subseteq Sealing
  /\ fetches \in [Msg -> Fetch]

Init ==
  /\ PiInit
  /\ pairing = [l \in Link |-> NoPairing]
  /\ tab_session = [b \in Tab |-> None]
  /\ stored_session = None
  /\ stored_key = None
  /\ stored_sequence = None
  /\ sealing = {}
  /\ fetches = [m \in Msg |-> NoFetch]

Post(q) == requests' = requests \cup {q}

UnchangedPi ==
  UNCHANGED <<session_states, replies, calling, listening, spent, boxes, forwarded>>

-----------------------------------------------------------------------------
(* lib/security.ts, the counterpart of security.py.  A submission draws one *)
(* private value and stands for it and for its public value; keys and nonce *)
(* base are both expanded from the secret and are named by it.              *)

deriveDhPublicKey(private) == private

deriveSharedSecret(private, peerPublic) == [client |-> private, server |-> peerPublic]

\* under a label of its own, so that the nonce base says nothing of the key
hkdfExpand(secret, info) == {<<info, secret>>}

deriveSessionKeys(secret) == [aesKey |-> secret, nonceBase |-> hkdfExpand(secret, "nonce")]

xorNonce(base, sequence) ==
  LET s == {<<"seq", sequence>>} IN (base \ s) \cup (s \ base)

encryptMessage(sequence, aesKey, plaintext, sid) ==
  [key |-> aesKey, sid |-> sid, seq |-> sequence, body |-> plaintext]

\* decryptMessage returns: the nonce is derived again, the one sent is not used
decryptMessage(keys, box, aad) ==
  /\ box.key = keys.aesKey
  /\ xorNonce(keys.nonceBase, box.seq) = NonceOf(box)
  /\ aad = <<box.sid, box.seq>>

-----------------------------------------------------------------------------
(* ConnectPage.handleSubmit *)

Running(l) == pairing[l].pc \in {"connect", "key-exchange"}

Submit(b, l) ==
  /\ pairing[l].pc = "idle"
  /\ tab_session[b] = None
  /\ \A k \in Link : ~(Running(k) /\ pairing[k].tab = b)
  /\ pairing' = [pairing EXCEPT ![l].pc = "connect", ![l].tab = b]
  /\ Post([kind |-> "associate", link |-> l])
  /\ UnchangedPi
  /\ UNCHANGED <<tab_session, storage, sealing, fetches>>

Associated(l, r) ==
  /\ pairing[l].pc = "connect"
  /\ r.kind = "associated" /\ r.link = l
  /\ pairing' = [pairing EXCEPT ![l].pc = "key-exchange", ![l].sid = r.sid]
  /\ Post([kind |-> "exchange", link |-> deriveDhPublicKey(l), sid |-> r.sid])
  /\ UnchangedPi
  /\ UNCHANGED <<tab_session, storage, sealing, fetches>>

\* Mutant: keys already stored are kept.
ExchangedKeepsKeys(l, r) ==
  /\ pairing[l].pc = "key-exchange"
  /\ r.kind = "exchanged" /\ r.link = l
  /\ pairing' = [pairing EXCEPT ![l] = Over]
  /\ stored_key' =
       IF stored_key = None THEN [client |-> l, server |-> r.server] ELSE stored_key
  /\ stored_session' = pairing[l].sid
  /\ tab_session' = [tab_session EXCEPT ![pairing[l].tab] = pairing[l].sid]
  /\ UNCHANGED <<piVars, stored_sequence, sealing, fetches>>

\* keys and session id are stored; the stored sequence number stays
Exchanged(l, r) ==
  /\ pairing[l].pc = "key-exchange"
  /\ r.kind = "exchanged" /\ r.link = l
  /\ pairing' = [pairing EXCEPT ![l] = Over]
  /\ stored_key' = deriveSharedSecret(l, r.server)
  /\ stored_session' = pairing[l].sid
  /\ tab_session' = [tab_session EXCEPT ![pairing[l].tab] = pairing[l].sid]
  /\ UNCHANGED <<piVars, stored_sequence, sealing, fetches>>

\* Mutant: the form is left in its last step without a name.
PairingFailsUnnamed(l) ==
  /\ Running(l)
  /\ pairing' = [pairing EXCEPT ![l].pc = "error"]
  /\ UNCHANGED <<piVars, tab_session, storage, sealing, fetches>>

PairingFails(l) ==
  /\ Running(l)
  /\ pairing' = [pairing EXCEPT ![l] = Over]
  /\ UNCHANGED <<piVars, tab_session, storage, sealing, fetches>>

-----------------------------------------------------------------------------
(* customFetch.  Without stored keys a body goes out as it is; the Pi fails *)
(* to parse it as a box and drops the request, which changes nothing.       *)

NextSequence == IF stored_sequence = None THEN 1 ELSE stored_sequence

\* A page whose forms are disabled while their request runs seals one request
\* at a time.  The guard on the number is the bound the two directions' ranges
\* rest on.
BeginSeal(b, m) ==
  /\ fetches[m].pc = "none"
  /\ tab_session[b] # None
  /\ stored_key # None
  /\ NextSequence <= OutboundBase
  /\ \A p \in sealing : p.tab # b
  /\ fetches' = [fetches EXCEPT ![m] = [pc |-> "sealing", tab |-> b, sid |-> tab_session[b]]]
  /\ sealing' = sealing \cup
       {[tab |-> b, msg |-> m, sid |-> tab_session[b], key |-> stored_key,
         seq |-> NextSequence]}
  /\ UNCHANGED <<piVars, pairing, tab_session, storage>>

\* after the await: the number after the one used is stored, the box is posted
EndSeal(p) ==
  /\ p \in sealing
  /\ sealing' = sealing \ {p}
  /\ fetches' = [fetches EXCEPT ![p.msg].pc = "sent"]
  /\ stored_sequence' = p.seq + 1
  /\ LET box == encryptMessage(p.seq, p.key, p.msg, p.sid)
     IN  /\ boxes' = boxes \cup {box}
         /\ Post([kind |-> "forward", msg |-> p.msg, sid |-> p.sid, box |-> box])
  /\ UNCHANGED <<session_states, replies, calling, listening, spent, forwarded,
                 pairing, tab_session, stored_session, stored_key>>

\* a request without a body is not sealed
SendBare(b, m) ==
  /\ fetches[m].pc = "none"
  /\ tab_session[b] # None
  /\ fetches' = [fetches EXCEPT ![m] = [pc |-> "sent", tab |-> b, sid |-> tab_session[b]]]
  /\ Post([kind |-> "forward", msg |-> m, sid |-> tab_session[b], box |-> None])
  /\ UnchangedPi
  /\ UNCHANGED <<pairing, tab_session, storage, sealing>>

\* Mutant: the session id of the page is read again when the answer is there.
OpensAnswerNow(m, box) ==
  /\ stored_key # None
  /\ decryptMessage(deriveSessionKeys(stored_key), box,
                    <<tab_session[fetches[m].tab], box.seq>>)

\* The keys are those stored by now, the session is the one the call began in.
OpensAnswer(m, box) ==
  /\ stored_key # None
  /\ decryptMessage(deriveSessionKeys(stored_key), box, <<fetches[m].sid, box.seq>>)

\* A box that does not open is returned to the caller as it is.
ReadAnswer(m, r) ==
  /\ fetches[m].pc = "sent"
  /\ r.kind = "answer" /\ r.msg = m
  /\ fetches' = [fetches EXCEPT ![m] =
       [NoFetch EXCEPT !.pc = IF OpensAnswer(m, r.box) THEN "done" ELSE "unopened"]]
  /\ UNCHANGED <<piVars, pairing, tab_session, storage, sealing>>

\* no answer, or one that is not ok
FetchFails(m) ==
  /\ fetches[m].pc = "sent"
  /\ fetches' = [fetches EXCEPT ![m] = [NoFetch EXCEPT !.pc = "done"]]
  /\ UNCHANGED <<piVars, pairing, tab_session, storage, sealing>>

-----------------------------------------------------------------------------
(* App.tsx *)

\* the live alert socket of a page
OpenLive(b) ==
  /\ tab_session[b] # None
  /\ Post([kind |-> "open", sid |-> tab_session[b]])
  /\ UnchangedPi
  /\ UNCHANGED browserVars

\* handleLogout and clearToken: keys and sequence number stay stored
Logout(b) ==
  /\ tab_session[b] # None
  /\ tab_session' = [tab_session EXCEPT ![b] = None]
  /\ stored_session' = None
  /\ UNCHANGED <<piVars, pairing, stored_key, stored_sequence, sealing, fetches>>

\* fetchMe met 401, 404 or 503: everything of the application is removed.  A page
\* with a session checks its profile all the time; after a logout one of the calls
\* it made in the session may still fail so.
Wipe(b) ==
  /\ \/ tab_session[b] # None
     \/ \E m \in Msg : fetches[m].pc = "sent" /\ fetches[m].tab = b
  /\ tab_session' = [tab_session EXCEPT ![b] = None]
  /\ stored_session' = None
  /\ stored_key' = None
  /\ stored_sequence' = None
  /\ UNCHANGED <<piVars, pairing, sealing, fetches>>

\* the page is loaded (again): what it was doing ends
Load(b) ==
  /\ tab_session' = [tab_session EXCEPT ![b] = stored_session]
  /\ sealing' = {p \in sealing : p.tab # b}
  /\ pairing' = [l \in Link |->
       IF Running(l) /\ pairing[l].tab = b THEN Over ELSE pairing[l]]
  /\ fetches' = [m \in Msg |->
       IF fetches[m].tab = b THEN [NoFetch EXCEPT !.pc = "done"] ELSE fetches[m]]
  /\ UNCHANGED <<piVars, storage>>

-----------------------------------------------------------------------------
BrowserNext ==
  \/ \E b \in Tab :
       \/ \E l \in Link : Submit(b, l)
       \/ \E m \in Msg : BeginSeal(b, m) \/ SendBare(b, m)
       \/ OpenLive(b)
       \/ Logout(b)
       \/ Wipe(b)
       \/ Load(b)
  \/ \E l \in Link : PairingFails(l)
  \/ \E l \in Link, r \in replies : Associated(l, r) \/ Exchanged(l, r)
  \/ \E p \in sealing : EndSeal(p)
  \/ \E m \in Msg : FetchFails(m) \/ \E r \in replies : ReadAnswer(m, r)

Next ==
  \/ PiNext /\ UNCHANGED browserVars
  \/ BrowserNext

Spec == Init /\ [][Next]_vars

-----------------------------------------------------------------------------
(* Properties. *)

\* Whatever the Pi seals, answers and live frames in any interleaving, never
\* shares a nonce with another box under the same key, in either direction
\* (security.py:25-31).  Two requests may: see NonceNeverReused.
DirectionsSeparate ==
  \A b1, b2 \in boxes :
    b1.body \in Task /\ b1.key = b2.key /\ NonceOf(b1) = NonceOf(b2) => b1 = b2

\* The n-th body the Pi takes in a session, if it opened, was sealed as number
\* n of that session under that session's key, and no request is opened twice,
\* though tabs mix sessions and the relay repeats requests.
OpensInSequence ==
  \A s \in Sid : \A i \in 1..Len(forwarded[s]) :
    forwarded[s][i] # None =>
      /\ \E box \in boxes :
           /\ box.body = forwarded[s][i]
           /\ box.sid = s /\ box.seq = i /\ box.key = session_states[s].key
      /\ \A j \in 1..Len(forwarded[s]) : forwarded[s][j] = forwarded[s][i] => j = i

\* The keys a browser has stored beside a session id are the keys the Pi holds
\* for that session, whichever tabs paired, logged out or reloaded since.
StoredKeysMatch ==
  stored_session # None => session_states[stored_session].key = stored_key

\* Once a session has keys, no request changes them (_handle_dh_request takes
\* an exchange for an "authenticated" session only).
KeysStay ==
  [][\A s \in Sid : session_states[s].key # None =>
       session_states'[s].key = session_states[s].key]_vars

\* As long as the browser holds the keys of the session a call was made in, the
\* Pi's answer opens, also when its page has logged out meanwhile or another
\* tab has paired.
AnswersOpen ==
  [][\A m \in Msg :
       fetches[m].pc = "sent" /\ fetches'[m].pc = "unopened" =>
         stored_key # session_states[fetches[m].sid].key]_vars

\* "No nonce reuse": no two boxes under one key share a nonce.
NonceNeverReused ==
  \A b1, b2 \in boxes :
    b1.key = b2.key /\ NonceOf(b1) = NonceOf(b2) => b1 = b2

\* "Requests count up from 1": a session's first sealed request has number 1.
CountsFromOne ==
  \A b1 \in boxes : b1.body \in Msg =>
    \E b2 \in boxes : b2.body \in Msg /\ b2.sid = b1.sid /\ b2.seq = 1
=============================================================================
