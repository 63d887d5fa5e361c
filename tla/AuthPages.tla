------------------------------ MODULE AuthPages ------------------------------
(***************************************************************************)
(* The two pages in front of the dashboard: ConnectPage.tsx pairs with the *)
(* local server through the proxy, AuthPage.tsx registers a parent or logs *)
(* one in.  What is typed into them is left out.                           *)
(***************************************************************************)
EXTENDS Dashboard

VARIABLES
  pairing,      \* ConnectPage: the step its spinner names, or "idle"
  mode,         \* AuthPage: "login" or "register"
  authorizing,  \* AuthPage: its own isLoading
  submitted     \* slots of the calls the mounted AuthPage waits for

authVars == <<pairing, mode, authorizing, submitted>>

AuthTypeOK ==
  /\ pairing \in {"idle", "connect", "key-exchange"}
  /\ mode \in {"login", "register"}
  /\ authorizing \in BOOLEAN
  /\ submitted \subseteq Slot

OnConnect == Screen = "connect"
OnAuth == Screen = "auth"

AuthFresh == mode = "login" /\ authorizing = FALSE /\ submitted = {}
AuthInit == pairing = "idle" /\ AuthFresh
MountAuth == mode' = "login" /\ authorizing' = FALSE /\ submitted' = {}

-----------------------------------------------------------------------------
(* ConnectPage: two requests, each when the one before it was answered. *)
Connect ==
  /\ OnConnect /\ pairing = "idle"
  /\ Spend("logins")
  /\ pairing' = "connect"
  /\ UNCHANGED <<rest, calls, mode, authorizing, submitted>>

Associated ==
  /\ pairing = "connect"
  /\ pairing' = "key-exchange"
  /\ UNCHANGED <<appVars, mode, authorizing, submitted>>

KeysExchanged ==
  /\ pairing = "key-exchange"
  /\ pairing' = "idle"
  /\ SessionPaired
  /\ UNCHANGED budget
  /\ MountAuth

ConnectFailed ==
  /\ pairing # "idle"
  /\ Spend("failures")
  /\ pairing' = "idle"
  /\ UNCHANGED <<rest, calls, mode, authorizing, submitted>>

-----------------------------------------------------------------------------
(* AuthPage *)
SwitchMode ==
  /\ OnAuth
  /\ Spend("edits")
  /\ mode' = IF mode = "login" THEN "register" ELSE "login"
  /\ UNCHANGED <<rest, calls, pairing, authorizing, submitted>>

handleSubmit ==
  /\ OnAuth /\ ~authorizing
  /\ Spend("logins")
  /\ authorizing' = TRUE
  /\ \E s \in Slot :
       /\ FirstFree(s)
       /\ calls' = [calls EXCEPT ![s] = [op |-> mode]]
       /\ submitted' = submitted \cup {s}
  /\ UNCHANGED <<rest, pairing, mode>>

Registered(s) ==
  /\ calls[s] # None /\ calls[s].op = "register"
  /\ calls' = [calls EXCEPT ![s].op = "login"]
  /\ UNCHANGED <<rest, budget, authVars>>

(* The page may be gone: the token is taken anyway. *)
LoggedIn(s) ==
  /\ calls[s] # None /\ calls[s].op = "login"
  /\ handleAuthSuccess(s)
  /\ UNCHANGED <<budget, pairing>>
  /\ MountAuth

LoginFailed(s) ==
  /\ calls[s] # None /\ calls[s].op \in {"register", "login"}
  /\ Spend("failures")
  /\ authorizing' = IF s \in submitted THEN FALSE ELSE authorizing
  /\ submitted' = submitted \ {s}
  /\ Return(s)
  /\ UNCHANGED <<rest, pairing, mode>>

(* What a step of another part does to the two pages. *)
FollowAuth ==
  /\ pairing' = IF OnConnect /\ OnConnect' THEN pairing ELSE "idle"
  /\ IF OnAuth /\ OnAuth' THEN UNCHANGED <<mode, authorizing, submitted>> ELSE MountAuth

AuthStep ==
  \/ Connect \/ Associated \/ ConnectFailed
  \/ SwitchMode \/ handleSubmit
  \/ \E s \in Slot : Registered(s) \/ LoginFailed(s)
=============================================================================
