------------------------------ MODULE Handshake ------------------------------
(***************************************************************************)
(* What the server promises of each connection's login handshake: the     *)
(* transition table of the Session state machine.  A connection is        *)
(* CLOSED, or in LOGIN, AUTH, NEED_INPUT_REGISTER or READY; it carries    *)
(* the name it logged in with and its sandbox (user_dir_).  Which names   *)
(* are registered, which password is right and what the answers say are   *)
(* left out: a named login may lead to AUTH or to NEED_INPUT_REGISTER,    *)
(* and a request the table does not list leaves the connection as it is.  *)
(* Session.tla implements this specification (ImplementsHandshake).        *)
(***************************************************************************)
CONSTANTS
  Sessions,       \* connection slots
  Users,          \* names a client may log in with
  PublicDir,      \* the shared sandbox, <root>/public/files
  PrivateDir(_),  \* a user's sandbox, <root>/private/<user>/files
  NoDir           \* no sandbox yet

VARIABLES
  hs,    \* each slot's state
  who,   \* the name it logged in with ("" when anonymous)
  box    \* its sandbox

hvars == <<hs, who, box>>

HStates == {"CLOSED", "LOGIN", "AUTH", "NEED_INPUT_REGISTER", "READY"}

Init ==
  /\ hs = [s \in Sessions |-> "CLOSED"]
  /\ who = [s \in Sessions |-> ""]
  /\ box = [s \in Sessions |-> NoDir]

\* Slot s gets state st, name u and sandbox d.
Put(s, st, u, d) ==
  /\ hs' = [hs EXCEPT ![s] = st]
  /\ who' = [who EXCEPT ![s] = u]
  /\ box' = [box EXCEPT ![s] = d]

\* A connection is accepted: a new Session in LOGIN.
Open(s) == hs[s] = "CLOSED" /\ Put(s, "LOGIN", "", NoDir)

\* The connection ends and its Session with it.
Close(s) == hs[s] # "CLOSED" /\ Put(s, "CLOSED", "", NoDir)

\* The process ends: every connection with it.
Halt ==
  /\ hs' = [s \in Sessions |-> "CLOSED"]
  /\ who' = [s \in Sessions |-> ""]
  /\ box' = [s \in Sessions |-> NoDir]

\* login with an empty name: READY in the public sandbox.
LoginPublic(s) == hs[s] = "LOGIN" /\ Put(s, "READY", "", PublicDir)

\* login with a name: AUTH when it is known, NEED_INPUT_REGISTER if not.
LoginNamed(s, u) ==
  /\ hs[s] = "LOGIN"
  /\ \E st \in {"AUTH", "NEED_INPUT_REGISTER"} : Put(s, st, u, box[s])

\* "Y" to "register?": on to AUTH.
Confirm(s) == hs[s] = "NEED_INPUT_REGISTER" /\ Put(s, "AUTH", who[s], box[s])

\* "n" to "register?": READY in the public sandbox.
Decline(s) == hs[s] = "NEED_INPUT_REGISTER" /\ Put(s, "READY", who[s], PublicDir)

\* A valid password, or a registration: READY in the user's own sandbox.
SignIn(s) == hs[s] = "AUTH" /\ Put(s, "READY", who[s], PrivateDir(who[s]))

Next ==
  \/ \E s \in Sessions :
       \/ Open(s) \/ Close(s) \/ LoginPublic(s) \/ Confirm(s) \/ Decline(s)
       \/ SignIn(s)
       \/ \E u \in Users : LoginNamed(s, u)
  \/ Halt

Spec == Init /\ [][Next]_hvars

-----------------------------------------------------------------------------
Boxes == {NoDir, PublicDir} \cup {PrivateDir(u) : u \in Users}

HTypeOK ==
  /\ hs \in [Sessions -> HStates]
  /\ who \in [Sessions -> Users \cup {""}]
  /\ box \in [Sessions -> Boxes]

(***************************************************************************)
(* A READY connection works in the public sandbox or in PrivateDir of the *)
(* very name it logged in with: the private sandbox is only entered from  *)
(* AUTH, AUTH only after a login with a name, and the name is kept.  That *)
(* this is "never another user's" sandbox needs PrivateDir to be          *)
(* injective, which the code's string-built path is not (a name holding   *)
(* "/" or ".." reaches another directory); the model's names are single   *)
(* path elements.                                                          *)
(***************************************************************************)
SandboxOwned ==
  \A s \in Sessions :
    hs[s] = "READY" =>
      \/ box[s] = PublicDir
      \/ who[s] \in Users /\ box[s] = PrivateDir(who[s])

=============================================================================
