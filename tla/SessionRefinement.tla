-------------------------- MODULE SessionRefinement --------------------------
(***************************************************************************)
(* Proof that the server model implements the handshake of spec 4.3      *)
(* (ImplementsHandshake, under the mapping Hs of Session.tla), for every   *)
(* value of the constants that satisfies ConstantsAssumption.  The        *)
(* argument needs only TypeOK: every branch of a handler either leaves    *)
(* the connection, state_, username_ and user_dir_ of every slot alone,    *)
(* ends the process (Halt), or is one edge of the table for its own slot. *)
(***************************************************************************)
EXTENDS SessionProofs

\* The mapped state of the slots, as Hs sees it.
HsState == [s \in Sessions |-> IF conn[s] THEN state[s] ELSE "CLOSED"]

\* A step that leaves every slot as the handshake sees it.
LEMMA HsQuiet ==
  ASSUME UNCHANGED <<conn, state, username, userDir>>
  PROVE  UNCHANGED Hs!hvars
BY DEF Hs!hvars

\* The process ends: every slot is CLOSED.
LEMMA HsCrash ==
  ASSUME NEW d, NEW f, NEW db, Crash(d, f, db)
  PROVE  Hs!Halt
BY DEF Crash, Hs!Halt

\* Slot s, on an open connection, takes an edge to st with name u and
\* sandbox d; the other slots stay.
LEMMA HsEdge ==
  ASSUME TypeOK, NEW s \in Sessions, NEW st \in States, NEW u, NEW d,
         conn[s], conn' = conn,
         state' = [state EXCEPT ![s] = st],
         username' = [username EXCEPT ![s] = u],
         userDir' = [userDir EXCEPT ![s] = d]
  PROVE  Hs!Put(s, st, u, d)
<1>1. HsState' = [HsState EXCEPT ![s] = st]
  BY DEF HsState, TypeOK
<1> QED BY <1>1 DEF Hs!Put, HsState

\* A connection is accepted on slot s: it is in LOGIN.
LEMMA HsOpen ==
  ASSUME TypeOK, NEW s \in Sessions, Connect(s)
  PROVE  Hs!Open(s)
<1>1. HsState' = [HsState EXCEPT ![s] = "LOGIN"] /\ HsState[s] = "CLOSED"
  BY DEF Connect, ResetSession, HsState, TypeOK
<1> QED BY <1>1 DEF Hs!Open, Hs!Put, HsState, Connect, ResetSession

\* The connection of slot s ends.
LEMMA HsClose ==
  ASSUME TypeOK, NEW s \in Sessions, Disconnect(s)
  PROVE  Hs!Close(s)
<1>1. HsState' = [HsState EXCEPT ![s] = "CLOSED"] /\ HsState[s] # "CLOSED"
  BY DEF Disconnect, ResetSession, HsState, TypeOK, States
<1> QED BY <1>1 DEF Hs!Close, Hs!Put, HsState, Disconnect, ResetSession

-----------------------------------------------------------------------------
(***************************************************************************)
(* One lemma per handler: it is a step of the handshake or a stutter.      *)
(***************************************************************************)
HsStep == Hs!Next \/ UNCHANGED Hs!hvars

\* The commands of a READY session, and the unknown and silent ones.
LEMMA FsHs ==
  ASSUME NEW s \in Sessions,
         \/ \E c \in Requests : Unknown(s, c) \/ Silent(s, c)
         \/ \E a \in PathArgs : List(s, a) \/ Delete(s, a) \/ Cd(s, a)
                                \/ Mkdir(s, a) \/ Rmdir(s, a)
         \/ \E a, b \in PathArgs : Move(s, a, b) \/ Copy(s, a, b)
  PROVE  HsStep
<1>1. \/ UNCHANGED <<conn, state, username, userDir>>
      \/ \E d, f, db : Crash(d, f, db)
  <2>1. CASE \E c \in Requests : Unknown(s, c) \/ Silent(s, c)
    BY <2>1 DEF Unknown, Silent, Respond
  <2>2. CASE \E a \in PathArgs : List(s, a) \/ Delete(s, a) \/ Cd(s, a)
    BY <2>2 DEF List, Delete, Cd, Respond, FsUnchanged
  <2>3. CASE \E a \in PathArgs : Mkdir(s, a) \/ Rmdir(s, a)
    BY <2>3 DEF Mkdir, Rmdir, Respond, FsUnchanged
  <2>4. CASE \E a, b \in PathArgs : Move(s, a, b) \/ Copy(s, a, b)
    BY <2>4 DEF Move, Copy, Respond, FsUnchanged
  <2> QED BY <2>1, <2>2, <2>3, <2>4
<1> QED BY <1>1, HsQuiet, HsCrash DEF HsStep, Hs!Next

\* Session::login: LoginPublic or LoginNamed from LOGIN.
LEMMA LoginHs ==
  ASSUME TypeOK, NEW s \in Sessions, NEW a \in Users \cup {""}, Login(s, a)
  PROVE  HsStep
<1>1. conn[s] /\ up
  BY DEF Login, Serving
<1>2. CASE state[s] # "LOGIN"
  BY <1>2, HsQuiet DEF Login, Respond, HsStep
<1>3. CASE state[s] = "LOGIN" /\ a = ""
  <2>1. /\ conn' = conn /\ state' = [state EXCEPT ![s] = "READY"]
        /\ username' = [username EXCEPT ![s] = ""]
        /\ userDir' = [userDir EXCEPT ![s] = PublicDir]
    BY <1>3 DEF Login, GoReady
  <2>2. Hs!Put(s, "READY", "", PublicDir)
    BY <1>1, <2>1, HsEdge DEF States
  <2>3. Hs!LoginPublic(s)
    BY <1>1, <1>3, <2>2 DEF Hs!LoginPublic, HsState
  <2> QED BY <2>3 DEF HsStep, Hs!Next
<1>4. CASE state[s] = "LOGIN" /\ a # "" /\ ~dbReady
  BY <1>4, HsCrash DEF Login, HsStep, Hs!Next
<1>5. CASE state[s] = "LOGIN" /\ a # "" /\ dbReady
  <2> DEFINE st == IF UserExists(a) THEN "AUTH" ELSE "NEED_INPUT_REGISTER"
  <2>1. /\ conn' = conn /\ state' = [state EXCEPT ![s] = st]
        /\ username' = [username EXCEPT ![s] = a]
        /\ userDir' = [userDir EXCEPT ![s] = userDir[s]]
    BY <1>5 DEF Login, TypeOK
  <2>2. Hs!Put(s, st, a, userDir[s])
    <3>1. HsState' = [HsState EXCEPT ![s] = st]
      BY <1>1, <2>1 DEF HsState, TypeOK
    <3> QED BY <2>1, <3>1 DEF Hs!Put, HsState
  <2>3. a \in Users /\ st \in {"AUTH", "NEED_INPUT_REGISTER"}
    BY <1>5
  <2>4. Hs!LoginNamed(s, a)
    BY <1>1, <1>5, <2>2, <2>3 DEF Hs!LoginNamed, HsState
  <2> QED BY <2>3, <2>4 DEF HsStep, Hs!Next
<1> QED BY <1>2, <1>3, <1>4, <1>5

\* Session::need_input: Confirm or Decline from NEED_INPUT_REGISTER.
LEMMA NeedInputHs ==
  ASSUME TypeOK, NEW s \in Sessions, NEW a \in Replies, NeedInput(s, a)
  PROVE  HsStep
<1>1. conn[s]
  BY DEF NeedInput, Serving
<1>2. username' = [username EXCEPT ![s] = username[s]]
  BY DEF NeedInput, Respond, TypeOK
<1>3. CASE state[s] = "NEED_INPUT_REGISTER" /\ a = "Y"
  <2>1. /\ conn' = conn /\ state' = [state EXCEPT ![s] = "AUTH"]
        /\ userDir' = [userDir EXCEPT ![s] = userDir[s]]
    BY <1>3 DEF NeedInput, TypeOK
  <2>2. Hs!Put(s, "AUTH", username[s], userDir[s])
    <3>1. HsState' = [HsState EXCEPT ![s] = "AUTH"]
      BY <1>1, <2>1 DEF HsState, TypeOK
    <3> QED BY <1>2, <2>1, <3>1 DEF Hs!Put, HsState
  <2> QED BY <1>1, <1>3, <2>2 DEF Hs!Confirm, HsState, HsStep, Hs!Next
<1>4. CASE state[s] = "NEED_INPUT_REGISTER" /\ a = "n"
  <2>1. /\ conn' = conn /\ state' = [state EXCEPT ![s] = "READY"]
        /\ userDir' = [userDir EXCEPT ![s] = PublicDir]
    BY <1>4 DEF NeedInput, GoReady
  <2>2. Hs!Put(s, "READY", username[s], PublicDir)
    BY <1>1, <1>2, <2>1, HsEdge DEF States
  <2> QED BY <1>1, <1>4, <2>2 DEF Hs!Decline, HsState, HsStep, Hs!Next
<1>5. CASE ~(state[s] = "NEED_INPUT_REGISTER" /\ a \in {"Y", "n"})
  BY <1>5, HsQuiet DEF NeedInput, Respond, HsStep
<1> QED BY <1>3, <1>4, <1>5

\* Session::auth: SignIn from AUTH, or no edge.
LEMMA AuthHs ==
  ASSUME TypeOK, NEW s \in Sessions, NEW p \in Passwords \cup {""}, Auth(s, p)
  PROVE  HsStep
<1>1. conn[s]
  BY DEF Auth, Serving
<1>2. CASE state[s] = "AUTH" /\ p # "" /\ dbReady
           /\ ~(UserExists(username[s]) /\ ~ValidateUser(username[s], p))
  <2>1. CASE \E d, f, db : Crash(d, f, db)
    BY <2>1, HsCrash DEF HsStep, Hs!Next
  <2>2. CASE Authenticated(s, p)
    <3>1. /\ conn' = conn /\ state' = [state EXCEPT ![s] = "READY"]
          /\ username' = [username EXCEPT ![s] = username[s]]
          /\ userDir' = [userDir EXCEPT ![s] = PrivateDir(username[s])]
      BY <2>2 DEF Authenticated, GoReady, TypeOK
    <3>2. Hs!Put(s, "READY", username[s], PrivateDir(username[s]))
      <4>1. HsState' = [HsState EXCEPT ![s] = "READY"]
        BY <1>1, <3>1 DEF HsState, TypeOK
      <4> QED BY <3>1, <4>1 DEF Hs!Put, HsState
    <3> QED BY <1>1, <1>2, <3>2 DEF Hs!SignIn, HsState, HsStep, Hs!Next
  <2> QED BY <1>2, <2>1, <2>2 DEF Auth
<1>3. CASE ~(state[s] = "AUTH" /\ p # "" /\ dbReady
             /\ ~(UserExists(username[s]) /\ ~ValidateUser(username[s], p)))
  <2>1. CASE state[s] = "AUTH" /\ p # "" /\ ~dbReady
    BY <2>1, HsCrash DEF Auth, HsStep, Hs!Next
  <2>2. CASE ~(state[s] = "AUTH" /\ p # "" /\ ~dbReady)
    BY <1>3, <2>2, HsQuiet DEF Auth, Respond, Reply, HsStep
  <2> QED BY <2>1, <2>2
<1> QED BY <1>2, <1>3

\* A connection is accepted (Open) or ends (Close).
LEMMA ConnectHs ==
  ASSUME TypeOK, NEW s \in Sessions, Connect(s) \/ Disconnect(s)
  PROVE  HsStep
<1>1. CASE Connect(s)
  BY <1>1, HsOpen DEF HsStep, Hs!Next
<1>2. CASE Disconnect(s)
  BY <1>2, HsClose DEF HsStep, Hs!Next
<1> QED BY <1>1, <1>2

\* Stop ends every connection; Restart finds none open.
LEMMA ProcessHs ==
  ASSUME Stop \/ Restart
  PROVE  HsStep
<1>1. CASE Stop
  BY <1>1, HsCrash DEF Stop, HsStep, Hs!Next
<1>2. CASE Restart
  BY <1>2, HsQuiet DEF Restart, sessVars, HsStep
<1> QED BY <1>1, <1>2

-----------------------------------------------------------------------------
\* Every step of the server is a step of the handshake or leaves it alone.
THEOREM NextHs == TypeOK /\ [Next]_vars => HsStep
<1> SUFFICES ASSUME TypeOK, [Next]_vars PROVE HsStep
  OBVIOUS
<1>1. CASE \E s \in Sessions :
             \/ \E c \in Requests : Unknown(s, c) \/ Silent(s, c)
             \/ \E a \in PathArgs : List(s, a) \/ Delete(s, a) \/ Cd(s, a)
                                    \/ Mkdir(s, a) \/ Rmdir(s, a)
             \/ \E a, b \in PathArgs : Move(s, a, b) \/ Copy(s, a, b)
  BY <1>1, FsHs
<1>2. CASE \E s \in Sessions : \E a \in Replies : NeedInput(s, a)
  BY <1>2, NeedInputHs
<1>3. CASE \E s \in Sessions : \E a \in Users \cup {""} : Login(s, a)
  BY <1>3, LoginHs
<1>4. CASE \E s \in Sessions : \E p \in Passwords \cup {""} : Auth(s, p)
  BY <1>4, AuthHs
<1>5. CASE \E s \in Sessions : Connect(s) \/ Disconnect(s)
  BY <1>5, ConnectHs
<1>6. CASE Stop \/ Restart
  BY <1>6, ProcessHs
<1>7. CASE UNCHANGED vars
  BY <1>7, HsQuiet DEF vars, sessVars, HsStep
<1> QED BY <1>1, <1>2, <1>3, <1>4, <1>5, <1>6, <1>7 DEF Next

(***************************************************************************)
(* The server implements the handshake of spec 4.3: seen through Hs (a    *)
(* slot is CLOSED without a connection, else in the Session's state_,     *)
(* with its username_ and user_dir_), every behaviour of Session.tla is a *)
(* behaviour of Handshake.tla.  Login, need_input and auth move a slot    *)
(* only along the table's edges; the file commands, rejections and        *)
(* restarts leave every slot alone; a crash closes them all.              *)
(***************************************************************************)
THEOREM Refinement == Spec => ImplementsHandshake
<1>1. Init => Hs!Init
  BY DEF Init, Hs!Init
<1>2. TypeOK /\ [Next]_vars => [Hs!Next]_Hs!hvars
  BY NextHs DEF HsStep
<1> QED BY <1>1, <1>2, TypeCorrect, PTL DEF Spec, ImplementsHandshake, Hs!Spec

\* The abstract proofs, seen through the same mapping.
HP == INSTANCE HandshakeProofs
        WITH hs <- [s \in Sessions |-> IF conn[s] THEN state[s] ELSE "CLOSED"],
             who <- username, box <- userDir, NoDir <- EmptyPath,
             PublicDir <- PublicDir, PrivateDir <- PrivateDir

(***************************************************************************)
(* A READY session on an open connection has user_dir_ equal to the       *)
(* public sandbox or to the private sandbox built (Session::setup_dir)    *)
(* from its own username_: the handshake's SandboxOwned, carried to the   *)
(* server by the refinement.                                               *)
(***************************************************************************)
THEOREM SessionSandboxOwned == Spec => []Hs!SandboxOwned
<1>1. Hs!Init => HP!HInv
  BY HP!HInitInv DEF Hs!Init, HP!Init
<1>2. HP!HInv /\ [Hs!Next]_Hs!hvars => HP!HInv'
  <2>1. [Hs!Next]_Hs!hvars <=> [HP!Next]_HP!hvars
    BY DEF Hs!Next, HP!Next, Hs!hvars, HP!hvars, Hs!Open, HP!Open, Hs!Close, HP!Close,
           Hs!LoginPublic, HP!LoginPublic, Hs!Confirm, HP!Confirm, Hs!Decline,
           HP!Decline, Hs!SignIn, HP!SignIn, Hs!LoginNamed, HP!LoginNamed,
           Hs!Halt, HP!Halt, Hs!Put, HP!Put
  <2> QED BY <2>1, HP!HNextInv
<1>3. HP!HInv => Hs!SandboxOwned
  BY DEF HP!HInv, HP!SandboxOwned, Hs!SandboxOwned
<1> QED BY <1>1, <1>2, <1>3, Refinement, PTL DEF ImplementsHandshake, Hs!Spec

=============================================================================
