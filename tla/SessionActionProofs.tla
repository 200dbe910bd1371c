------------------------- MODULE SessionActionProofs -------------------------
(***************************************************************************)
(* Proofs of the two action properties of Session.tla, SandboxStable and  *)
(* NoEffectOnRejection, for every value of the constants that satisfies   *)
(* ConstantsAssumption.  Both follow from TypeOK alone: every branch of    *)
(* every handler either only writes the response (the code's early        *)
(* returns), ends the process, or answers with something that is not a    *)
(* rejection and moves only a session that was not READY.                 *)
(***************************************************************************)
EXTENDS SessionProofs

\* The step form of SandboxStable.
SandboxStep ==
  \A s \in Sessions :
    conn[s] /\ conn'[s] /\ state[s] = "READY" =>
      state'[s] = "READY" /\ userDir'[s] = userDir[s]

\* The step form of NoEffectOnRejection.
RejectStep ==
  event'.sess \in Sessions /\ resp'[event'.sess] \in Rejections =>
    LET s == event'.sess IN
    /\ UNCHANGED <<dirs, files, dbFile, up>>
    /\ state'[s] = state[s] /\ userDir'[s] = userDir[s]
    /\ curDir'[s] = curDir[s]

SafeStep == SandboxStep /\ RejectStep

-----------------------------------------------------------------------------
(***************************************************************************)
(* The three shapes a branch of a handler has.                             *)
(***************************************************************************)

\* An early return: only the response is written.
LEMMA SafeRespond ==
  ASSUME NEW s \in Sessions, event'.sess = s,
         UNCHANGED <<dirs, files, dbFile, up, conn, state, userDir, curDir>>
  PROVE  SafeStep
BY DEF SafeStep, SandboxStep, RejectStep

\* The process ends: every connection is gone and nothing is answered.
LEMMA SafeCrash ==
  ASSUME NEW d, NEW f, NEW db, Crash(d, f, db)
  PROVE  SafeStep
<1>1. NoResp \notin Rejections
  BY DEF NoResp, Rejections, BadRequest, Forbidden, PreconditionFailed,
         Unavailable, Resp
<1> QED BY <1>1 DEF Crash, SafeStep, SandboxStep, RejectStep

\* The handler goes ahead: the answer is no rejection, and only the acting
\* session moves, and only if it was not READY on an open connection.
LEMMA SafeProceed ==
  ASSUME NEW s \in Sessions, event'.sess = s, resp'[s] \notin Rejections,
         \A r \in Sessions \ {s} : state'[r] = state[r] /\ userDir'[r] = userDir[r],
         \/ ~conn[s] \/ ~conn'[s] \/ state[s] # "READY"
         \/ state'[s] = "READY" /\ userDir'[s] = userDir[s]
  PROVE  SafeStep
BY DEF SafeStep, SandboxStep, RejectStep

\* The answers a handler gives when it goes ahead.
LEMMA NotRejections ==
  {OkResp, InternalError, AuthAsk, RegisterAsk, NoResp} \cap Rejections = {}
BY DEF OkResp, InternalError, AuthAsk, RegisterAsk, NoResp, Rejections,
       BadRequest, Forbidden, PreconditionFailed, Unavailable, Resp

-----------------------------------------------------------------------------
(***************************************************************************)
(* One lemma per handler: each branch has one of the three shapes.         *)
(***************************************************************************)
Shapes(s) ==
  \/ UNCHANGED <<dirs, files, dbFile, up, conn, state, userDir, curDir>>
  \/ \E d, f, db : Crash(d, f, db)
  \/ /\ resp'[s] \in {OkResp, InternalError, AuthAsk, RegisterAsk, NoResp}
     /\ \A r \in Sessions \ {s} : state'[r] = state[r] /\ userDir'[r] = userDir[r]
     /\ \/ ~conn[s] \/ ~conn'[s] \/ state[s] # "READY"
        \/ state'[s] = "READY" /\ userDir'[s] = userDir[s]

LEMMA ShapesSafe ==
  ASSUME NEW s \in Sessions, event'.sess = s, Shapes(s)
  PROVE  SafeStep
BY SafeRespond, SafeCrash, SafeProceed, NotRejections DEF Shapes

\* The commands of a READY session, and the unknown and silent ones.
LEMMA FsSafe ==
  ASSUME TypeOK, NEW s \in Sessions,
         \/ \E c \in Requests : Unknown(s, c) \/ Silent(s, c)
         \/ \E a \in PathArgs : List(s, a) \/ Delete(s, a) \/ Cd(s, a)
                                \/ Mkdir(s, a) \/ Rmdir(s, a)
         \/ \E a, b \in PathArgs : Move(s, a, b) \/ Copy(s, a, b)
  PROVE  SafeStep
<1>1. event'.sess = s
  <2>1. CASE \E c \in Requests : Unknown(s, c) \/ Silent(s, c)
    BY <2>1 DEF Unknown, Silent, Serving
  <2>2. CASE \E a \in PathArgs : List(s, a) \/ Delete(s, a) \/ Cd(s, a)
    BY <2>2 DEF List, Delete, Cd, Serving
  <2>3. CASE \E a \in PathArgs : Mkdir(s, a) \/ Rmdir(s, a)
    BY <2>3 DEF Mkdir, Rmdir, Serving
  <2>4. CASE \E a, b \in PathArgs : Move(s, a, b) \/ Copy(s, a, b)
    BY <2>4 DEF Move, Copy, Serving
  <2> QED BY <2>1, <2>2, <2>3, <2>4
<1>2. Shapes(s)
  <2>1. CASE \E c \in Requests : Unknown(s, c) \/ Silent(s, c)
    BY <2>1 DEF Unknown, Silent, Respond, procVars, diskVars, Shapes
  <2>2. CASE \E a \in PathArgs : List(s, a)
    BY <2>2 DEF List, Respond, procVars, diskVars, Shapes
  <2>3. CASE \E a \in PathArgs : Delete(s, a) \/ Cd(s, a)
    BY <2>3 DEF Delete, Cd, Respond, Reply, FsUnchanged, procVars, diskVars,
                Shapes, TypeOK
  <2>4. CASE \E a \in PathArgs : Mkdir(s, a) \/ Rmdir(s, a)
    BY <2>4 DEF Mkdir, Rmdir, Respond, Reply, FsUnchanged, procVars, diskVars,
                Shapes, TypeOK
  <2>5. CASE \E a, b \in PathArgs : Move(s, a, b)
    <3>1. PICK a, b \in PathArgs : Move(s, a, b)
      BY <2>5
    <3>2. CASE TwoPathCheck(s, a, b) # OkResp
      BY <3>1, <3>2 DEF Move, Respond, procVars, diskVars, Shapes
    <3>3. CASE TwoPathCheck(s, a, b) = OkResp
      <4>1. state[s] = "READY"
        BY <3>3 DEF TwoPathCheck, Unavailable, OkResp, Resp
      <4> DEFINE src == Loc(a)
                 dst == Loc(b)
                 moved == SourceOpens(dirs, files, src)
                          /\ FallbackRemoves(dirs, files \cup {dst}, src)
      <4>2. /\ \/ Reply(s, OkResp)
               \/ Reply(s, IF moved THEN OkResp ELSE InternalError)
               \/ Respond(s, InternalError)
            /\ UNCHANGED curDir /\ FsUnchanged
        <5>1. CASE RenameOk(dirs, files, src, dst)
          BY <3>1, <3>3, <5>1 DEF Move
        <5>2. CASE ~RenameOk(dirs, files, src, dst) /\ DestOpens(dirs, dst)
          BY <3>1, <3>3, <5>2 DEF Move
        <5>3. CASE ~RenameOk(dirs, files, src, dst) /\ ~DestOpens(dirs, dst)
          <6>1. Respond(s, InternalError)
            BY <3>1, <3>3, <5>3 DEF Move
          <6> QED BY <6>1 DEF Respond, FsUnchanged, procVars, diskVars
        <5> QED BY <5>1, <5>2, <5>3
      <4>3. resp'[s] \in {OkResp, InternalError}
        BY <4>2 DEF Reply, Respond, TypeOK
      <4>4. UNCHANGED <<dbFile, up, conn, state, userDir, curDir>>
        BY <4>2 DEF FsUnchanged, procVars
      <4> QED BY <4>1, <4>3, <4>4 DEF Shapes
    <3> QED BY <3>2, <3>3
  <2>6. CASE \E a, b \in PathArgs : Copy(s, a, b)
    BY <2>6 DEF Copy, Respond, Reply, FsUnchanged, procVars, diskVars,
                Shapes, TypeOK
  <2> QED BY <2>1, <2>2, <2>3, <2>4, <2>5, <2>6
<1> QED BY <1>1, <1>2, ShapesSafe

\* Session::need_input only moves a session in NEED_INPUT_REGISTER.
LEMMA NeedInputSafe ==
  ASSUME TypeOK, NEW s \in Sessions, NEW a \in Replies, NeedInput(s, a)
  PROVE  SafeStep
<1>1. event'.sess = s
  BY DEF NeedInput, Serving
<1>2. Shapes(s)
  BY DEF NeedInput, Respond, Reply, GoReady, procVars, diskVars, Shapes, TypeOK
<1> QED BY <1>1, <1>2, ShapesSafe

\* Session::login only moves a session in LOGIN.
LEMMA LoginSafe ==
  ASSUME TypeOK, NEW s \in Sessions, NEW a \in Users \cup {""}, Login(s, a)
  PROVE  SafeStep
<1>1. event'.sess = s
  BY DEF Login, Serving
<1>2. Shapes(s)
  BY DEF Login, Respond, Reply, GoReady, procVars, diskVars, Shapes, TypeOK
<1> QED BY <1>1, <1>2, ShapesSafe

\* Session::auth only moves a session in AUTH.
LEMMA AuthSafe ==
  ASSUME TypeOK, NEW s \in Sessions, NEW p \in Passwords \cup {""}, Auth(s, p)
  PROVE  SafeStep
<1>1. event'.sess = s
  BY DEF Auth, Serving
<1>2. CASE state[s] # "AUTH" \/ p = ""
  BY <1>1, <1>2, SafeRespond DEF Auth, Respond, procVars, diskVars
<1>3. CASE state[s] = "AUTH" /\ p # ""
  <2>1. \/ \E d, f, db : Crash(d, f, db)
        \/ /\ resp'[s] \in {AuthAsk, OkResp}
           /\ \A r \in Sessions \ {s} : state'[r] = state[r] /\ userDir'[r] = userDir[r]
    BY <1>3 DEF Auth, Authenticated, Reply, GoReady, TypeOK
  <2> QED BY <1>1, <1>3, <2>1, ShapesSafe DEF Shapes
<1> QED BY <1>2, <1>3

\* A connection opens on a closed slot or closes.
LEMMA ConnectSafe ==
  ASSUME TypeOK, NEW s \in Sessions, Connect(s) \/ Disconnect(s)
  PROVE  SafeStep
<1>1. event'.sess = s
  BY DEF Connect, Disconnect
<1>2. Shapes(s)
  BY DEF Connect, Disconnect, ResetSession, Shapes, TypeOK
<1> QED BY <1>1, <1>2, ShapesSafe

\* Stop and Restart are no session's step.
LEMMA ProcessSafe ==
  ASSUME Stop \/ Restart
  PROVE  SafeStep
<1>1. CASE Stop
  BY <1>1, SafeCrash DEF Stop
<1>2. CASE Restart
  BY <1>2, ConstantsAssumption DEF Restart, sessVars, SafeStep, SandboxStep, RejectStep
<1> QED BY <1>1, <1>2

-----------------------------------------------------------------------------
THEOREM NextSafe == TypeOK /\ [Next]_vars => SafeStep
<1> SUFFICES ASSUME TypeOK, [Next]_vars PROVE SafeStep
  OBVIOUS
<1>1. CASE \E s \in Sessions :
             \/ \E c \in Requests : Unknown(s, c) \/ Silent(s, c)
             \/ \E a \in PathArgs : List(s, a) \/ Delete(s, a) \/ Cd(s, a)
                                    \/ Mkdir(s, a) \/ Rmdir(s, a)
             \/ \E a, b \in PathArgs : Move(s, a, b) \/ Copy(s, a, b)
  BY <1>1, FsSafe
<1>2. CASE \E s \in Sessions : \E a \in Replies : NeedInput(s, a)
  BY <1>2, NeedInputSafe
<1>3. CASE \E s \in Sessions : \E a \in Users \cup {""} : Login(s, a)
  BY <1>3, LoginSafe
<1>4. CASE \E s \in Sessions : \E p \in Passwords \cup {""} : Auth(s, p)
  BY <1>4, AuthSafe
<1>5. CASE \E s \in Sessions : Connect(s) \/ Disconnect(s)
  BY <1>5, ConnectSafe
<1>6. CASE Stop \/ Restart
  BY <1>6, ProcessSafe
<1>7. CASE UNCHANGED vars
  BY <1>7 DEF vars, procVars, diskVars, sessVars, SafeStep, SandboxStep, RejectStep
<1> QED BY <1>1, <1>2, <1>3, <1>4, <1>5, <1>6, <1>7 DEF Next

(***************************************************************************)
(* A session that is READY on an open connection stays READY in the same  *)
(* sandbox (user_dir_) until its connection ends, whatever it and the     *)
(* other sessions send: login, need_input and auth re-check state_ before *)
(* they move a session, and no other handler assigns state_ or user_dir_. *)
(***************************************************************************)
THEOREM SandboxStays == Spec => SandboxStable
<1>1. TypeOK /\ [Next]_vars => [SandboxStep]_vars
  BY NextSafe DEF SafeStep
<1> QED BY <1>1, TypeCorrect, PTL DEF Spec, SandboxStable, SandboxStep

(***************************************************************************)
(* A request answered with a rejection (400, 403, 412 or 503) changes     *)
(* neither the disk, users.json, the process, nor the session's state,    *)
(* sandbox or current directory: every rejection in session.cpp is an     *)
(* early return taken before the handler writes anything.                  *)
(***************************************************************************)
THEOREM RejectionsHaveNoEffect == Spec => NoEffectOnRejection
<1>1. TypeOK /\ [Next]_vars => [RejectStep]_vars
  BY NextSafe DEF SafeStep
<1> QED BY <1>1, TypeCorrect, PTL DEF Spec, NoEffectOnRejection, RejectStep

=============================================================================
