---------------------------- MODULE SessionProofs ----------------------------
(***************************************************************************)
(* Proofs about the server model of Session.tla, for every value of the    *)
(* constants that satisfies ConstantsAssumption.                           *)
(*                                                                         *)
(* TypeOK is not inductive by itself: Session::auth builds the account    *)
(* record and the private directory from username_, which is only a user *)
(* name (not "") because a session reaches AUTH or NEED_INPUT_REGISTER    *)
(* through a named login.  IInv adds that fact, DialogueNamed.            *)
(***************************************************************************)
EXTENDS Session, TLAPS, SequenceTheorems

\* A session in the login dialogue carries the name it logged in with.
DialogueNamed ==
  \A s \in Sessions :
    state[s] \in {"AUTH", "NEED_INPUT_REGISTER"} => username[s] \in Users

IInv == TypeOK /\ DialogueNamed

-----------------------------------------------------------------------------
(***************************************************************************)
(* Lemmas on the helpers: the filesystem operations keep every location a *)
(* sequence of names.                                                      *)
(***************************************************************************)
LEMMA PathPrefixesType ==
  ASSUME NEW l \in Seq(STRING)
  PROVE  PathPrefixes(l) \subseteq Seq(STRING)
<1> SUFFICES ASSUME NEW j \in 1..Len(l) PROVE SubSeq(l, 1, j) \in Seq(STRING)
  BY DEF PathPrefixes
<1> QED BY SubSeqProperties

LEMMA CreateDirectoriesType ==
  ASSUME NEW ds \in SUBSET Seq(STRING), NEW l \in Seq(STRING)
  PROVE  CreateDirectories(ds, l) \subseteq Seq(STRING)
BY PathPrefixesType DEF CreateDirectories

LEMMA RerootType ==
  ASSUME NEW ls \in SUBSET Seq(STRING), NEW src \in Seq(STRING), NEW dst \in Seq(STRING)
  PROVE  Reroot(ls, src, dst) \subseteq Seq(STRING)
<1> SUFFICES ASSUME NEW p \in ls
             PROVE  dst \o SubSeq(p, Len(src) + 1, Len(p)) \in Seq(STRING)
  BY DEF Reroot
<1>1. SubSeq(p, Len(src) + 1, Len(p)) \in Seq(STRING)
  BY SubSeqProperties
<1> QED BY <1>1, ConcatProperties

\* Every location a path argument names is a sequence of names.
LEMMA LocType ==
  ASSUME NEW a \in PathArgs
  PROVE  Loc(a) \in Seq(STRING)
BY ConstantsAssumption DEF Loc

\* A location below the root is a sequence of names.
LEMMA UnderRootType ==
  ASSUME NEW t \in Seq(STRING)
  PROVE  RootDir \o t \in Seq(STRING)
BY ConstantsAssumption, ConcatProperties

LEMMA PrivateBaseType ==
  ASSUME NEW u \in Users
  PROVE  /\ PrivateBase(u) \o <<"files">> \in Seq(STRING)
         /\ PrivateBase(u) \o <<".partial">> \in Seq(STRING)
<1>1. {"private", "files", ".partial"} \subseteq STRING
  BY RootNamesAssumption DEF RootNames
<1>2. u \in STRING
  BY ConstantsAssumption
<1>3. <<"private", u>> \in Seq(STRING)
  BY <1>1, <1>2
<1>4. PrivateBase(u) \in Seq(STRING)
  BY <1>3, UnderRootType DEF PrivateBase
<1> QED BY <1>1, <1>4, ConcatProperties

LEMMA UsersJsonType == UsersJson \in Seq(STRING)
<1>1. <<"users.json">> \in Seq(STRING)
  BY RootNamesAssumption DEF RootNames
<1> QED BY <1>1, UnderRootType DEF UsersJson

LEMMA SetupDirsType ==
  ASSUME NEW ds \in SUBSET Seq(STRING), NEW u \in Users, dirs = ds
  PROVE  SetupDirs(u) \subseteq Seq(STRING)
<1>1. CreateDirectories(dirs, PrivateBase(u) \o <<"files">>) \subseteq Seq(STRING)
  BY PrivateBaseType, CreateDirectoriesType
<1> QED BY <1>1, PrivateBaseType, CreateDirectoriesType DEF SetupDirs

LEMMA SetupDirCrashType ==
  ASSUME NEW ds \in SUBSET Seq(STRING), NEW u \in Users, dirs = ds
  PROVE  SetupDirCrashDirs(u) \subseteq Seq(STRING)
BY PrivateBaseType, CreateDirectoriesType DEF SetupDirCrashDirs

-----------------------------------------------------------------------------
THEOREM InitIInv == Init => IInv
<1> SUFFICES ASSUME Init PROVE IInv OBVIOUS
<1>1. /\ RootDir \o <<"public">> \in Seq(STRING)
      /\ RootDir \o <<"private">> \in Seq(STRING)
      /\ UsersJson \in Seq(STRING)
  <2>1. {<<"public">>, <<"private">>, <<"users.json">>} \subseteq Seq(STRING)
    BY RootNamesAssumption DEF RootNames
  <2> QED BY <2>1, UnderRootType DEF UsersJson
<1>2. dirs \subseteq Seq(STRING) /\ files \subseteq Seq(STRING)
  BY <1>1, ConstantsAssumption DEF Init
<1>3. /\ userDir \in [Sessions -> DirValues]
      /\ curDir \in [Sessions -> DirValues \cup PathArgs]
  BY DEF Init, DirValues
<1>4. /\ resp \in [Sessions -> Responses]
      /\ authPw \in [Sessions -> Passwords \cup {""}]
      /\ username \in [Sessions -> Users \cup {""}]
      /\ state \in [Sessions -> States]
      /\ conn \in [Sessions -> BOOLEAN]
  BY DEF Init, Responses, States
<1>5. event \in Events
  BY DEF Events, Init
<1>6. entries \in Seq(Entry) /\ dbFile \in Seq(Entry)
  BY EmptySeq DEF Init
<1>7. TypeOK
  BY <1>2, <1>3, <1>4, <1>5, <1>6 DEF Init, TypeOK, Locations
<1> QED BY <1>7 DEF Init, IInv, DialogueNamed

-----------------------------------------------------------------------------
(***************************************************************************)
(* The steps every handler ends with.                                      *)
(***************************************************************************)
LEMMA ServingEvent ==
  ASSUME NEW s \in Sessions, NEW c, Serving(s, c)
  PROVE  event' \in Events
BY DEF Serving, Events

\* A handler that only writes a response.
LEMMA RespondIInv ==
  ASSUME IInv, NEW s \in Sessions, NEW r \in Responses, Respond(s, r), event' \in Events
  PROVE  IInv'
BY DEF Respond, Reply, IInv, TypeOK, DialogueNamed, procVars, diskVars

\* The process ends with the disk in a well-typed state.
LEMMA CrashIInv ==
  ASSUME IInv, NEW d \in SUBSET Seq(STRING), NEW f \in SUBSET Seq(STRING),
         NEW db \in Seq(Entry), Crash(d, f, db), event' \in Events
  PROVE  IInv'
<1>1. EmptyPath \in DirValues /\ NoResp \in Responses
  BY DEF DirValues, Responses
<1>2. <<>> \in Seq(Entry)
  BY EmptySeq
<1> QED BY <1>1, <1>2 DEF Crash, IInv, TypeOK, DialogueNamed, Locations, States

-----------------------------------------------------------------------------
(***************************************************************************)
(* One lemma per handler: it preserves IInv.                               *)
(***************************************************************************)
LEMMA LoadedType ==
  ASSUME TypeOK
  PROVE  Loaded \in Seq(Entry)
BY DEF TypeOK, Loaded

LEMMA LoginIInv ==
  ASSUME IInv, NEW s \in Sessions, NEW a \in Users \cup {""}, Login(s, a)
  PROVE  IInv'
<1>1. event' \in Events
  BY ServingEvent DEF Login
<1>2. CASE state[s] # "LOGIN"
  <2>1. Respond(s, Unavailable)
    BY <1>2 DEF Login
  <2> QED BY <1>1, <2>1, RespondIInv DEF Responses
<1>3. CASE state[s] = "LOGIN" /\ a = ""
  <2>1. /\ GoReady(s, PublicDir, OkResp)
        /\ username' = [username EXCEPT ![s] = ""]
        /\ UNCHANGED <<procVars, diskVars, conn, authPw>>
    BY <1>3 DEF Login
  <2>2. PublicDir \in DirValues /\ OkResp \in Responses
    BY DEF DirValues, Responses
  <2> QED BY <1>1, <2>1, <2>2
          DEF GoReady, Reply, IInv, TypeOK, DialogueNamed, procVars, diskVars, States
<1>4. CASE state[s] = "LOGIN" /\ a # "" /\ ~dbReady
  <2>1. Crash(dirs, files, dbFile)
    BY <1>4 DEF Login
  <2> QED BY <1>1, <2>1, CrashIInv DEF IInv, TypeOK, Locations
<1>5. CASE state[s] = "LOGIN" /\ a # "" /\ dbReady
  <2> DEFINE r == IF UserExists(a) THEN AuthAsk ELSE RegisterAsk
             st == IF UserExists(a) THEN "AUTH" ELSE "NEED_INPUT_REGISTER"
  <2>1. /\ resp' = [resp EXCEPT ![s] = r]
        /\ state' = [state EXCEPT ![s] = st]
        /\ username' = [username EXCEPT ![s] = a]
        /\ entries' = Loaded
        /\ UNCHANGED <<up, dbReady, diskVars, conn, userDir, curDir, authPw>>
    BY <1>5 DEF Login, Reply
  <2>2. r \in Responses /\ st \in {"AUTH", "NEED_INPUT_REGISTER"} /\ a \in Users
    BY <1>5 DEF Responses
  <2>3. Loaded \in Seq(Entry)
    BY LoadedType DEF IInv
  <2> QED BY <1>1, <2>1, <2>2, <2>3 DEF IInv, TypeOK, DialogueNamed, diskVars, States
<1> QED BY <1>2, <1>3, <1>4, <1>5

\* The end of a successful auth: setup_dir and READY in the private sandbox.
LEMMA AuthenticatedIInv ==
  ASSUME IInv, NEW s \in Sessions, NEW p \in Passwords, username[s] \in Users,
         Authenticated(s, p), event' \in Events,
         entries' \in Seq(Entry), dbFile' \in Seq(Entry),
         files' \in SUBSET Seq(STRING)
  PROVE  IInv'
<1>1. dirs' \subseteq Seq(STRING)
  BY SetupDirsType DEF Authenticated, IInv, TypeOK, Locations
<1>2. PrivateDir(username[s]) \in DirValues /\ OkResp \in Responses
  BY DEF DirValues, Responses
<1> QED BY <1>1, <1>2 DEF Authenticated, GoReady, Reply, IInv, TypeOK, DialogueNamed, Locations, States

LEMMA AuthIInv ==
  ASSUME IInv, NEW s \in Sessions, NEW p \in Passwords \cup {""}, Auth(s, p)
  PROVE  IInv'
<1> DEFINE u == username[s]
           new == Append(Loaded, [username |-> u, password |-> p])
<1>1. event' \in Events
  BY ServingEvent DEF Auth
<1>2. Loaded \in Seq(Entry) /\ dirs \subseteq Seq(STRING) /\ files \subseteq Seq(STRING)
      /\ dbFile \in Seq(Entry)
  BY LoadedType DEF IInv, TypeOK, Locations
<1>3. CASE state[s] # "AUTH"
  BY <1>1, <1>3, RespondIInv DEF Auth, Responses
<1>4. CASE state[s] = "AUTH" /\ p = ""
  BY <1>1, <1>4, RespondIInv DEF Auth, Responses
<1>5. CASE state[s] = "AUTH" /\ p # ""
  <2>1. u \in Users /\ p \in Passwords
    BY <1>5 DEF IInv, DialogueNamed
  <2>2. new \in Seq(Entry) /\ files \cup {UsersJson} \subseteq Seq(STRING)
    BY <1>2, <2>1, AppendProperties, UsersJsonType DEF Entry
  <2>3. CASE ~dbReady
    <3>1. Crash(dirs, files, dbFile)
      BY <1>5, <2>3 DEF Auth
    <3> QED BY <1>1, <1>2, <3>1, CrashIInv
  <2>4. CASE dbReady /\ UserExists(u) /\ ~ValidateUser(u, p)
    <3>1. /\ resp' = [resp EXCEPT ![s] = AuthAsk]
          /\ entries' = Loaded
          /\ UNCHANGED <<up, dbReady, diskVars, conn, state, username, userDir, curDir, authPw>>
      BY <1>5, <2>4 DEF Auth, Reply
    <3> QED BY <1>1, <1>2, <3>1 DEF IInv, TypeOK, DialogueNamed, Responses, diskVars
  <2>5. CASE dbReady /\ UserExists(u) /\ ValidateUser(u, p) /\ SetupDirThrows(u)
    <3>1. Crash(SetupDirCrashDirs(u), files, dbFile)
      BY <1>5, <2>5 DEF Auth
    <3>2. SetupDirCrashDirs(u) \in SUBSET Seq(STRING)
      BY <1>2, <2>1, SetupDirCrashType
    <3> QED BY <1>1, <1>2, <3>1, <3>2, CrashIInv
  <2>6. CASE dbReady /\ UserExists(u) /\ ValidateUser(u, p) /\ ~SetupDirThrows(u)
    <3>1. Authenticated(s, p) /\ entries' = Loaded /\ UNCHANGED <<dbFile, files>>
      BY <1>5, <2>6 DEF Auth
    <3> QED BY <1>1, <1>2, <2>1, <3>1, AuthenticatedIInv
  <2>7. CASE dbReady /\ ~UserExists(u) /\ ~SaveOk
    <3>1. Crash(dirs, files, dbFile)
      BY <1>5, <2>7 DEF Auth
    <3> QED BY <1>1, <1>2, <3>1, CrashIInv
  <2>8. CASE dbReady /\ ~UserExists(u) /\ SaveOk /\ SetupDirThrows(u)
    <3>1. Crash(SetupDirCrashDirs(u), files \cup {UsersJson}, new)
      BY <1>5, <2>8 DEF Auth
    <3>2. files \cup {UsersJson} \in SUBSET Seq(STRING)
          /\ SetupDirCrashDirs(u) \in SUBSET Seq(STRING)
      BY <1>2, <2>1, UsersJsonType, SetupDirCrashType
    <3> QED BY <1>1, <1>2, <2>2, <3>1, <3>2, CrashIInv
  <2>9. CASE dbReady /\ ~UserExists(u) /\ SaveOk /\ ~SetupDirThrows(u)
    <3>1. /\ Authenticated(s, p)
          /\ entries' = new /\ dbFile' = new
          /\ files' = files \cup {UsersJson}
      BY <1>5, <2>9 DEF Auth
    <3> QED BY <1>1, <2>1, <2>2, <3>1, AuthenticatedIInv
  <2> QED BY <2>3, <2>4, <2>5, <2>6, <2>7, <2>8, <2>9
<1> QED BY <1>3, <1>4, <1>5

LEMMA NeedInputIInv ==
  ASSUME IInv, NEW s \in Sessions, NEW a \in Replies, NeedInput(s, a)
  PROVE  IInv'
<1>1. event' \in Events
  BY ServingEvent DEF NeedInput
<1>2. CASE state[s] # "NEED_INPUT_REGISTER"
  BY <1>1, <1>2, RespondIInv DEF NeedInput, Responses
<1>3. CASE state[s] = "NEED_INPUT_REGISTER" /\ a = "Y"
  <2>1. /\ resp' = [resp EXCEPT ![s] = AuthAsk]
        /\ state' = [state EXCEPT ![s] = "AUTH"]
        /\ UNCHANGED <<procVars, diskVars, conn, username, userDir, curDir, authPw>>
    BY <1>3 DEF NeedInput, Reply
  <2>2. username[s] \in Users
    BY <1>3 DEF IInv, DialogueNamed
  <2> QED BY <1>1, <2>1, <2>2 DEF IInv, TypeOK, DialogueNamed, Responses, States,
                                   procVars, diskVars
<1>4. CASE state[s] = "NEED_INPUT_REGISTER" /\ a = "n"
  <2>1. /\ GoReady(s, PublicDir, OkResp)
        /\ UNCHANGED <<procVars, diskVars, conn, username, authPw>>
    BY <1>4 DEF NeedInput
  <2>2. PublicDir \in DirValues /\ OkResp \in Responses
    BY DEF DirValues, Responses
  <2> QED BY <1>1, <2>1, <2>2
          DEF GoReady, Reply, IInv, TypeOK, DialogueNamed, procVars, diskVars, States
<1>5. CASE state[s] = "NEED_INPUT_REGISTER" /\ a \notin {"Y", "n"}
  BY <1>1, <1>5, RespondIInv DEF NeedInput, Responses
<1> QED BY <1>2, <1>3, <1>4, <1>5

LEMMA UnknownIInv ==
  ASSUME IInv, NEW s \in Sessions, NEW c \in Requests, Unknown(s, c)
  PROVE  IInv'
BY ServingEvent, RespondIInv DEF Unknown, Responses

LEMMA SilentIInv ==
  ASSUME IInv, NEW s \in Sessions, NEW c \in Requests, Silent(s, c)
  PROVE  IInv'
BY ServingEvent, RespondIInv DEF Silent, Responses

\* A filesystem handler that changes only the disk sets and the response.
LEMMA FsStepIInv ==
  ASSUME IInv, NEW s \in Sessions, NEW r \in Responses,
         Reply(s, r), FsUnchanged, event' \in Events,
         dirs' \in SUBSET Seq(STRING), files' \in SUBSET Seq(STRING),
         curDir' \in [Sessions -> DirValues \cup PathArgs]
  PROVE  IInv'
BY DEF Reply, FsUnchanged, IInv, TypeOK, DialogueNamed, Locations, procVars

LEMMA ListIInv ==
  ASSUME IInv, NEW s \in Sessions, NEW a \in PathArgs, List(s, a)
  PROVE  IInv'
<1>1. event' \in Events
  BY ServingEvent DEF List
<1>2. dirs \subseteq Seq(STRING) /\ files \subseteq Seq(STRING) /\ dbFile \in Seq(Entry)
  BY DEF IInv, TypeOK, Locations
<1>3. CASE state[s] = "READY" /\ IsEmpty(a) /\ ~IsDir(curDir[s])
  BY <1>1, <1>2, <1>3, CrashIInv DEF List
<1>4. CASE ~(state[s] = "READY" /\ IsEmpty(a) /\ ~IsDir(curDir[s]))
  <2>1. \E r \in Responses : Respond(s, r)
    BY <1>4 DEF List, Responses
  <2> QED BY <1>1, <2>1, RespondIInv
<1> QED BY <1>3, <1>4

LEMMA DeleteIInv ==
  ASSUME IInv, NEW s \in Sessions, NEW a \in PathArgs, Delete(s, a)
  PROVE  IInv'
<1>1. event' \in Events
  BY ServingEvent DEF Delete
<1>2. CASE state[s] = "READY" /\ IsReg(a) /\ Sandboxed(s, a)
  <2>1. Reply(s, OkResp) /\ files' = files \ {Loc(a)} /\ UNCHANGED <<dirs, curDir>>
        /\ FsUnchanged
    BY <1>2 DEF Delete
  <2> QED BY <1>1, <2>1, FsStepIInv DEF IInv, TypeOK, Locations, Responses
<1>3. CASE ~(state[s] = "READY" /\ IsReg(a) /\ Sandboxed(s, a))
  <2>1. \E r \in Responses : Respond(s, r)
    BY <1>3 DEF Delete, Responses
  <2> QED BY <1>1, <2>1, RespondIInv
<1> QED BY <1>2, <1>3

LEMMA CdIInv ==
  ASSUME IInv, NEW s \in Sessions, NEW a \in PathArgs, Cd(s, a)
  PROVE  IInv'
<1>1. event' \in Events
  BY ServingEvent DEF Cd
<1>2. CASE state[s] = "READY" /\ IsDir(a) /\ Sandboxed(s, a)
  <2>1. Reply(s, OkResp) /\ curDir' = [curDir EXCEPT ![s] = a]
        /\ UNCHANGED <<dirs, files>> /\ FsUnchanged
    BY <1>2 DEF Cd
  <2> QED BY <1>1, <2>1, FsStepIInv DEF IInv, TypeOK, Locations, Responses
<1>3. CASE ~(state[s] = "READY" /\ IsDir(a) /\ Sandboxed(s, a))
  <2>1. \E r \in Responses : Respond(s, r)
    BY <1>3 DEF Cd, Responses
  <2> QED BY <1>1, <2>1, RespondIInv
<1> QED BY <1>2, <1>3

LEMMA MkdirIInv ==
  ASSUME IInv, NEW s \in Sessions, NEW a \in PathArgs, Mkdir(s, a)
  PROVE  IInv'
<1>1. event' \in Events
  BY ServingEvent DEF Mkdir
<1>2. dirs \subseteq Seq(STRING) /\ files \subseteq Seq(STRING) /\ dbFile \in Seq(Entry)
  BY DEF IInv, TypeOK, Locations
<1> DEFINE passed == state[s] = "READY" /\ ~IsEmpty(a) /\ ~IsDir(a) /\ Sandboxed(s, a)
<1>3. CASE ~passed
  <2>1. \E r \in Responses : Respond(s, r)
    BY <1>3 DEF Mkdir, Responses
  <2> QED BY <1>1, <2>1, RespondIInv
<1>4. CASE passed /\ CreateDirectoriesThrows(files, Loc(a))
  BY <1>1, <1>2, <1>4, CrashIInv DEF Mkdir
<1>5. CASE passed /\ ~CreateDirectoriesThrows(files, Loc(a))
  <2>1. Reply(s, OkResp) /\ dirs' = CreateDirectories(dirs, Loc(a))
        /\ UNCHANGED <<files, curDir>> /\ FsUnchanged
    BY <1>5 DEF Mkdir
  <2>2. CreateDirectories(dirs, Loc(a)) \subseteq Seq(STRING)
    BY <1>2, LocType, CreateDirectoriesType
  <2> QED BY <1>1, <1>2, <2>1, <2>2, FsStepIInv DEF IInv, TypeOK, Responses
<1> QED BY <1>3, <1>4, <1>5

LEMMA RmdirIInv ==
  ASSUME IInv, NEW s \in Sessions, NEW a \in PathArgs, Rmdir(s, a)
  PROVE  IInv'
<1>1. event' \in Events
  BY ServingEvent DEF Rmdir
<1>2. dirs \subseteq Seq(STRING) /\ files \subseteq Seq(STRING) /\ dbFile \in Seq(Entry)
  BY DEF IInv, TypeOK, Locations
<1>3. /\ RemoveAll(dirs, Loc(a)) \subseteq Seq(STRING)
      /\ RemoveAll(files, Loc(a)) \subseteq Seq(STRING)
      /\ <<>> \in Seq(STRING)
  BY <1>2, EmptySeq DEF RemoveAll
<1> DEFINE passed == state[s] = "READY" /\ ~IsEmpty(a) /\ IsDir(a) /\ Sandboxed(s, a)
<1>4. CASE ~passed
  <2>1. \E r \in Responses : Respond(s, r)
    BY <1>4 DEF Rmdir, Responses
  <2> QED BY <1>1, <2>1, RespondIInv
<1>5. CASE passed /\ RemoveAllThrows(Loc(a))
  <2>1. Crash(RemoveAll(dirs, Loc(a)) \cup {<<>>}, RemoveAll(files, Loc(a)), dbFile)
    BY <1>5 DEF Rmdir
  <2> QED BY <1>1, <1>2, <1>3, <2>1, CrashIInv
<1>6. CASE passed /\ ~RemoveAllThrows(Loc(a))
  <2>1. Reply(s, OkResp) /\ dirs' = RemoveAll(dirs, Loc(a))
        /\ files' = RemoveAll(files, Loc(a)) /\ UNCHANGED curDir /\ FsUnchanged
    BY <1>6 DEF Rmdir
  <2> QED BY <1>1, <1>3, <2>1, FsStepIInv DEF IInv, TypeOK, Responses
<1> QED BY <1>4, <1>5, <1>6

LEMMA TwoPathCheckType ==
  ASSUME NEW s \in Sessions, NEW a, NEW b
  PROVE  TwoPathCheck(s, a, b) \in Responses
BY DEF TwoPathCheck, Responses

LEMMA MoveIInv ==
  ASSUME IInv, NEW s \in Sessions, NEW a \in PathArgs, NEW b \in PathArgs, Move(s, a, b)
  PROVE  IInv'
<1> DEFINE src == Loc(a)
           dst == Loc(b)
           out == files \cup {dst}
<1>1. event' \in Events
  BY ServingEvent DEF Move
<1>2. /\ dirs \subseteq Seq(STRING) /\ files \subseteq Seq(STRING)
      /\ src \in Seq(STRING) /\ dst \in Seq(STRING)
  BY LocType DEF IInv, TypeOK, Locations
<1>3. CASE TwoPathCheck(s, a, b) # OkResp
  <2>1. Respond(s, TwoPathCheck(s, a, b))
    BY <1>3 DEF Move
  <2> QED BY <1>1, <2>1, TwoPathCheckType, RespondIInv
<1>4. CASE TwoPathCheck(s, a, b) = OkResp /\ RenameOk(dirs, files, src, dst)
  <2>1. Reply(s, OkResp) /\ dirs' = Reroot(dirs, src, dst)
        /\ files' = Reroot(files, src, dst) /\ UNCHANGED curDir /\ FsUnchanged
    BY <1>4 DEF Move
  <2>2. Reroot(dirs, src, dst) \subseteq Seq(STRING)
        /\ Reroot(files, src, dst) \subseteq Seq(STRING)
    BY <1>2, RerootType
  <2> QED BY <1>1, <2>1, <2>2, FsStepIInv DEF IInv, TypeOK, Responses
<1>5. CASE TwoPathCheck(s, a, b) = OkResp /\ ~RenameOk(dirs, files, src, dst)
           /\ DestOpens(dirs, dst)
  <2> DEFINE rm == SourceOpens(dirs, files, src) /\ FallbackRemoves(dirs, out, src)
  <2>1. /\ Reply(s, IF rm THEN OkResp ELSE InternalError)
        /\ dirs' = IF rm THEN dirs \ {src} ELSE dirs
        /\ files' = IF rm THEN out \ {src} ELSE out
        /\ UNCHANGED curDir /\ FsUnchanged
    BY <1>5 DEF Move
  <2>2. (IF rm THEN OkResp ELSE InternalError) \in Responses
    BY DEF Responses
  <2>3. dirs' \subseteq Seq(STRING) /\ files' \subseteq Seq(STRING)
    BY <1>2, <2>1
  <2> QED BY <1>1, <2>1, <2>2, <2>3, FsStepIInv DEF IInv, TypeOK
<1>6. CASE TwoPathCheck(s, a, b) = OkResp /\ ~RenameOk(dirs, files, src, dst)
           /\ ~DestOpens(dirs, dst)
  <2>1. Respond(s, InternalError)
    BY <1>6 DEF Move
  <2> QED BY <1>1, <2>1, RespondIInv DEF Responses
<1> QED BY <1>3, <1>4, <1>5, <1>6

LEMMA CopyIInv ==
  ASSUME IInv, NEW s \in Sessions, NEW a \in PathArgs, NEW b \in PathArgs, Copy(s, a, b)
  PROVE  IInv'
<1>1. event' \in Events
  BY ServingEvent DEF Copy
<1>2. CASE TwoPathCheck(s, a, b) # OkResp
  <2>1. Respond(s, TwoPathCheck(s, a, b))
    BY <1>2 DEF Copy
  <2> QED BY <1>1, <2>1, TwoPathCheckType, RespondIInv
<1>3. CASE TwoPathCheck(s, a, b) = OkResp /\ CopyFileOk(dirs, files, Loc(a), Loc(b))
  <2>1. Reply(s, OkResp) /\ files' = files \cup {Loc(b)}
        /\ UNCHANGED <<dirs, curDir>> /\ FsUnchanged
    BY <1>3 DEF Copy
  <2> QED BY <1>1, <2>1, LocType, FsStepIInv DEF IInv, TypeOK, Locations, Responses
<1>4. CASE TwoPathCheck(s, a, b) = OkResp /\ ~CopyFileOk(dirs, files, Loc(a), Loc(b))
  <2>1. Respond(s, InternalError)
    BY <1>4 DEF Copy
  <2> QED BY <1>1, <2>1, RespondIInv DEF Responses
<1> QED BY <1>2, <1>3, <1>4

LEMMA ResetIInv ==
  ASSUME IInv, NEW s \in Sessions, ResetSession(s), event' \in Events,
         conn' \in [Sessions -> BOOLEAN], UNCHANGED <<procVars, diskVars>>
  PROVE  IInv'
<1>1. EmptyPath \in DirValues /\ NoResp \in Responses
  BY DEF DirValues, Responses
<1> QED BY <1>1 DEF ResetSession, IInv, TypeOK, DialogueNamed, States, procVars, diskVars

LEMMA ConnectIInv ==
  ASSUME IInv, NEW s \in Sessions, Connect(s) \/ Disconnect(s)
  PROVE  IInv'
<1>1. event' \in Events
  BY DEF Connect, Disconnect, Events
<1>2. conn' \in [Sessions -> BOOLEAN]
  BY DEF Connect, Disconnect, IInv, TypeOK
<1> QED BY <1>1, <1>2, ResetIInv DEF Connect, Disconnect

LEMMA StopIInv ==
  ASSUME IInv, Stop
  PROVE  IInv'
<1>1. event' \in Events
  BY DEF Stop, Events
<1> QED BY <1>1, CrashIInv DEF Stop, IInv, TypeOK, Locations

LEMMA RestartIInv ==
  ASSUME IInv, Restart
  PROVE  IInv'
<1>1. event' \in Events
  BY DEF Restart, Events
<1>2. /\ RootDir \o <<"public">> \in Seq(STRING)
      /\ RootDir \o <<"private">> \in Seq(STRING)
  <2>1. {<<"public">>, <<"private">>} \subseteq Seq(STRING)
    BY RootNamesAssumption DEF RootNames
  <2> QED BY <2>1, UnderRootType
<1>3. dirs' \subseteq Seq(STRING) /\ files' \subseteq Seq(STRING)
  BY <1>2, UsersJsonType DEF Restart, IInv, TypeOK, Locations
<1>4. entries' \in Seq(Entry) /\ dbFile' \in Seq(Entry)
  BY EmptySeq DEF Restart, IInv, TypeOK
<1> QED BY <1>1, <1>3, <1>4 DEF Restart, IInv, TypeOK, DialogueNamed, Locations, sessVars

-----------------------------------------------------------------------------
THEOREM NextIInv == IInv /\ [Next]_vars => IInv'
<1> SUFFICES ASSUME IInv, [Next]_vars PROVE IInv'
  OBVIOUS
<1>1. CASE \E s \in Sessions :
             \/ Connect(s) \/ Disconnect(s)
             \/ \E a \in Users \cup {""} : Login(s, a)
             \/ \E p \in Passwords \cup {""} : Auth(s, p)
             \/ \E a \in Replies : NeedInput(s, a)
             \/ \E c \in Requests : Unknown(s, c) \/ Silent(s, c)
             \/ \E a \in PathArgs : List(s, a) \/ Delete(s, a) \/ Cd(s, a)
                                    \/ Mkdir(s, a) \/ Rmdir(s, a)
             \/ \E a, b \in PathArgs : Move(s, a, b) \/ Copy(s, a, b)
  BY <1>1, ConnectIInv, LoginIInv, AuthIInv, NeedInputIInv, UnknownIInv, SilentIInv,
     ListIInv, DeleteIInv, CdIInv, MkdirIInv, RmdirIInv, MoveIInv, CopyIInv
<1>2. CASE Stop
  BY <1>2, StopIInv
<1>3. CASE Restart
  BY <1>3, RestartIInv
<1>4. CASE UNCHANGED vars
  BY <1>4 DEF vars, procVars, diskVars, sessVars, IInv, TypeOK, DialogueNamed
<1> QED BY <1>1, <1>2, <1>3, <1>4 DEF Next

(***************************************************************************)
(* Type correctness of the server model: every reachable state gives each  *)
(* variable a value of its type (the Session members, the account tables,  *)
(* the host's locations), for all constants satisfying the assumptions.   *)
(***************************************************************************)
THEOREM TypeCorrect == Spec => []TypeOK
<1>1. IInv => TypeOK
  BY DEF IInv
<1> QED BY InitIInv, NextIInv, <1>1, PTL DEF Spec

-----------------------------------------------------------------------------
(***************************************************************************)
(* Unique user names.  The tables only change in login (reload), auth     *)
(* (reload, or append after user_exists said no) and at a crash or a      *)
(* restart (emptied or kept); every other handler leaves them alone.      *)
(***************************************************************************)
UInv == IInv /\ UniqueUsernames

\* Appending a record whose name the table lacks keeps names unique.
LEMMA AppendUnique ==
  ASSUME NEW L \in Seq(Entry), UniqueNames(L), NEW e \in Entry, e.username \notin Names(L)
  PROVE  UniqueNames(Append(L, e))
<1> DEFINE A == Append(L, e)
<1>1. DOMAIN A = 1..Len(L) + 1 /\ A[Len(L) + 1] = e
      /\ \A i \in 1..Len(L) : A[i] = L[i]
  BY AppendProperties
<1> SUFFICES ASSUME NEW i \in DOMAIN A, NEW j \in DOMAIN A, i # j
             PROVE  A[i].username # A[j].username
  BY DEF UniqueNames
<1>2. CASE i \in 1..Len(L) /\ j \in 1..Len(L)
  BY <1>1, <1>2 DEF UniqueNames
<1>3. CASE i = Len(L) + 1 \/ j = Len(L) + 1
  BY <1>1, <1>3 DEF Names
<1> QED BY <1>1, <1>2, <1>3

LEMMA EmptyUnique == UniqueNames(<<>>)
BY DEF UniqueNames

\* The actions that leave both tables alone or only empty the memory one.
LEMMA QuietTables ==
  ASSUME NEW s \in Sessions,
         \/ \E a \in Replies : NeedInput(s, a)
         \/ \E c \in Requests : Unknown(s, c) \/ Silent(s, c)
         \/ \E a \in PathArgs : List(s, a) \/ Delete(s, a) \/ Cd(s, a)
                                \/ Mkdir(s, a) \/ Rmdir(s, a)
         \/ \E a, b \in PathArgs : Move(s, a, b) \/ Copy(s, a, b)
         \/ Connect(s) \/ Disconnect(s)
  PROVE  dbFile' = dbFile /\ (entries' = entries \/ entries' = <<>>)
<1>1. CASE \E a \in Replies : NeedInput(s, a)
  BY <1>1 DEF NeedInput, Respond, procVars, diskVars
<1>2. CASE \E c \in Requests : Unknown(s, c) \/ Silent(s, c)
  BY <1>2 DEF Unknown, Silent, Respond, procVars, diskVars
<1>3. CASE \E a \in PathArgs : List(s, a)
  BY <1>3 DEF List, Respond, Crash, procVars, diskVars
<1>4. CASE \E a \in PathArgs : Delete(s, a) \/ Cd(s, a)
  BY <1>4 DEF Delete, Cd, Respond, FsUnchanged, procVars, diskVars
<1>5. CASE \E a \in PathArgs : Mkdir(s, a) \/ Rmdir(s, a)
  BY <1>5 DEF Mkdir, Rmdir, Respond, Crash, FsUnchanged, procVars, diskVars
<1>6. CASE \E a, b \in PathArgs : Move(s, a, b) \/ Copy(s, a, b)
  BY <1>6 DEF Move, Copy, Respond, FsUnchanged, procVars, diskVars
<1>7. CASE Connect(s) \/ Disconnect(s)
  BY <1>7 DEF Connect, Disconnect, procVars, diskVars
<1> QED BY <1>1, <1>2, <1>3, <1>4, <1>5, <1>6, <1>7

LEMMA LoadedUnique ==
  ASSUME UniqueUsernames
  PROVE  UniqueNames(Loaded)
BY DEF UniqueUsernames, Loaded

LEMMA LoginUnique ==
  ASSUME UInv, NEW s \in Sessions, NEW a \in Users \cup {""}, Login(s, a)
  PROVE  UniqueUsernames'
<1>1. dbFile' = dbFile /\ (entries' \in {entries, <<>>, Loaded})
  BY DEF Login, Respond, Crash, procVars, diskVars
<1> QED BY <1>1, LoadedUnique, EmptyUnique DEF UInv, UniqueUsernames

LEMMA AuthUnique ==
  ASSUME UInv, NEW s \in Sessions, NEW p \in Passwords \cup {""}, Auth(s, p)
  PROVE  UniqueUsernames'
<1> DEFINE u == username[s]
           new == Append(Loaded, [username |-> u, password |-> p])
<1>1. UniqueNames(Loaded) /\ UniqueNames(entries) /\ UniqueNames(dbFile)
  BY LoadedUnique DEF UInv, UniqueUsernames
<1>2. CASE state[s] = "AUTH" /\ p # "" /\ dbReady /\ ~UserExists(u)
  <2>1. [username |-> u, password |-> p] \in Entry
    BY <1>2 DEF UInv, IInv, DialogueNamed, Entry
  <2>2. Loaded \in Seq(Entry)
    BY LoadedType DEF UInv, IInv
  <2>3. UniqueNames(new)
    BY <1>1, <1>2, <2>1, <2>2, AppendUnique DEF UserExists
  <2>4. entries' \in {<<>>, new} /\ dbFile' \in {dbFile, new}
    BY <1>2 DEF Auth, Crash
  <2> QED BY <1>1, <2>3, <2>4, EmptyUnique DEF UniqueUsernames
<1>3. CASE ~(state[s] = "AUTH" /\ p # "" /\ dbReady /\ ~UserExists(u))
  <2>1. dbFile' = dbFile /\ entries' \in {entries, <<>>, Loaded}
    BY <1>3 DEF Auth, Authenticated, Respond, Crash, procVars, diskVars
  <2> QED BY <1>1, <2>1, EmptyUnique DEF UniqueUsernames
<1> QED BY <1>2, <1>3

LEMMA ProcessUnique ==
  ASSUME UInv, Stop \/ Restart
  PROVE  UniqueUsernames'
<1>1. entries' = <<>> /\ dbFile' \in {dbFile, <<>>}
  BY DEF Stop, Restart, Crash
<1> QED BY <1>1, EmptyUnique DEF UInv, UniqueUsernames

THEOREM NextUInv == UInv /\ [Next]_vars => UInv'
<1> SUFFICES ASSUME UInv, [Next]_vars PROVE UInv'
  OBVIOUS
<1>1. IInv'
  BY NextIInv DEF UInv
<1>2. UniqueNames(entries) /\ UniqueNames(dbFile)
  BY DEF UInv, UniqueUsernames
<1>3. UniqueUsernames'
  <2>1. CASE \E s \in Sessions :
               \/ \E a \in Replies : NeedInput(s, a)
               \/ \E c \in Requests : Unknown(s, c) \/ Silent(s, c)
               \/ \E a \in PathArgs : List(s, a) \/ Delete(s, a) \/ Cd(s, a)
                                      \/ Mkdir(s, a) \/ Rmdir(s, a)
               \/ \E a, b \in PathArgs : Move(s, a, b) \/ Copy(s, a, b)
               \/ Connect(s) \/ Disconnect(s)
    <3>1. dbFile' = dbFile /\ (entries' = entries \/ entries' = <<>>)
      BY <2>1, QuietTables
    <3> QED BY <1>2, <3>1, EmptyUnique DEF UniqueUsernames
  <2>2. CASE \E s \in Sessions : \E a \in Users \cup {""} : Login(s, a)
    BY <2>2, LoginUnique
  <2>3. CASE \E s \in Sessions : \E p \in Passwords \cup {""} : Auth(s, p)
    BY <2>3, AuthUnique
  <2>4. CASE Stop \/ Restart
    BY <2>4, ProcessUnique
  <2>5. CASE UNCHANGED vars
    BY <1>2, <2>5 DEF vars, procVars, diskVars, UniqueUsernames
  <2> QED BY <2>1, <2>2, <2>3, <2>4, <2>5 DEF Next
<1> QED BY <1>1, <1>3 DEF UInv

(***************************************************************************)
(* No user name is ever stored twice, in memory or in users.json, however *)
(* the registration dialogues of several sessions interleave, across      *)
(* crashes and restarts: Session::auth re-runs user_exists in the same    *)
(* handler as add_user.                                                    *)
(***************************************************************************)
THEOREM UniqueNamesHold == Spec => []UniqueUsernames
<1>1. Init => UInv
  BY InitIInv, EmptyUnique DEF Init, UInv, UniqueUsernames
<1>2. UInv => UniqueUsernames
  BY DEF UInv
<1> QED BY <1>1, <1>2, NextUInv, PTL DEF Spec

=============================================================================
