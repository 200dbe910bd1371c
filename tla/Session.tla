------------------------------- MODULE Session -------------------------------
(***************************************************************************)
(* The server of minidrive: one process running a single asio event loop  *)
(* (server/src/main.cpp), a Session object per accepted connection         *)
(* (server/src/session.cpp) and one Database object shared by all of them  *)
(* (server/src/database.cpp), over the host filesystem.                    *)
(*                                                                         *)
(* Every handler runs to completion inside one callback of the loop, so a *)
(* request is one atomic step: the whole handler, its Database calls       *)
(* (load, search, append, save) and its filesystem calls included.         *)
(* Sessions interleave freely between steps.  The client is arbitrary: it  *)
(* may send any command with any argument from small sets.                 *)
(*                                                                         *)
(* An exception that escapes a handler, or a null db_ dereference, ends    *)
(* io_context.run() and the process: every session is gone, the disk      *)
(* stays.  An operator may then start the server again.                   *)
(***************************************************************************)
EXTENDS Naturals, Sequences, SequencesExt, FsUtils

CONSTANTS
  Sessions,     \* connection slots (model values)
  Users,        \* user names a client may log in with (non-empty)
  Passwords,    \* passwords a client may send (non-empty)
  PathArgs,     \* path arguments a client may send, as path records
  RootDir,      \* the --root directory, as a normal absolute location
  Cwd,          \* the working directory of the server process
  InitDirs,     \* directories of the host before the first start
  InitFiles,    \* regular files of the host before the first start
  Dispatched,   \* the command names Session::requests_ maps to a handler
  Requests,     \* the command names a client may send
  NoSession     \* model value: an event of no session

FsCommands   == {"LIST", "DELETE", "CD", "MKDIR", "RMDIR", "MOVE", "COPY"}
SilentCmds   == {"EXIT", "UPLOAD", "DOWNLOAD", "SYNC"}
\* The table built in Session::Session (session.cpp lines 20-33).
CodeTable    == FsCommands \cup SilentCmds \cup {"LOGIN"}
\* The commands whose handlers session.cpp defines, AUTH and NEED_INPUT too.
HandlerTable == CodeTable \cup {"AUTH", "NEED_INPUT"}

Replies == {"Y", "n", "maybe"}   \* free-form answers to "register? (Y/n)"

UsersJson == RootDir \o <<"users.json">>

\* The names the server gives to the entries of its root.
RootNames == {"public", "private", "files", ".partial", "users.json"}

ASSUME RootNamesAssumption == RootNames \subseteq STRING

ASSUME ConstantsAssumption ==
  /\ Users \subseteq STRING \ {""}
  /\ Passwords \subseteq STRING \ {""}
  /\ RootDir \in Seq(STRING) /\ RootDir # <<>>
  /\ Cwd \in Seq(STRING)
  /\ PathArgs \subseteq Path(STRING)
  /\ EmptyPath \in PathArgs
  /\ \A a \in PathArgs : Resolve(Cwd, a) \in Seq(STRING)
  /\ \A a \in PathArgs : Resolve(Cwd, a) # UsersJson
  /\ InitDirs \subseteq Seq(STRING) /\ InitFiles \subseteq Seq(STRING)
  /\ PathPrefixes(RootDir) \cup PathPrefixes(Cwd) \cup {<<>>} \subseteq InitDirs
  /\ InitDirs \cap InitFiles = {}
  /\ UsersJson \notin InitDirs \cup InitFiles
  /\ Dispatched \subseteq HandlerTable
  /\ Dispatched \subseteq Requests
  /\ NoSession \notin Sessions

-----------------------------------------------------------------------------
States == {"LOGIN", "AUTH", "NEED_INPUT_REGISTER", "READY"}

Resp(st, c) == [status |-> st, code |-> c]
NoResp             == Resp("NONE", 0)
OkResp             == Resp("OK", 200)
BadRequest         == Resp("ERROR", 400)
Forbidden          == Resp("ERROR", 403)
PreconditionFailed == Resp("ERROR", 412)
InternalError      == Resp("ERROR", 500)
Unavailable        == Resp("ERROR", 503)
AuthAsk            == Resp("AUTH", 401)
AuthEmpty          == Resp("AUTH", 400)
RegisterAsk        == Resp("NEED_INPUT", 401)
Responses == {NoResp, OkResp, BadRequest, Forbidden, PreconditionFailed,
              InternalError, Unavailable, AuthAsk, AuthEmpty, RegisterAsk}

Entry == [username : Users, password : Passwords]

\* user_dir_ as login/need_input and setup_dir compute it.
PublicDir     == Relative([abs |-> TRUE, segs |-> <<"public", "files">>], RootDir)
PrivateDir(u) == Relative([abs |-> TRUE, segs |-> <<"private", u, "files">>], RootDir)
DirValues == {EmptyPath, PublicDir} \cup {PrivateDir(u) : u \in Users}

Events == [sess : Sessions \cup {NoSession},
           cmd  : Requests \cup {"CONNECT", "DISCONNECT", "STOP", "RESTART"}]

VARIABLES
  up,        \* the server process is running
  dbReady,   \* Server::db_ points to a Database (it is null otherwise)
  entries,   \* Database::entries_, the in-memory account table
  dbFile,    \* the account table as users.json holds it
  dirs,      \* directories of the host
  files,     \* regular files of the host
  conn,      \* conn[s]: a Session object is live for slot s
  state,     \* Session::state_
  username,  \* Session::username_
  userDir,   \* Session::user_dir_
  curDir,    \* Session::current_dir_
  resp,      \* the response written for the last request of s (NoResp: none)
  authPw,    \* auxiliary: the password with which s passed AUTH ("" if none)
  event      \* auxiliary: the session and command of the last step

procVars == <<up, dbReady, entries>>
diskVars == <<dbFile, dirs, files>>
sessVars == <<conn, state, username, userDir, curDir, resp, authPw>>
vars == <<procVars, diskVars, sessVars, event>>

-----------------------------------------------------------------------------
(***************************************************************************)
(* Database (database.cpp).  load() rereads users.json when it exists and *)
(* otherwise keeps the table in memory; save() writes users.json.tmp in   *)
(* the root and renames it over users.json, and throws when the file      *)
(* cannot be opened.  Passwords are stored as their hash; the hash is     *)
(* abstracted as the password itself.                                      *)
(***************************************************************************)
Loaded == IF UsersJson \in files THEN dbFile ELSE entries

Names(es) == {es[i].username : i \in DOMAIN es}

\* Variant of UserExists that compares the name with the wrong field.
UserExistsByPassword(u) == \E i \in DOMAIN Loaded : Loaded[i].password = u

UserExists(u) == u \in Names(Loaded)

\* Variant of ValidateUser that forgets to compare the password.
ValidateUserByName(u, p) == u \in Names(Loaded)

ValidateUser(u, p) == \E i \in DOMAIN Loaded : Loaded[i] = [username |-> u, password |-> p]

SaveOk == RootDir \in dirs

\* Session::setup_dir: the private tree of u, created with create_directories.
PrivateBase(u) == RootDir \o <<"private", u>>
SetupDirThrows(u) ==
  \/ CreateDirectoriesThrows(files, PrivateBase(u) \o <<"files">>)
  \/ CreateDirectoriesThrows(files, PrivateBase(u) \o <<".partial">>)
SetupDirs(u) == CreateDirectories(CreateDirectories(dirs, PrivateBase(u) \o <<"files">>),
                                  PrivateBase(u) \o <<".partial">>)
\* The directories setup_dir leaves when it throws: "files" is created
\* before ".partial", so a throw on ".partial" leaves it behind.
SetupDirCrashDirs(u) ==
  IF CreateDirectoriesThrows(files, PrivateBase(u) \o <<"files">>) THEN dirs
  ELSE CreateDirectories(dirs, PrivateBase(u) \o <<"files">>)

\* The arguments of the filesystem helpers.
IsDir(a)  == IsDirectory(Cwd, dirs, a)
IsReg(a)  == IsFile(Cwd, files, a)
Loc(a)    == Resolve(Cwd, a)
\* The call fsutils::is_subpath(user_dir_, arg) every handler makes.
Sandboxed(s, a) == IsSubpath(Cwd, dirs, files, userDir[s], a)

-----------------------------------------------------------------------------
Init ==
  /\ up = TRUE
  /\ dbReady = TRUE
  /\ entries = <<>>
  /\ dbFile = <<>>
  /\ dirs = InitDirs \cup {RootDir \o <<"public">>, RootDir \o <<"private">>}
  /\ files = InitFiles \cup {UsersJson}
  /\ conn = [s \in Sessions |-> FALSE]
  /\ state = [s \in Sessions |-> "LOGIN"]
  /\ username = [s \in Sessions |-> ""]
  /\ userDir = [s \in Sessions |-> EmptyPath]
  /\ curDir = [s \in Sessions |-> EmptyPath]
  /\ resp = [s \in Sessions |-> NoResp]
  /\ authPw = [s \in Sessions |-> ""]
  /\ event = [sess |-> NoSession, cmd |-> "RESTART"]

\* The process ends: sessions and memory are lost, the disk is d, f, db.
Crash(d, f, db) ==
  /\ up' = FALSE /\ dbReady' = FALSE /\ entries' = <<>>
  /\ dirs' = d /\ files' = f /\ dbFile' = db
  /\ conn' = [s \in Sessions |-> FALSE]
  /\ state' = [s \in Sessions |-> "LOGIN"]
  /\ username' = [s \in Sessions |-> ""]
  /\ userDir' = [s \in Sessions |-> EmptyPath]
  /\ curDir' = [s \in Sessions |-> EmptyPath]
  /\ resp' = [s \in Sessions |-> NoResp]
  /\ authPw' = [s \in Sessions |-> ""]

\* A request with command c of session s is read and dispatched.
Serving(s, c) ==
  /\ up /\ conn[s]
  /\ c \in Requests
  /\ event' = [sess |-> s, cmd |-> c]

Reply(s, r) == resp' = [resp EXCEPT ![s] = r]

\* Only the response changes.
Respond(s, r) ==
  /\ Reply(s, r)
  /\ UNCHANGED <<procVars, diskVars, conn, state, username, userDir, curDir, authPw>>

\* The session ends READY in sandbox d with response r.
GoReady(s, d, r) ==
  /\ Reply(s, r)
  /\ state' = [state EXCEPT ![s] = "READY"]
  /\ userDir' = [userDir EXCEPT ![s] = d]
  /\ curDir' = [curDir EXCEPT ![s] = d]

-----------------------------------------------------------------------------
\* Variant of Login without its state check.
LoginAnyState(s, a) ==
  /\ Serving(s, "LOGIN") /\ "LOGIN" \in Dispatched
  /\ IF a = "" THEN
            /\ GoReady(s, PublicDir, OkResp)
            /\ username' = [username EXCEPT ![s] = ""]
            /\ UNCHANGED <<procVars, diskVars, conn, authPw>>
       ELSE IF ~dbReady THEN Crash(dirs, files, dbFile)
       ELSE
            /\ Reply(s, IF UserExists(a) THEN AuthAsk ELSE RegisterAsk)
            /\ state' = [state EXCEPT ![s] = IF UserExists(a) THEN "AUTH"
                                              ELSE "NEED_INPUT_REGISTER"]
            /\ username' = [username EXCEPT ![s] = a]
            /\ entries' = Loaded
            /\ UNCHANGED <<up, dbReady, diskVars, conn, userDir, curDir, authPw>>

(***************************************************************************)
(* Session::login (session.cpp 118-175).                                   *)
(***************************************************************************)
Login(s, a) ==
  /\ Serving(s, "LOGIN") /\ "LOGIN" \in Dispatched
  /\ IF state[s] # "LOGIN" THEN
            Respond(s, Unavailable)
       ELSE IF a = "" THEN
            /\ GoReady(s, PublicDir, OkResp)
            /\ username' = [username EXCEPT ![s] = ""]
            /\ UNCHANGED <<procVars, diskVars, conn, authPw>>
       ELSE IF ~dbReady THEN
            Crash(dirs, files, dbFile)
       ELSE
            /\ Reply(s, IF UserExists(a) THEN AuthAsk ELSE RegisterAsk)
            /\ state' = [state EXCEPT ![s] = IF UserExists(a) THEN "AUTH"
                                              ELSE "NEED_INPUT_REGISTER"]
            /\ username' = [username EXCEPT ![s] = a]
            /\ entries' = Loaded
            /\ UNCHANGED <<up, dbReady, diskVars, conn, userDir, curDir, authPw>>

(***************************************************************************)
(* Session::auth (session.cpp 193-259), with Database::user_exists,        *)
(* validate_user, add_user and Session::setup_dir (177-192).               *)
(***************************************************************************)
Authenticated(s, p) ==
  /\ GoReady(s, PrivateDir(username[s]), OkResp)
  /\ dirs' = SetupDirs(username[s])
  /\ authPw' = [authPw EXCEPT ![s] = p]
  /\ UNCHANGED <<up, dbReady, conn, username>>

Auth(s, p) ==
  LET u   == username[s]
      new == Append(Loaded, [username |-> u, password |-> p])
  IN
  /\ Serving(s, "AUTH") /\ "AUTH" \in Dispatched
  /\ IF state[s] # "AUTH" THEN
            Respond(s, Unavailable)
       ELSE IF p = "" THEN
            Respond(s, AuthEmpty)
       ELSE IF ~dbReady THEN
            Crash(dirs, files, dbFile)
       ELSE IF UserExists(u) /\ ~ValidateUser(u, p) THEN
            /\ Reply(s, AuthAsk)
            /\ entries' = Loaded
            /\ UNCHANGED <<up, dbReady, diskVars, conn, state, username, userDir, curDir, authPw>>
       ELSE IF UserExists(u) /\ SetupDirThrows(u) THEN
            Crash(SetupDirCrashDirs(u), files, dbFile)
       ELSE IF UserExists(u) THEN
            /\ Authenticated(s, p)
            /\ entries' = Loaded
            /\ UNCHANGED <<dbFile, files>>
       ELSE IF ~SaveOk THEN
            Crash(dirs, files, dbFile)
       ELSE IF SetupDirThrows(u) THEN
            Crash(SetupDirCrashDirs(u), files \cup {UsersJson}, new)
       ELSE
            /\ Authenticated(s, p)
            /\ entries' = new
            /\ dbFile' = new
            /\ files' = files \cup {UsersJson}

(***************************************************************************)
(* Session::need_input (session.cpp 260-319).  NEED_INPUT_RESUME_UPDATE is *)
(* never assigned, so its empty branch is unreachable.                     *)
(***************************************************************************)
NeedInput(s, a) ==
  /\ Serving(s, "NEED_INPUT") /\ "NEED_INPUT" \in Dispatched
  /\ IF state[s] # "NEED_INPUT_REGISTER" THEN
            Respond(s, Unavailable)
       ELSE IF a = "Y" THEN
            /\ Reply(s, AuthAsk)
            /\ state' = [state EXCEPT ![s] = "AUTH"]
            /\ UNCHANGED <<procVars, diskVars, conn, username, userDir, curDir, authPw>>
       ELSE IF a = "n" THEN
            /\ GoReady(s, PublicDir, OkResp)
            /\ UNCHANGED <<procVars, diskVars, conn, username, authPw>>
       ELSE
            Respond(s, BadRequest)

\* Variant of Unknown that answers with a code the protocol keeps for
\* missing files (codes.hpp NOT_FOUND).
UnknownNotFound(s, c) ==
  /\ Serving(s, c) /\ c \notin Dispatched
  /\ Respond(s, Resp("ERROR", 404))

(***************************************************************************)
(* Session::handle_request (session.cpp 80-98): a command with no entry in *)
(* requests_ is answered "Unknown request".                                *)
(***************************************************************************)
Unknown(s, c) ==
  /\ Serving(s, c) /\ c \notin Dispatched
  /\ Respond(s, BadRequest)

\* exit, upload, download and sync have empty bodies: no response at all.
Silent(s, c) ==
  /\ Serving(s, c) /\ c \in SilentCmds \cap Dispatched
  /\ Respond(s, NoResp)

-----------------------------------------------------------------------------
(***************************************************************************)
(* The filesystem commands.  Each checks in the order of the code; the    *)
(* first failing check answers and the handler returns.                    *)
(***************************************************************************)
FsUnchanged == UNCHANGED <<procVars, dbFile, conn, state, username, userDir, authPw>>

\* Session::list (session.cpp 323-393): scan_directory throws when the
\* directory is missing.
List(s, a) ==
  /\ Serving(s, "LIST") /\ "LIST" \in Dispatched
  /\ IF state[s] # "READY" THEN Respond(s, Unavailable)
       ELSE IF IsEmpty(a) /\ ~IsDir(curDir[s]) THEN Crash(dirs, files, dbFile)
       ELSE IF IsEmpty(a) THEN Respond(s, OkResp)
       ELSE IF ~IsDir(a) THEN Respond(s, BadRequest)
       ELSE IF ~Sandboxed(s, a) THEN Respond(s, Forbidden)
       ELSE Respond(s, OkResp)

\* Session::delete_file (session.cpp 394-452).
Delete(s, a) ==
  /\ Serving(s, "DELETE") /\ "DELETE" \in Dispatched
  /\ IF state[s] # "READY" THEN Respond(s, Unavailable)
       ELSE IF ~IsReg(a) THEN Respond(s, BadRequest)
       ELSE IF ~Sandboxed(s, a) THEN Respond(s, Forbidden)
       ELSE
            /\ Reply(s, OkResp)
            /\ files' = files \ {Loc(a)}
            /\ UNCHANGED <<dirs, curDir>> /\ FsUnchanged

\* Session::cd (session.cpp 460-507).
Cd(s, a) ==
  /\ Serving(s, "CD") /\ "CD" \in Dispatched
  /\ IF state[s] # "READY" THEN Respond(s, Unavailable)
       ELSE IF ~IsDir(a) THEN Respond(s, BadRequest)
       ELSE IF ~Sandboxed(s, a) THEN Respond(s, Forbidden)
       ELSE
            /\ Reply(s, OkResp)
            /\ curDir' = [curDir EXCEPT ![s] = a]
            /\ UNCHANGED <<dirs, files>> /\ FsUnchanged

\* Variant of Mkdir that creates the directory before the sandbox check.
MkdirCreateFirst(s, a) ==
  /\ Serving(s, "MKDIR") /\ "MKDIR" \in Dispatched
  /\ IF state[s] # "READY" THEN Respond(s, Unavailable)
       ELSE IF IsEmpty(a) THEN Respond(s, BadRequest)
       ELSE IF IsDir(a) THEN Respond(s, PreconditionFailed)
       ELSE IF CreateDirectoriesThrows(files, Loc(a)) THEN Crash(dirs, files, dbFile)
       ELSE
            /\ Reply(s, IF Sandboxed(s, a) THEN OkResp ELSE Forbidden)
            /\ dirs' = CreateDirectories(dirs, Loc(a))
            /\ UNCHANGED <<files, curDir>> /\ FsUnchanged

\* Session::mkdir (session.cpp 508-578).
Mkdir(s, a) ==
  /\ Serving(s, "MKDIR") /\ "MKDIR" \in Dispatched
  /\ IF state[s] # "READY" THEN Respond(s, Unavailable)
       ELSE IF IsEmpty(a) THEN Respond(s, BadRequest)
       ELSE IF IsDir(a) THEN Respond(s, PreconditionFailed)
       ELSE IF ~Sandboxed(s, a) THEN Respond(s, Forbidden)
       ELSE IF CreateDirectoriesThrows(files, Loc(a)) THEN Crash(dirs, files, dbFile)
       ELSE
            /\ Reply(s, OkResp)
            /\ dirs' = CreateDirectories(dirs, Loc(a))
            /\ UNCHANGED <<files, curDir>> /\ FsUnchanged

\* Session::rmdir (session.cpp 579-649).
Rmdir(s, a) ==
  /\ Serving(s, "RMDIR") /\ "RMDIR" \in Dispatched
  /\ IF state[s] # "READY" THEN Respond(s, Unavailable)
       ELSE IF IsEmpty(a) THEN Respond(s, BadRequest)
       ELSE IF ~IsDir(a) THEN Respond(s, BadRequest)
       ELSE IF ~Sandboxed(s, a) THEN Respond(s, Forbidden)
       ELSE IF RemoveAllThrows(Loc(a)) THEN
            Crash(RemoveAll(dirs, Loc(a)) \cup {<<>>}, RemoveAll(files, Loc(a)), dbFile)
       ELSE
            /\ Reply(s, OkResp)
            /\ dirs' = RemoveAll(dirs, Loc(a))
            /\ files' = RemoveAll(files, Loc(a))
            /\ UNCHANGED curDir /\ FsUnchanged

\* The checks move and copy share (session.cpp 651-702 and 726-777); the
\* conflict check tests the destination against itself.
TwoPathCheck(s, a, b) ==
  IF state[s] # "READY" THEN Unavailable
    ELSE IF IsEmpty(a) \/ IsEmpty(b) THEN BadRequest
    ELSE IF (IsDir(b) /\ IsDir(b)) \/ (IsReg(b) /\ IsReg(b)) THEN PreconditionFailed
    ELSE IF ~Sandboxed(s, a) \/ ~Sandboxed(s, b) THEN Forbidden
    ELSE OkResp

\* Session::move (session.cpp 650-724) with fsutils::move_file.
Move(s, a, b) ==
  LET src == Loc(a)
      dst == Loc(b)
      out == files \cup {dst}
      moved == SourceOpens(dirs, files, src) /\ FallbackRemoves(dirs, out, src)
  IN
  /\ Serving(s, "MOVE") /\ "MOVE" \in Dispatched
  /\ IF TwoPathCheck(s, a, b) # OkResp THEN Respond(s, TwoPathCheck(s, a, b))
       ELSE IF RenameOk(dirs, files, src, dst) THEN
            /\ Reply(s, OkResp)
            /\ dirs' = Reroot(dirs, src, dst)
            /\ files' = Reroot(files, src, dst)
            /\ UNCHANGED curDir /\ FsUnchanged
       ELSE IF DestOpens(dirs, dst) THEN
            /\ Reply(s, IF moved THEN OkResp ELSE InternalError)
            /\ dirs' = IF moved THEN dirs \ {src} ELSE dirs
            /\ files' = IF moved THEN out \ {src} ELSE out
            /\ UNCHANGED curDir /\ FsUnchanged
       ELSE Respond(s, InternalError)

\* Session::copy (session.cpp 725-799) with fsutils::copy_file.
Copy(s, a, b) ==
  /\ Serving(s, "COPY") /\ "COPY" \in Dispatched
  /\ IF TwoPathCheck(s, a, b) # OkResp THEN Respond(s, TwoPathCheck(s, a, b))
       ELSE IF CopyFileOk(dirs, files, Loc(a), Loc(b)) THEN
            /\ Reply(s, OkResp)
            /\ files' = files \cup {Loc(b)}
            /\ UNCHANGED <<dirs, curDir>> /\ FsUnchanged
       ELSE Respond(s, InternalError)

-----------------------------------------------------------------------------
(***************************************************************************)
(* Connections and the process (server.cpp, main.cpp).                     *)
(***************************************************************************)
ResetSession(s) ==
  /\ state' = [state EXCEPT ![s] = "LOGIN"]
  /\ username' = [username EXCEPT ![s] = ""]
  /\ userDir' = [userDir EXCEPT ![s] = EmptyPath]
  /\ curDir' = [curDir EXCEPT ![s] = EmptyPath]
  /\ resp' = [resp EXCEPT ![s] = NoResp]
  /\ authPw' = [authPw EXCEPT ![s] = ""]

\* Server::accept: a new Session starts in LOGIN.
Connect(s) ==
  /\ up /\ ~conn[s]
  /\ conn' = [conn EXCEPT ![s] = TRUE]
  /\ ResetSession(s)
  /\ event' = [sess |-> s, cmd |-> "CONNECT"]
  /\ UNCHANGED <<procVars, diskVars>>

\* The peer closes: the pending read fails, handle_error runs and the last
\* reference to the Session goes.
Disconnect(s) ==
  /\ up /\ conn[s]
  /\ conn' = [conn EXCEPT ![s] = FALSE]
  /\ ResetSession(s)
  /\ event' = [sess |-> s, cmd |-> "DISCONNECT"]
  /\ UNCHANGED <<procVars, diskVars>>

\* The operator stops the process.
Stop ==
  /\ up
  /\ Crash(dirs, files, dbFile)
  /\ event' = [sess |-> NoSession, cmd |-> "STOP"]

(***************************************************************************)
(* main + Server::setup_root_directory (server.cpp 30-45): the root must  *)
(* exist; db_ is only created when users.json is not yet a file, and then  *)
(* the Database constructor saves an empty table.                          *)
(***************************************************************************)
Restart ==
  /\ ~up /\ RootDir \in dirs
  /\ ~CreateDirectoriesThrows(files, RootDir \o <<"public">>)
  /\ ~CreateDirectoriesThrows(files, RootDir \o <<"private">>)
  /\ up' = TRUE
  /\ dbReady' = (UsersJson \notin files)
  /\ entries' = <<>>
  /\ dbFile' = IF UsersJson \notin files THEN <<>> ELSE dbFile
  /\ files' = files \cup {UsersJson}
  /\ dirs' = dirs \cup {RootDir \o <<"public">>, RootDir \o <<"private">>}
  /\ event' = [sess |-> NoSession, cmd |-> "RESTART"]
  /\ UNCHANGED sessVars

Next ==
  \/ \E s \in Sessions :
       \/ Connect(s) \/ Disconnect(s)
       \/ \E a \in Users \cup {""} : Login(s, a)
       \/ \E p \in Passwords \cup {""} : Auth(s, p)
       \/ \E a \in Replies : NeedInput(s, a)
       \/ \E c \in Requests : Unknown(s, c) \/ Silent(s, c)
       \/ \E a \in PathArgs : List(s, a) \/ Delete(s, a) \/ Cd(s, a)
                              \/ Mkdir(s, a) \/ Rmdir(s, a)
       \/ \E a, b \in PathArgs : Move(s, a, b) \/ Copy(s, a, b)
  \/ Stop
  \/ Restart

Spec == Init /\ [][Next]_vars

-----------------------------------------------------------------------------
(***************************************************************************)
(* Properties.                                                             *)
(***************************************************************************)
Locations == Seq(STRING)

TypeOK ==
  /\ up \in BOOLEAN /\ dbReady \in BOOLEAN
  /\ entries \in Seq(Entry) /\ dbFile \in Seq(Entry)
  /\ dirs \subseteq Locations /\ files \subseteq Locations
  /\ conn \in [Sessions -> BOOLEAN]
  /\ state \in [Sessions -> States]
  /\ username \in [Sessions -> Users \cup {""}]
  /\ userDir \in [Sessions -> DirValues]
  /\ curDir \in [Sessions -> DirValues \cup PathArgs]
  /\ resp \in [Sessions -> Responses]
  /\ authPw \in [Sessions -> Passwords \cup {""}]
  /\ event \in Events

UniqueNames(es) ==
  \A i, j \in DOMAIN es : i # j => es[i].username # es[j].username

(***************************************************************************)
(* No user name is stored twice, in Database::entries_ or in users.json.   *)
(* Two sessions may both be told "User does not exist" for the same name   *)
(* and both answer "Y"; Session::auth must not trust that earlier answer  *)
(* and append a second record, or validate_user would accept either       *)
(* password.                                                               *)
(***************************************************************************)
UniqueUsernames == UniqueNames(entries) /\ UniqueNames(dbFile)

(***************************************************************************)
(* A session that passed AUTH holds the password that is stored for its   *)
(* user in the table the server consults now (users.json when it exists): *)
(* Session::auth lets a session in only with the stored password, or      *)
(* after add_user has saved that password.                                *)
(***************************************************************************)
AuthenticatedHasCredential ==
  \A s \in Sessions :
    conn[s] /\ state[s] = "READY" /\ authPw[s] # "" =>
      \E i \in DOMAIN Loaded :
        Loaded[i] = [username |-> username[s], password |-> authPw[s]]

\* The table es holds the record e; the record session s passed AUTH with.
Holds(es, e) == \E i \in DOMAIN es : es[i] = e
Cred(s) == [username |-> username[s], password |-> authPw[s]]

(***************************************************************************)
(* Where the credentials live.  Every record of Database::entries_ is also *)
(* in users.json's table (entries_ only ever becomes a copy of users.json, *)
(* or is appended to and saved in the same step), a session that passed    *)
(* AUTH is READY and its record is in entries_, and no session has passed  *)
(* AUTH while the process is down.  This is what makes                     *)
(* AuthenticatedHasCredential survive a users.json that disappears (the    *)
(* table falls back to entries_) and the reloads of other sessions.       *)
(***************************************************************************)
CredentialsStored ==
  /\ \A i \in DOMAIN entries : Holds(dbFile, entries[i])
  /\ \A s \in Sessions :
       authPw[s] # "" => state[s] = "READY" /\ Holds(entries, Cred(s))
  /\ ~up => \A s \in Sessions : authPw[s] = ""

(***************************************************************************)
(* Once READY, a session keeps its sandbox and stays READY for the rest of *)
(* the connection: login, auth and need_input refuse to run again.         *)
(***************************************************************************)
SandboxStable ==
  [][\A s \in Sessions :
       conn[s] /\ conn'[s] /\ state[s] = "READY" =>
         state'[s] = "READY" /\ userDir'[s] = userDir[s]]_vars

Rejections == {BadRequest, Forbidden, PreconditionFailed, Unavailable}

(***************************************************************************)
(* A request refused by a check (bad request, forbidden, precondition      *)
(* failed, not ready) changes nothing on disk and nothing of its session:  *)
(* every handler runs its checks before its first side effect.             *)
(***************************************************************************)
NoEffectOnRejection ==
  [][event'.sess \in Sessions /\ resp'[event'.sess] \in Rejections =>
       LET s == event'.sess IN
       /\ UNCHANGED <<dirs, files, dbFile, up>>
       /\ state'[s] = state[s] /\ userDir'[s] = userDir[s]
       /\ curDir'[s] = curDir[s]]_vars

(***************************************************************************)
(* A move that Session::move answers "Cannot move files." (500, the       *)
(* result of fsutils::move_file returning false) has moved nothing: no     *)
(* location was created or removed on disk.                                *)
(***************************************************************************)
FailedMoveNoEffect ==
  [][event'.cmd = "MOVE" /\ resp'[event'.sess] = InternalError =>
       UNCHANGED <<dirs, files>>]_vars

\* The location under the root that the spec makes the session's sandbox.
SandboxLoc(s) ==
  IF userDir[s] = PublicDir THEN RootDir \o <<"public", "files">>
  ELSE PrivateBase(username[s]) \o <<"files">>

(***************************************************************************)
(* Every location a filesystem command creates or removes lies inside the *)
(* sandbox of the session that sent it (spec 4.3.1 and 8).                 *)
(***************************************************************************)
SandboxRespected ==
  [][event'.sess \in Sessions /\ event'.cmd \in FsCommands =>
       \A l \in ((dirs' \cup files') \ (dirs \cup files))
                \cup ((dirs \cup files) \ (dirs' \cup files')) :
         Within(SandboxLoc(event'.sess), l)]_vars

(***************************************************************************)
(* A client that follows the dialogue of spec 4.2: it answers "Y" to the  *)
(* register question and then sends its password, ClientPw.  Weak         *)
(* fairness: a client waiting in the dialogue does send its answer, and   *)
(* a dispatched handler runs on it.  The repository's client does not do  *)
(* this (client.cpp drops input in NEED_INPUT and never calls need_input), *)
(* so FairSpec is the best case: it shows the server's table alone stops  *)
(* the dialogue even for a client that follows the spec.                  *)
(***************************************************************************)
ClientPw == CHOOSE p \in Passwords : TRUE

FairSpec ==
  /\ Spec
  /\ \A s \in Sessions :
       WF_vars(state[s] = "NEED_INPUT_REGISTER" /\ NeedInput(s, "Y"))
  /\ \A s \in Sessions : WF_vars(state[s] = "AUTH" /\ Auth(s, ClientPw))

(***************************************************************************)
(* A session that logged in with an unknown name and is asked whether to  *)
(* register (login answered NEED_INPUT 401) is eventually READY, unless   *)
(* it disconnects or the server stops first.                              *)
(***************************************************************************)
RegistrationCompletes ==
  \A s \in Sessions :
    state[s] = "NEED_INPUT_REGISTER" ~> (state[s] = "READY" \/ ~conn[s] \/ ~up)

(***************************************************************************)
(* No request ends the server process: every failure a handler meets is   *)
(* answered with a response (spec 7); only the operator stops it.          *)
(***************************************************************************)
RequestsNeverCrash == [][up /\ ~up' => event'.cmd = "STOP"]_vars

(***************************************************************************)
(* The refinement mapping onto the transition table of Handshake: a slot  *)
(* whose connection is closed is CLOSED, an open one is in state_; the    *)
(* name is username_ and the sandbox user_dir_.                            *)
(***************************************************************************)
Hs == INSTANCE Handshake
        WITH hs <- [s \in Sessions |-> IF conn[s] THEN state[s] ELSE "CLOSED"],
             who <- username, box <- userDir, NoDir <- EmptyPath,
             PublicDir <- PublicDir, PrivateDir <- PrivateDir

(***************************************************************************)
(* The server implements the handshake of spec 4.3: every step of any     *)
(* handler, connection or of the process moves each connection along an  *)
(* edge of the transition table or leaves it as it is, and a connection   *)
(* enters its sandbox only on the table's edges into READY.                *)
(***************************************************************************)
ImplementsHandshake == Hs!Spec

=============================================================================
