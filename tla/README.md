# Formal model of minidrive

This directory holds TLA+ models of the minidrive server and client (`src/server`, `src/shared`, `src/client`), TLC configurations that check them on small instances, and TLAPS proofs of the main invariants for all instances. `PROJECT.json` lists the components, runs, mutants, source map, findings, hazards and theorems in machine-readable form.

## 1. The system

minidrive is a remote-storage client/server over a length-prefixed JSON protocol.

- **Server process** (`server/src/main.cpp`, `server.cpp`).
  - It parses `--root`, creates `users.json`, `public/` and `private/` under the root, and then runs one `asio::io_context` on one thread.
  - `Server::accept` creates a `Session` for each connection.
  - The `Database` (`db_`) is created only when `users.json` did not exist before start-up.
- **Session** (`server/src/session.cpp`). This is the per-connection state machine.
  - Its state is `state_` (LOGIN, AUTH, NEED_INPUT_REGISTER, READY), `username_`, `user_dir_` (the sandbox) and `current_dir_`.
  - `handle_request` looks the command up in `requests_` and calls the handler: login, auth, need_input, list, delete, cd, mkdir, rmdir, move, copy, or the empty exit/upload/download/sync.
  - Each handler checks the state, then its arguments, then the sandbox (`fsutils::is_subpath(user_dir_, arg)`), then acts on the host filesystem and writes one response.
- **Account store** (`server/src/database.cpp`). It is one table shared by all sessions.
  - `load` rereads `users.json` if it exists and otherwise keeps the in-memory table.
  - `user_exists`, `validate_user` and `add_user` each reload first.
  - `add_user` appends a record and saves: it writes `users.json.tmp` and renames it over the file.
- **Filesystem helpers** (`shared/src/filesystem/utils.cpp`): `normalize` (weakly_canonical), `is_subpath`, `relative`, `mkdir` (create_directories), `rmdir` (remove_all), `copy_file`, and `move_file` (rename with a stream-copy fallback).
- **Client** (`client/src`): a mirror of the session state (`state_`: LOGIN, AUTH, NEED_INPUT, READY, PROCESSING, EXIT).
  - The input thread (`input_loop`) reads terminal lines and posts each to the io_context. At end of input it calls `exit()` itself.
  - The io thread runs the connect handler, the posted lines (`handle_request`), the completed reads (`handle_response`), failed writes (`handle_error`, hence `exit()`) and the SIGINT handler. `main`'s work guard keeps it running.
  - `exit()` sends EXIT and sets EXIT. The shutdown lambda after it is never posted: `asio::post(io_context_), [this]{...};` is a comma expression.
- **Framing** (`session.cpp` read_header/read_body, `client.cpp` send): each message is a 4-byte big-endian length and then that many bytes of JSON.

How the parts interact: every handler runs to completion inside one callback of the single event loop. So one request, with all its Database and filesystem calls, is one atomic step, and sessions interleave only between requests. The client and the server talk over one TCP connection, one request and one response at a time; the client's two threads meet on the io_context and on `state_`. An exception that escapes a server handler, including a completion handler of the frame reader, ends `io_context.run()` and the process. The disk survives that, and an operator can start the server again.

## 2. Modules

| Module | Models | State / operators |
|---|---|---|
| `FsUtils.tla` | `utils.cpp` path helpers | Pure operators over an abstract host tree (described below). |
| `Session.tla` | session.cpp, database.cpp, server.cpp, main.cpp | One action per handler (described below). |
| `MCSession.tla` | — | Model values and small constant sets for TLC. |
| `SessionProofs.tla` | — | TLAPS proofs about `Session`: type correctness and unique user names. |
| `CredentialProofs.tla` | — | TLAPS proof that authenticated sessions hold a stored credential. |
| `SessionActionProofs.tla` | — | TLAPS proofs of `Session`'s two action properties. |
| `Handshake.tla` | spec 4.3; session.cpp login/auth/need_input | The abstract per-connection handshake table (described below). |
| `HandshakeProofs.tla` | — | TLAPS proof of `SandboxOwned` in the abstract handshake. |
| `SessionRefinement.tla` | — | TLAPS proof that `Session` implements `Handshake`. |
| `Client.tla` | client.cpp, client main.cpp | The client's state, both threads and the work guard (described below). |
| `Dialogue.tla` | — | Composition: Session's handlers for one slot `S`, `INSTANCE Client`, and two FIFO TCP directions. |
| `MCDialogue.tla` | — | Constants for the Dialogue runs: typed lines and path arguments. |
| `Framing.tla` | session.cpp 35-80, client.cpp send, message.cpp from_json | The server's frame reader over a byte stream (described below). |
| `MCFraming.tla` | — | Small body sets for the Framing runs. |

**FsUtils in detail.** The host tree is two sets of locations: `dirs` and `files`. A location is the sequence of names below "/". A path argument is a record `[abs, segs]`. The module defines:
- `LexNormalAbs` / `LexNormalRel` (lexically_normal) and `Resolve` (a relative path taken from the process working directory);
- `Normalize` (weakly_canonical: it stays relative when the first element of a relative path does not exist);
- `IsSubpath`, exactly as written, including its parameter order;
- `Relative` (std::filesystem::relative);
- the effects and failure conditions of create_directories, remove_all, copy_file, and rename with its fallback.

**Session in detail.**
- Process variables: `up`, `dbReady` (is `db_` non-null), `entries` (`Database::entries_`).
- Disk variables: `dbFile` (the table in users.json), `dirs`, `files`.
- Per-session functions: `conn`, `state`, `username`, `userDir`, `curDir`, `resp` (the last response, as [status, code]).
- `auth` runs `setup_dir` before it saves users.json. When create_directories throws part-way, the process dies with the directories already made still on disk (`SetupDirCrashDirs`).
- Auxiliary variables: `authPw` (the password with which a session passed AUTH) and `event` (the session and command of the last step).

There is one action per handler: `Login`, `Auth`, `NeedInput`, `Unknown`, `Silent`, `List`, `Delete`, `Cd`, `Mkdir`, `Rmdir`, `Move`, `Copy`. There are also `Connect`, `Disconnect`, `Stop` (operator) and `Restart` (main plus setup_root_directory). Each handler is an IF/ELSE chain that follows the code's checks and early returns in order, so the first failing check answers. An exception or a null `db_` is `Crash`: all sessions are lost, the disk stays as the handler left it. `Rmdir` of "/" is an example: the contents go before remove_all throws.

**Handshake in detail.** This is what the server promises of each connection, and it leaves out passwords, the tables and the disk. Each slot has:
- `hs`: CLOSED, or one of the four `SessionSate` values;
- `who`: the name it logged in with;
- `box`: its sandbox.

Its actions are the edges of spec 4.3's table:
- `Open` and `Close`: a connection starts or ends;
- `Halt`: the process ends;
- `LoginPublic`: an empty name leads to READY in the public sandbox;
- `LoginNamed`: a name leads to AUTH or NEED_INPUT_REGISTER, either one, because the model does not know which names exist;
- `Confirm` and `Decline`: "Y" leads to AUTH, "n" to READY in the public sandbox;
- `SignIn`: AUTH leads to READY in the user's own sandbox.

`Session.tla` defines the mapping `Hs`:
- a slot without a connection is CLOSED, otherwise it is in `state`;
- `username` and `userDir` become `who` and `box`.

`ImplementsHandshake == Hs!Spec` says the server implements the table.

**Client in detail.** The variables are `cstate` (`state_`), `exiting` (`exiting_`), `csock` (CONNECTING, OPEN, or CLOSED by the peer), `reading` (a read is outstanding), `posted` (lines posted and not yet run), `werr` (failed writes whose handler has not run), `guard`, `ioRunning` and `inputOn`.
- `HandleRequest` follows `handle_request`'s IF chain: EXIT; AUTH sends AUTH; READY runs a `cmd_` handler (reduced to the request it sends and its argument check; `cmd_download` sends UPLOAD and `cmd_delete` sends LIST, as in the code); LOGIN re-sends LOGIN; anything else is dropped. `need_input` is never called.
- `HandleResponse` is `handle_response`: the status alone decides the next state, whatever the current one. CONFLICT and unknown statuses change nothing.
- `Send` on a socket that is not open fails later, in its handler (`WriteFails`).
- `Exit` is `exit()`: a one-shot flag, one EXIT request, state EXIT, no shutdown.
- Actions: `Connected`, `ConnectFails`, `InputLine`, `InputEof`, `RunPosted`, `Receive`, `ReadFails`, `WriteFails`, `SigInt`, `IoStops` (io_context.run() returns once no guard, read, post or write handler is left).

**Dialogue in detail.** `Serve` takes the oldest request off `toServer`, runs the handler `requests_` gives it (`Handle`, an IF chain over the same Session actions as the server model) and appends the response, if the handler wrote one and the process survived, to `toClient`. `Accept` joins `Connect` and the client's connect handler. When the server stops or the session is gone, `PeerClosed` closes the client's socket and drops what was still in flight to the server. The client never closes its socket (the shutdown is never posted), so the server never sees it leave.

**Framing in detail.** `stream` holds the bytes the peer has written and the server not yet read; `pend` the reads outstanding on the socket; `msgLen` and `buf` are `msg_len_` and `buffer_`. `Header` is htonl's byte order, `Ntohl` its inverse, and `Resize` is vector::resize (kept bytes, then zeros; only the written prefix is stored). `HeaderDone` and `BodyDone` are the two completion handlers, including read_body's zero-length path, which issues read_header and still reads the empty buffer. Which bodies parse (json::parse then from_json) is the constant `Valid`. A body that does not parse throws, and the process ends.

**Constants.**
- `Dispatched` is the set of commands `requests_` maps to a handler. The code's table, `CodeTable`, lacks AUTH and NEED_INPUT. `HandlerTable` adds them, which lets the runs exercise the auth/need_input handlers the code defines but never calls.
- `Requests` is what a client may send.
- `PathArgs` is the set of path arguments.
- `RootDir` and `Cwd` are the root and the process working directory.
- `InitDirs` and `InitFiles` describe the host.

**Abstractions.**
- Password hashing is the identity. Verification stays exact.
- In Session and Dialogue a request is a command name plus small-set arguments. Framing keeps the 4-byte length as bytes but abstracts the JSON text: a body is a short byte string, and `Valid` says which ones parse.
- Response messages are dropped. Only status and code are kept.
- There are no permissions or symlinks.

## 3. Runs

The Session runs use `MCSession`. RootDir = Cwd = /r (the server is started inside its root), and the host holds / and /r.

| Run | cfg | Expect | Checks |
|---|---|---|---|
| session_fs | MCSession_fs.cfg | pass | TypeOK, NoEffectOnRejection |
| session_auth | MCSession_auth.cfg | pass | UniqueUsernames, CredentialsStored, NoEffectOnRejection, ImplementsHandshake |
| sandbox_escape | MCSession_escape.cfg | violation | SandboxRespected |
| anonymous_list_crash | MCSession_listcrash.cfg | violation | RequestsNeverCrash |
| restart_null_db | MCSession_restart.cfg | violation | RequestsNeverCrash |
| registration_wedged | MCSession_dialogue.cfg | violation | RegistrationCompletes |
| move_failure_leaves_debris | MCSession_movefail.cfg | violation | FailedMoveNoEffect |
| silent_sync_hangs_client | MCDialogue_silentsync.cfg | violation | ProcessingAnswered (under FairDSpec) |
| exit_not_terminal | MCDialogue_exitterminal.cfg | violation | ExitIsTerminal |
| interrupt_never_ends | MCDialogue_interrupt.cfg | violation | InterruptEnds |
| framing_fair | MCFraming_fair.cfg | pass | FramesHandled (under FairSpec) |
| empty_frame_kills_server | MCFraming_empty.cfg | violation | NoFrameEndsServer |

**Bounds.**
- **session_fs**: one session, the code's dispatch table, every command plus an unknown one.
  - Path arguments are "", "/public", "/public/files" and "public/files/d". Together they hit every check of every handler, for arguments inside and outside the intended sandbox.
  - ".." and "/" are left out of this run. Removing "/" really does leave a host on which the server cannot restart, which would make the run end in a deadlock. sandbox_escape shows the underlying bug.
- **session_auth**: two sessions (symmetric), one user name and two passwords. This is the smallest instance where two registration dialogues for the same name interleave and where a wrong password exists.
- **Dialogue runs**: one client on slot s1, the code's dispatch table (`CodeTable`), up to 3 typed lines. The lines are a password, `LIST /public/files` and `EXIT`, plus `SYNC /public/files /public/files` in `MCDialogue_silentsync.cfg`. Server stops and restarts are free. The runs log in as "alice". There is no passing Dialogue run: every question asked of the whole dialogue ends in one of the findings below. Three lines are enough for a line to race the first answer, for a command to be in flight and for EXIT to come last.
- **Framing runs**: up to 3 frames with bodies of 1 and 2 bytes, so frames of different lengths follow each other. empty_frame_kills_server adds the empty body. Both runs set `CHECK_DEADLOCK FALSE`: after the peer closes and its bytes are read, the read fails and the connection really ends.

**What the properties say.**
- `UniqueUsernames`: no name is stored twice.
- `AuthenticatedHasCredential` (proved, section 5; implied by `CredentialsStored`, so not run separately): a session that passed AUTH holds a credential that the table it reads now contains.
- `CredentialsStored`: the invariant the proof of `AuthenticatedHasCredential` rests on. The memory table holds only records of users.json, and authenticated sessions are READY with their record in memory. Nobody is authenticated while the process is down.
- `SandboxStable` (proved, section 5; implied by `ImplementsHandshake`, so not run separately): a READY session keeps its sandbox and state.
- `NoEffectOnRejection`: a refused request (400/403/412/503) changes neither the disk nor its session.
- `ImplementsHandshake` (spec 4.3): every behaviour of the server, seen through `Hs`, is a behaviour of the handshake table. TLC checks it as a temporal property. The mutant `LoginAnyState` breaks it: that is a login that does not check `state_ == LOGIN`.
- `RegistrationCompletes`: under `FairSpec`, a session that starts the named login dialogue ends READY. The code's own table makes this fail (finding 4).
- `FailedMoveNoEffect`: a MOVE answered 500 "Cannot move files." has created and removed nothing.
- `ProcessingAnswered` (spec 2 and 7): a client waiting in PROCESSING leaves it or is exiting. It fails because sync, upload and download answer nothing (finding 8).
- `MirrorAgrees` (spec 3): when nothing is in flight, the client's state mirrors its session's.
- `ExitIsTerminal` (spec 4.3): no step leaves EXIT.
- `InterruptEnds` (spec 4.4): after SIGINT, io_context.run() returns.
- `FramesHandled`: every frame sent reaches handle_request, in order, even if the peer closes right after.
- `NoFrameEndsServer` (spec 4.1, 7): no frame ends the server process.

Each property of a passing run has a mutant (listed in PROJECT.json) that TLC catches. For example, `NativeOrder` (ntohl left out on a little-endian host) breaks FramesHandled: the reader waits for 16 MiB that never come.

**Fairness.** `FairSpec` (Session) is used only by registration_wedged, as the best case for the code: even when every answer the dialogue needs is sent, the login does not complete. It assumes weak fairness only of a waiting client's answer: "Y" in NEED_INPUT_REGISTER, and its password in AUTH. A client following spec 4.2 sends these. Because the event loop serves every pending request, a dispatched handler then runs. No other fairness is assumed. Disconnects, crashes and restarts may happen at any time, and the property allows for them.

`FairDSpec` (Dialogue) assumes weak fairness of what the two event loops and TCP do by themselves: `Serve`, `PeerClosed`, the completion of a pending connect (`Accept \/ Refused`: async_connect always calls its handler, with success or with an error, whatever the operator does meanwhile), and the client's `RunPosted`, `Receive`, `ReadFails`, `WriteFails`, `IoStops`. The user (typing, end of input), the signal and the operator (stop, restart) get no fairness. `FairSpec` in Framing is weakly fair to the three completion handlers, and the peer is free.

## 4. Findings

1. **Inverted sandbox** (utils.cpp:49). `is_subpath(sub, base)` tests that `base` is a prefix of `sub`, but the call sites pass `(user_dir_, arg)`. A request is therefore allowed exactly when its path is an ancestor of the sandbox.
   - `mkdir /public` creates a directory outside the sandbox (sandbox_escape).
   - `rmdir ..` removes the whole host tree.
   - Inside the sandbox, only "" passes.
2. **Anonymous `list` crashes the server** (session.cpp:337).
   - `public/files` is never created.
   - `user_dir_ = relative("/public/files", root)` is resolved against the working directory.
   - So `scan_directory(current_dir_)` throws and nothing catches it (anonymous_list_crash).
3. **Null `db_` after a restart** (server.cpp:31). When `users.json` already exists, `db_` is never set, and the first named login dereferences null (restart_null_db).
4. **Registration can never complete** (session.cpp:20). `requests_` has no AUTH or NEED_INPUT entry, so a named session is stuck, and every answer gets "Unknown request" (registration_wedged).
5. **A failed move leaves debris** (utils.cpp:115). When rename fails, `move_file` opens the destination with an ofstream, which creates it even when the source could not be opened, then cannot remove the source, and returns false. In the trace, an anonymous session moves `/public` into `/public/files`: the file `/public/files` is created and the answer is 500 "Cannot move files." (move_failure_leaves_debris).
6. **A zero-length frame ends the server** (session.cpp:57). `read_body` calls handle_error and read_header but does not return. The read of the empty buffer completes at once and `json::parse("")` throws in the handler; nothing catches it, so every session is lost. Spec 4.1 makes this a ProtocolError fatal to the connection only (empty_frame_kills_server). A body that does not parse, or lacks a field `from_json` reads with `at`, ends the process in the same way.
7. **SIGINT does not stop the client** (client.cpp:246). The shutdown lambda is never posted, so the read stays pending and io_context.run() never returns after the guard is reset (interrupt_never_ends). The same line leaves the socket open after a typed EXIT.

8. **Unanswered commands hang the client** (session.cpp:320). sync, upload, download and exit are dispatched but write no response. `cmd_sync` sets PROCESSING and the client waits forever (silent_sync_hangs_client).
9. **EXIT is not terminal** (client.cpp:130). `handle_response` sets the state from the status alone. A response in flight when the user typed EXIT takes the client out of EXIT (exit_not_terminal).

**Also seen with the Dialogue model.** One more configuration is kept beside the listed runs. **The client's mirror diverges** (client.cpp:176): any line typed before the first answer arrives re-sends LOGIN. The server refuses it with ERROR 503, which the client reads as READY while the session waits in NEED_INPUT_REGISTER (`MCDialogue_mirror.cfg`, `MirrorAgrees` under `DSpec`).

## 5. Proofs (TLAPS)

Each theorem below holds for every value of the constants that satisfies the assumptions listed at the end of this section.

### SessionProofs.tla

- **`TypeCorrect`**: `Spec => []TypeOK`. TypeOK alone is not inductive: `auth` builds a record and a private directory from `username_`. The inductive invariant `IInv = TypeOK /\ DialogueNamed` adds that a session in AUTH or NEED_INPUT_REGISTER has a non-empty name.
  - The proof has one lemma per handler, each split along the code's branches.
  - Helper lemmas cover the filesystem helpers (`CreateDirectoriesType`, `RerootType`, `SetupDirsType`) and the shared endings (`RespondIInv`, `CrashIInv`, `FsStepIInv`).
- **`UniqueNamesHold`**: `Spec => []UniqueUsernames`, with the inductive invariant `IInv /\ UniqueUsernames`.
  - The tables change only at login (a reload), at auth, and at a crash or restart.
  - At auth, the only append happens after `user_exists` returned false in the same step. `AppendUnique` shows that this keeps names unique.
  - `QuietTables` shows that every other handler leaves the tables alone.

### CredentialProofs.tla

- **`CredentialHolds`**: `Spec => []AuthenticatedHasCredential`. The run session_auth checks `CredentialsStored`, which implies it, on a small instance.
  - The property is not inductive. It reads `Database::load`'s result, which is users.json or, when that file is missing, `entries_`. Another session's login reloads `entries_`, and a restart empties it.
  - The inductive invariant is `IInv /\ CredentialsStored`. `CredentialsStored` has three parts:
    - every record of `entries_` is also in users.json, so a reload never drops a record;
    - every session that passed AUTH is READY, and its record is in `entries_`;
    - no session is authenticated while the process is down, so a restart that empties `entries_` drops no one's record.
  - TLC checked `CredentialsStored` before the proof, in session_auth and on the two-session all-handlers instance.
  - The per-handler lemmas reduce almost every step to `CredFrame`: the tables stay or are reloaded, the other sessions keep their login, and the acting session loses its credential, keeps it, or gains one the table holds.
  - Auth gives a session a credential in two ways. `validate_user` finds the record in the table just loaded, or `add_user` appends the record and saves it in the same step (`HoldsAppend`).
- **`CredentialsStoredHolds`**: `Spec => []CredentialsStored`, from the same induction.

### SessionActionProofs.tla

- **`SandboxStays`**: `Spec => SandboxStable`.
- **`RejectionsHaveNoEffect`**: `Spec => NoEffectOnRejection`.

Both follow from `TypeOK` alone, shown by `TypeCorrect`. Every branch of every handler has one of three shapes (`Shapes`):
  - an early return that writes only the response;
  - a crash, which closes every connection and leaves every response at NoResp;
  - a step that answers with something other than a rejection, and that moves only the acting session, and only when that session is not READY on an open connection.

`NextSafe` shows that every step has this form. Each theorem then follows by `PTL` from `TypeCorrect`.

### HandshakeProofs.tla and SessionRefinement.tla

- **`OwnedHolds`** (abstract): `Handshake!Spec => []SandboxOwned`. A READY slot's sandbox is either the public one or `PrivateDir` of its own name.
  - Reading this as "never another user's directory" needs `PrivateDir` to be injective. The code builds the path from the name string, so a name holding "/" or ".." would reach another directory. The model's names are single path elements, so the theorem speaks of the name the slot owns, not of disjoint directories.
  - `SandboxOwned` is not inductive by itself, because `SignIn` uses whatever name the slot carries in AUTH.
  - The inductive invariant `HInv` adds `HNamed`: a slot in AUTH or NEED_INPUT_REGISTER carries a user name.
  - `PutInv` covers every edge at once.
- **`Refinement`**: `Spec => ImplementsHandshake`. The run session_auth checks the same property. The proof follows the usual refinement layout:
  - `Init` maps to `Hs!Init`.
  - Under `TypeOK`, every step of `Next` is a step of `Hs!Next` or leaves the mapped variables unchanged (`NextHs`).
  - There is one lemma per handler, and each is split along the code's branches:
    - a rejection, a file command or a restart leaves every slot alone (`HsQuiet`);
    - a crash or a stop is `Halt` (`HsCrash`);
    - an accept or a disconnect is `Open` or `Close`;
    - the branches of login, need_input and auth that move a slot are `Put` on that slot alone (`HsEdge`), with the guard of the corresponding edge.
- **`SessionSandboxOwned`**: `Spec => []Hs!SandboxOwned`. It takes the instance of `HandshakeProofs` under the same mapping and carries `HInv` through `Refinement` by PTL. At the code level it says that a READY session's `user_dir_` is the public sandbox or the private sandbox of its own `username_`.

**Assumptions.**
- `ConstantsAssumption`: well-typed constants; the host holds the root and the working directory; no argument names `users.json`.
- `RootNamesAssumption`: the fixed names the server uses are strings. The provers do not know that string literals belong to STRING.

**What stays with TLC.** The provers cannot handle these:
- the liveness properties (`RegistrationCompletes`, `ProcessingAnswered`, `FramesHandled`), because they need fairness and ENABLED;
- the client and framing models, whose properties are liveness or are violated;
- everything about what the recursive path normalisation computes.

Induction over data is out of the provers' reach, so `ConstantsAssumption` states only that resolved arguments are sequences of names.

## 6. Not modelled

- **The client's own frame reader** (`Client::read_header`/`read_body`). It is the server's code without the zero-length check. The server only writes framed JSON, so nothing in the model can send it a bad frame.
- **An abstract account-store specification**. `Session`'s tables are not refined into an abstract store. users.json can be removed or moved with an ancestor directory through the inverted sandbox check (finding 1), and a restart then starts from an empty table, so the set of stored accounts is not monotone. An abstract store would have to allow losing every account at any time, and would then say little.
- **A check of `FsUtils.Normalize`/`IsSubpath`** against a reference definition over bounded paths. This is planned.
- **Concurrent access to the client's socket**: `exit()` on the input thread writes while the io thread reads and writes. This is a data race in asio. The model makes each write one atomic step.
- **Password hashing, terminal echo (`TerminalNoEcho`), console output, file hashing and the client's command-line parsing**: these are pure or I/O with no protocol state.
