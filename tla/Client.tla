------------------------------- MODULE Client -------------------------------
(***************************************************************************)
(* The minidrive client (client/src/client.cpp, client/src/main.cpp): a   *)
(* mirror of the server's session state, driven by two threads.            *)
(*                                                                         *)
(*  - The input thread (input_loop) reads lines from the terminal and     *)
(*    posts each to the io_context; at end of input it calls exit()       *)
(*    itself.                                                              *)
(*  - The io thread (io_context.run in main) runs, one at a time, the     *)
(*    connect handler, the posted lines (handle_request), the completions *)
(*    of the socket reads (handle_response) and of failed writes          *)
(*    (handle_error), and the SIGINT handler.  It returns when the work   *)
(*    guard is gone and nothing is pending.                                *)
(*                                                                         *)
(* The two TCP directions are the sequences toServer and toClient, owned  *)
(* by the module that composes the client with a server.  A write is one *)
(* step: async_write of a small frame completes in one send.              *)
(***************************************************************************)
EXTENDS Naturals, Sequences

CONSTANTS
  ClientUser,  \* username_ from the command line ("" logs in anonymously)
  Lines,       \* lines the user may type: [text, word, args]
  EmptyArg,    \* the empty string as a path argument
  MaxTyped     \* bound: lines the user types in one run

\* ClientState (client.hpp); TRANSFERRING is declared but never assigned.
ClientStates == {"LOGIN", "READY", "NEED_INPUT", "AUTH", "PROCESSING", "EXIT"}

\* Client::commands_ (client.cpp 20-32), with the arguments each cmd_ needs
\* and the command each one puts on the wire.
ClientCommands ==
  {"LIST", "HELP", "UPLOAD", "DOWNLOAD", "DELETE", "CD", "MKDIR", "RMDIR",
   "MOVE", "COPY", "SYNC"}
MinArgs ==
  [LIST |-> 0, HELP |-> 0, UPLOAD |-> 1, DOWNLOAD |-> 1, DELETE |-> 1,
   CD |-> 1, MKDIR |-> 1, RMDIR |-> 1, MOVE |-> 2, COPY |-> 2, SYNC |-> 2]
\* cmd_download sends UPLOAD and cmd_delete sends LIST.
WireCmd ==
  [LIST |-> "LIST", UPLOAD |-> "UPLOAD", DOWNLOAD |-> "UPLOAD",
   DELETE |-> "LIST", CD |-> "CD", MKDIR |-> "MKDIR", RMDIR |-> "RMDIR",
   MOVE |-> "MOVE", COPY |-> "COPY", SYNC |-> "SYNC"]

\* handle_response: the state each response status leads to.
StatusEffect ==
  [AUTH |-> "AUTH", NEED_INPUT |-> "NEED_INPUT", ERROR |-> "READY",
   OK |-> "READY", BUSY |-> "PROCESSING"]

Req(c, a, b) == [cmd |-> c, a |-> a, b |-> b]

\* The i-th argument token of a line, "" when the line has none.
Arg(l, i) == IF i <= Len(l.args) THEN l.args[i] ELSE EmptyArg

\* The username handed to handle_request by the connect handler.
UserLine == [text |-> ClientUser, word |-> ClientUser, args |-> <<>>]

VARIABLES
  cstate,     \* Client::state_
  exiting,    \* Client::exiting_
  csock,      \* the socket: "CONNECTING", "OPEN", or "CLOSED" by the peer
  reading,    \* a read_header/read_body is outstanding
  posted,     \* lines posted by the input thread, not yet run
  werr,       \* completions of failed writes not yet run
  guard,      \* main's executor_work_guard is alive
  ioRunning,  \* io_context.run() has not returned
  inputOn,    \* input_loop is still looping
  typed,      \* lines typed so far
  toServer,   \* requests in flight to the server
  toClient    \* responses in flight to the client

cvars == <<cstate, exiting, csock, reading, posted, werr, guard, ioRunning,
           inputOn, typed>>

-----------------------------------------------------------------------------
(***************************************************************************)
(* Client::send (client.cpp 72-86) on a socket that is open or not, with  *)
(* w failed writes pending before.  A write on a socket that is not open  *)
(* fails, and its handler will run handle_error.                          *)
(***************************************************************************)
Send(open, w, r) ==
  IF open THEN toServer' = Append(toServer, r) /\ werr' = w
  ELSE toServer' = toServer /\ werr' = w + 1

(***************************************************************************)
(* Client::exit (client.cpp 230-254).  The one-shot flag; an EXIT request; *)
(* then "asio::post(io_context_), [this]() {...};" -- a comma expression  *)
(* whose lambda is never posted, so the socket is never shut down.        *)
(***************************************************************************)
Exit(open, w) ==
  IF exiting THEN werr' = w /\ UNCHANGED <<exiting, cstate, toServer>>
  ELSE /\ exiting' = TRUE
       /\ Send(open, w, Req("EXIT", EmptyArg, EmptyArg))
       /\ cstate' = "EXIT"

(***************************************************************************)
(* Client::handle_request (client.cpp 154-183) with login, auth and the   *)
(* cmd_ handlers it calls.  need_input is never called: a line typed in   *)
(* NEED_INPUT is dropped.                                                  *)
(***************************************************************************)
HandleRequest(open, l) ==
  IF l.text = "EXIT" THEN Exit(open, werr)
  ELSE IF cstate = "AUTH" THEN
       /\ Send(open, werr, Req("AUTH", l.text, EmptyArg))
       /\ cstate' = "PROCESSING"
       /\ UNCHANGED exiting
  ELSE IF cstate = "READY" /\ l.word \in ClientCommands \ {"HELP"}
          /\ Len(l.args) >= MinArgs[l.word] THEN
       /\ Send(open, werr, Req(WireCmd[l.word], Arg(l, 1), Arg(l, 2)))
       /\ cstate' = "PROCESSING"
       /\ UNCHANGED exiting
  ELSE IF cstate = "LOGIN" THEN
       /\ Send(open, werr, Req("LOGIN", ClientUser, EmptyArg))
       /\ UNCHANGED <<exiting, cstate>>
  ELSE UNCHANGED <<exiting, cstate, toServer, werr>>

\* Client::handle_response (client.cpp 127-152).
HandleResponse(r) ==
  cstate' = IF r.status \in DOMAIN StatusEffect THEN StatusEffect[r.status]
            ELSE cstate

-----------------------------------------------------------------------------
Init ==
  /\ cstate = "LOGIN"
  /\ exiting = FALSE
  /\ csock = "CONNECTING"
  /\ reading = FALSE
  /\ posted = <<>>
  /\ werr = 0
  /\ guard = TRUE
  /\ ioRunning = TRUE
  /\ inputOn = TRUE
  /\ typed = 0
  /\ toServer = <<>>
  /\ toClient = <<>>

\* Client::connect's handler on success: the username as first line, then
\* read_header.
Connected ==
  /\ ioRunning /\ csock = "CONNECTING"
  /\ csock' = "OPEN"
  /\ HandleRequest(TRUE, UserLine)
  /\ reading' = TRUE
  /\ UNCHANGED <<posted, guard, ioRunning, inputOn, typed, toClient>>

\* The connect handler on error: handle_error, hence exit().
ConnectFails ==
  /\ ioRunning /\ csock = "CONNECTING"
  /\ csock' = "CLOSED"
  /\ Exit(FALSE, werr)
  /\ UNCHANGED <<reading, posted, guard, ioRunning, inputOn, typed, toClient>>

\* input_loop: a line is read and posted; the loop then tests exiting_.
InputLine(l) ==
  /\ inputOn /\ typed < MaxTyped
  /\ posted' = Append(posted, l)
  /\ typed' = typed + 1
  /\ inputOn' = ~exiting
  /\ UNCHANGED <<cstate, exiting, csock, reading, werr, guard, ioRunning,
                 toServer, toClient>>

\* input_loop at end of input: exit() on the input thread.
InputEof ==
  /\ inputOn
  /\ Exit(csock = "OPEN", werr)
  /\ inputOn' = FALSE
  /\ UNCHANGED <<csock, reading, posted, guard, ioRunning, typed, toClient>>

\* The io thread runs the oldest posted line.
RunPosted ==
  /\ ioRunning /\ posted # <<>>
  /\ HandleRequest(csock = "OPEN", Head(posted))
  /\ posted' = Tail(posted)
  /\ UNCHANGED <<csock, reading, guard, ioRunning, inputOn, typed, toClient>>

\* read_header/read_body complete: handle_response, then read_header.
Receive ==
  /\ ioRunning /\ reading /\ toClient # <<>>
  /\ HandleResponse(Head(toClient))
  /\ toClient' = Tail(toClient)
  /\ UNCHANGED <<exiting, csock, reading, posted, werr, guard, ioRunning,
                 inputOn, typed, toServer>>

\* The pending read fails once the peer has closed and all data is read.
ReadFails ==
  /\ ioRunning /\ reading /\ toClient = <<>> /\ csock = "CLOSED"
  /\ reading' = FALSE
  /\ Exit(csock = "OPEN", werr)
  /\ UNCHANGED <<csock, posted, guard, ioRunning, inputOn, typed, toClient>>

\* The handler of a failed write: handle_error, hence exit().
WriteFails ==
  /\ ioRunning /\ werr > 0
  /\ Exit(csock = "OPEN", werr - 1)
  /\ UNCHANGED <<csock, reading, posted, guard, ioRunning, inputOn, typed,
                 toClient>>

\* main's signal handler: client.exit() and guard.reset().
SigInt ==
  /\ ioRunning /\ guard
  /\ guard' = FALSE
  /\ Exit(csock = "OPEN", werr)
  /\ UNCHANGED <<csock, reading, posted, ioRunning, inputOn, typed, toClient>>

\* io_context.run() returns: no guard, nothing pending.
IoStops ==
  /\ ioRunning /\ ~guard /\ ~reading /\ posted = <<>> /\ werr = 0
  /\ csock # "CONNECTING"
  /\ ioRunning' = FALSE
  /\ UNCHANGED <<cstate, exiting, csock, reading, posted, werr, guard,
                 inputOn, typed, toServer, toClient>>

-----------------------------------------------------------------------------
TypeOK ==
  /\ cstate \in ClientStates
  /\ exiting \in BOOLEAN /\ reading \in BOOLEAN /\ guard \in BOOLEAN
  /\ ioRunning \in BOOLEAN /\ inputOn \in BOOLEAN
  /\ csock \in {"CONNECTING", "OPEN", "CLOSED"}
  /\ posted \in Seq(Lines)
  /\ werr \in Nat /\ typed \in 0..MaxTyped

=============================================================================
