------------------------------ MODULE Dialogue ------------------------------
(***************************************************************************)
(* One minidrive client connected to the server: the Client module on one *)
(* side, the Session module's handlers for session slot S on the other,   *)
(* and a TCP connection between them, reliable and in order in each       *)
(* direction (toServer, toClient).                                         *)
(*                                                                         *)
(* The server reads one request at a time from the connection             *)
(* (Session::read_body), runs the handler requests_ maps it to, and       *)
(* writes the handler's response, if any (Session::write_response).  When  *)
(* the server process ends, the kernel closes the connection: the client   *)
(* learns it (its socket is CLOSED) and what it still had in flight to     *)
(* the server is lost.  The client never closes its socket (exit() does   *)
(* not post the shutdown) and its io thread cannot return while a read is *)
(* pending, so the server never sees this client leave while it runs:     *)
(* Session's Disconnect has no counterpart here.                           *)
(***************************************************************************)
EXTENDS Session

CONSTANTS
  S,           \* the session slot of the client's connection
  ClientUser,  \* username_ of the client
  Lines,       \* lines the user may type
  MaxTyped     \* bound: lines typed in one run

VARIABLES cstate, exiting, csock, reading, posted, werr, guard, ioRunning,
          inputOn, typed, toServer, toClient

C == INSTANCE Client WITH EmptyArg <- EmptyPath

cvars == <<cstate, exiting, csock, reading, posted, werr, guard, ioRunning,
           inputOn, typed>>
clientVars == <<cvars, toServer, toClient>>
allVars == <<vars, clientVars>>

-----------------------------------------------------------------------------
(***************************************************************************)
(* Session::handle_request (session.cpp 80-98) on request m: the handler  *)
(* requests_ maps m.cmd to, or "Unknown request".  The client never sends  *)
(* NEED_INPUT or DELETE (client.cpp never calls need_input, and           *)
(* cmd_delete sends LIST).                                                 *)
(***************************************************************************)
Handle(m) ==
  IF m.cmd \notin Dispatched THEN Unknown(S, m.cmd)
  ELSE IF m.cmd \in SilentCmds THEN Silent(S, m.cmd)
  ELSE IF m.cmd = "LOGIN" THEN Login(S, m.a)
  ELSE IF m.cmd = "AUTH" THEN Auth(S, m.a)
  ELSE IF m.cmd = "LIST" THEN List(S, m.a)
  ELSE IF m.cmd = "CD" THEN Cd(S, m.a)
  ELSE IF m.cmd = "MKDIR" THEN Mkdir(S, m.a)
  ELSE IF m.cmd = "RMDIR" THEN Rmdir(S, m.a)
  ELSE IF m.cmd = "MOVE" THEN Move(S, m.a, m.b)
  ELSE Copy(S, m.a, m.b)

(***************************************************************************)
(* Session::read_body's handler: the oldest request is parsed and handled *)
(* and the response the handler wrote goes out, unless the handler ended  *)
(* the process.                                                            *)
(***************************************************************************)
Serve ==
  /\ up /\ conn[S] /\ toServer # <<>>
  /\ Handle(Head(toServer))
  /\ toServer' = Tail(toServer)
  /\ toClient' = IF up' /\ resp'[S] # NoResp THEN Append(toClient, resp'[S])
                 ELSE toClient
  /\ UNCHANGED cvars

\* Server::accept and the client's connect handler: the connection is up.
Accept ==
  /\ Connect(S)
  /\ C!Connected

\* No server listens: the client's connect fails.
Refused ==
  /\ ~up
  /\ C!ConnectFails
  /\ UNCHANGED vars

\* The server side of the connection is gone: the client's kernel sees the
\* close, and the requests it had not yet delivered are lost.
PeerClosed ==
  /\ csock = "OPEN" /\ ~(up /\ conn[S])
  /\ csock' = "CLOSED"
  /\ toServer' = <<>>
  /\ UNCHANGED <<vars, cstate, exiting, reading, posted, werr, guard,
                 ioRunning, inputOn, typed, toClient>>

\* A step of the client alone.
ClientStep ==
  /\ \/ \E l \in Lines : C!InputLine(l)
     \/ C!InputEof \/ C!RunPosted \/ C!Receive \/ C!ReadFails
     \/ C!WriteFails \/ C!SigInt \/ C!IoStops
  /\ UNCHANGED vars

\* The operator stops or restarts the server; the client sees nothing yet.
ServerProcess ==
  /\ Stop \/ Restart
  /\ UNCHANGED clientVars

DInit == Init /\ C!Init

DNext ==
  \/ Accept \/ Refused \/ Serve \/ PeerClosed
  \/ ClientStep \/ ServerProcess

DSpec == DInit /\ [][DNext]_allVars

(***************************************************************************)
(* Fairness the code justifies: the io threads of client and server run   *)
(* whatever is ready (a posted line, a completed read, a failed write),    *)
(* and TCP delivers.  async_connect always completes (client.cpp 46-55),  *)
(* accepted when a server listens and refused when none does, so the two *)
(* are one fair step even while the operator keeps restarting.  The user, *)
(* the signal and the operator are free: nothing forces a line to be      *)
(* typed or the server to stop.                                            *)
(***************************************************************************)
FairDSpec ==
  /\ DSpec
  /\ WF_allVars(Serve) /\ WF_allVars(PeerClosed)
  /\ WF_allVars(Accept \/ Refused)
  /\ WF_allVars(C!RunPosted /\ UNCHANGED vars)
  /\ WF_allVars(C!Receive /\ UNCHANGED vars)
  /\ WF_allVars(C!ReadFails /\ UNCHANGED vars)
  /\ WF_allVars(C!WriteFails /\ UNCHANGED vars)
  /\ WF_allVars(C!IoStops /\ UNCHANGED vars)

-----------------------------------------------------------------------------
(***************************************************************************)
(* Properties.                                                             *)
(***************************************************************************)

(***************************************************************************)
(* Spec 2 and 7: every request is answered.  A request the client waits  *)
(* on (state PROCESSING after send) is eventually answered, or the client *)
(* is shutting down; a server that dies closes the connection, which the  *)
(* client's pending read reports.  session.cpp's upload, download and     *)
(* sync handlers write no response at all.                                 *)
(***************************************************************************)
ProcessingAnswered == cstate = "PROCESSING" ~> (cstate # "PROCESSING" \/ exiting)

\* The server state each client state mirrors (spec 4.4).
Mirror == [LOGIN |-> "LOGIN", AUTH |-> "AUTH", READY |-> "READY",
           NEED_INPUT |-> "NEED_INPUT_REGISTER"]

(***************************************************************************)
(* Spec 2: the client's state never diverges from the server's.  When     *)
(* nothing is in flight either way and both ends are up, the client is in *)
(* the state that mirrors its session's.                                   *)
(***************************************************************************)
MirrorAgrees ==
  /\ toServer = <<>> /\ toClient = <<>> /\ posted = <<>>
  /\ up /\ conn[S] /\ csock = "OPEN" /\ cstate \in DOMAIN Mirror
  => Mirror[cstate] = state[S]

(***************************************************************************)
(* Spec 4.1/4.4: EXIT is terminal.  Once Client::exit has run, no later    *)
(* response or line takes the client out of EXIT.                          *)
(***************************************************************************)
ExitIsTerminal == [][cstate = "EXIT" => cstate' = "EXIT"]_allVars

(***************************************************************************)
(* Spec 4.4/5: process interruption shuts the client down: after SIGINT   *)
(* (the work guard reset and exit() run), io_context.run() returns.       *)
(***************************************************************************)
InterruptEnds == ~guard ~> ~ioRunning

=============================================================================
