--------------------------- MODULE CredentialProofs ---------------------------
(***************************************************************************)
(* Proof that a session which passed AUTH holds a stored credential       *)
(* (AuthenticatedHasCredential), for every value of the constants that    *)
(* satisfies ConstantsAssumption.                                          *)
(*                                                                         *)
(* AuthenticatedHasCredential reads Database::load's result, users.json   *)
(* or, when that file is gone, the memory table entries_.  It is not      *)
(* inductive: a reload by another session replaces entries_, and a        *)
(* restart empties it.  CredentialsStored (Session.tla) is: entries_ only *)
(* holds records users.json also holds, so a reload never drops one;      *)
(* every authenticated session's record is in entries_, so the table the *)
(* server falls back to has it; and nobody is authenticated while the     *)
(* process is down, so a restart's empty entries_ drops no one's record.  *)
(***************************************************************************)
EXTENDS SessionProofs

CInv == IInv /\ CredentialsStored

-----------------------------------------------------------------------------
(***************************************************************************)
(* Lemmas on the tables.                                                   *)
(***************************************************************************)

\* A record held by a table is still held after a record is appended, and
\* the appended record is held.
LEMMA HoldsAppend ==
  ASSUME NEW L \in Seq(Entry), NEW e \in Entry, NEW x
  PROVE  /\ Holds(L, x) => Holds(Append(L, e), x)
         /\ Holds(Append(L, e), e)
<1>1. DOMAIN Append(L, e) = 1..Len(L) + 1 /\ Append(L, e)[Len(L) + 1] = e
      /\ \A i \in 1..Len(L) : Append(L, e)[i] = L[i]
  BY AppendProperties
<1>2. DOMAIN L = 1..Len(L)
  OBVIOUS
<1> QED BY <1>1, <1>2 DEF Holds

\* Database::load never loses a record of entries_: what it returns holds
\* only records of users.json, and every record entries_ holds.
LEMMA LoadedCovers ==
  ASSUME CredentialsStored
  PROVE  /\ \A i \in DOMAIN Loaded : Holds(dbFile, Loaded[i])
         /\ \A e : Holds(entries, e) => Holds(Loaded, e)
BY DEF CredentialsStored, Loaded, Holds

\* Only a READY session can have passed AUTH.
LEMMA NotReadyNoPw ==
  ASSUME CredentialsStored, NEW s \in Sessions, state[s] # "READY"
  PROVE  authPw[s] = ""
BY DEF CredentialsStored

\* The process ends: no table, no authenticated session.
LEMMA CrashCred ==
  ASSUME NEW d, NEW f, NEW db, Crash(d, f, db)
  PROVE  CredentialsStored'
<1>1. DOMAIN entries' = {}
  <2>1. entries' = <<>>
    BY DEF Crash
  <2>2. DOMAIN <<>> = {}
    BY EmptySeq
  <2> QED BY <2>1, <2>2
<1>2. \A t \in Sessions : authPw'[t] = ""
  BY DEF Crash
<1> QED BY <1>1, <1>2 DEF CredentialsStored

(***************************************************************************)
(* The frame of most steps: users.json and the process stay, entries_     *)
(* stays or is reloaded, the other sessions keep their name, state and    *)
(* credential, and the acting session loses its credential, keeps it      *)
(* with its name and state, or ends READY with a credential entries_      *)
(* holds while the process runs.                                          *)
(***************************************************************************)
LEMMA CredFrame ==
  ASSUME CredentialsStored, TypeOK, NEW s \in Sessions,
         entries' \in {entries, Loaded}, dbFile' = dbFile, up' = up,
         \A t \in Sessions \ {s} :
           authPw'[t] = authPw[t] /\ username'[t] = username[t] /\ state'[t] = state[t],
         \/ authPw'[s] = ""
         \/ authPw'[s] = authPw[s] /\ username'[s] = username[s] /\ state'[s] = state[s]
         \/ up' /\ state'[s] = "READY" /\ Holds(entries', Cred(s)')
  PROVE  CredentialsStored'
<1>1. \A i \in DOMAIN entries' : Holds(dbFile', entries'[i])
  BY LoadedCovers DEF CredentialsStored
<1>2. ASSUME NEW t \in Sessions, authPw'[t] # "",
             authPw'[t] = authPw[t], username'[t] = username[t], state'[t] = state[t]
      PROVE  state'[t] = "READY" /\ Holds(entries', Cred(t)')
  <2>1. state[t] = "READY" /\ Holds(entries, Cred(t))
    BY <1>2 DEF CredentialsStored
  <2>2. Cred(t)' = Cred(t)
    BY <1>2 DEF Cred
  <2> QED BY <1>2, <2>1, <2>2, LoadedCovers
<1>3. \A t \in Sessions : authPw'[t] # "" => state'[t] = "READY" /\ Holds(entries', Cred(t)')
  BY <1>2
<1>4. ~up' => \A t \in Sessions : authPw'[t] = ""
  BY DEF CredentialsStored
<1> QED BY <1>1, <1>3, <1>4 DEF CredentialsStored

\* A step that leaves the tables, the process and every session's name,
\* state and credential alone.
LEMMA CredUnchanged ==
  ASSUME CredentialsStored, UNCHANGED <<entries, dbFile, up, authPw, username, state>>
  PROVE  CredentialsStored'
BY DEF CredentialsStored, Cred

-----------------------------------------------------------------------------
(***************************************************************************)
(* One lemma per handler: it preserves CredentialsStored.                  *)
(***************************************************************************)

\* The commands that answer, fail or crash and touch no session's login.
LEMMA QuietCred ==
  ASSUME CredentialsStored, NEW s \in Sessions,
         \/ \E c \in Requests : Unknown(s, c) \/ Silent(s, c)
         \/ \E a \in PathArgs : List(s, a) \/ Delete(s, a) \/ Cd(s, a)
                                \/ Mkdir(s, a) \/ Rmdir(s, a)
         \/ \E a, b \in PathArgs : Move(s, a, b) \/ Copy(s, a, b)
  PROVE  CredentialsStored'
<1>1. \/ UNCHANGED <<entries, dbFile, up, authPw, username, state>>
      \/ \E d, f, db : Crash(d, f, db)
  <2>1. CASE \E c \in Requests : Unknown(s, c) \/ Silent(s, c)
    BY <2>1 DEF Unknown, Silent, Respond, procVars, diskVars
  <2>2. CASE \E a \in PathArgs : List(s, a) \/ Delete(s, a) \/ Cd(s, a)
    BY <2>2 DEF List, Delete, Cd, Respond, FsUnchanged, procVars, diskVars
  <2>3. CASE \E a \in PathArgs : Mkdir(s, a) \/ Rmdir(s, a)
    BY <2>3 DEF Mkdir, Rmdir, Respond, FsUnchanged, procVars, diskVars
  <2>4. CASE \E a, b \in PathArgs : Move(s, a, b)
    BY <2>4 DEF Move, Respond, FsUnchanged, procVars, diskVars
  <2>5. CASE \E a, b \in PathArgs : Copy(s, a, b)
    BY <2>5 DEF Copy, Respond, FsUnchanged, procVars, diskVars
  <2> QED BY <2>1, <2>2, <2>3, <2>4, <2>5
<1> QED BY <1>1, CrashCred, CredUnchanged

\* Session::need_input moves a session that has not passed AUTH.
LEMMA NeedInputCred ==
  ASSUME CredentialsStored, TypeOK, NEW s \in Sessions, NEW a \in Replies, NeedInput(s, a)
  PROVE  CredentialsStored'
<1>1. CASE state[s] # "NEED_INPUT_REGISTER"
  BY <1>1, CredUnchanged DEF NeedInput, Respond, procVars, diskVars
<1>2. CASE state[s] = "NEED_INPUT_REGISTER"
  <2>1. authPw[s] = ""
    BY <1>2, NotReadyNoPw
  <2>2. /\ UNCHANGED <<entries, dbFile, up, authPw, username>>
        /\ \A t \in Sessions \ {s} : state'[t] = state[t]
    BY <1>2 DEF NeedInput, Respond, Reply, GoReady, procVars, diskVars, TypeOK
  <2> QED BY <2>1, <2>2, CredFrame
<1> QED BY <1>1, <1>2

\* Session::login names a session still in LOGIN, or crashes.
LEMMA LoginCred ==
  ASSUME CredentialsStored, TypeOK, NEW s \in Sessions, NEW a \in Users \cup {""}, Login(s, a)
  PROVE  CredentialsStored'
<1>1. CASE state[s] # "LOGIN"
  BY <1>1, CredUnchanged DEF Login, Respond, procVars, diskVars
<1>2. CASE state[s] = "LOGIN" /\ a # "" /\ ~dbReady
  BY <1>2, CrashCred DEF Login
<1>3. CASE state[s] = "LOGIN" /\ ~(a # "" /\ ~dbReady)
  <2>1. authPw[s] = ""
    BY <1>3, NotReadyNoPw
  <2>2. /\ entries' \in {entries, Loaded} /\ UNCHANGED <<dbFile, up, authPw>>
        /\ \A t \in Sessions \ {s} : state'[t] = state[t] /\ username'[t] = username[t]
    BY <1>3 DEF Login, Reply, GoReady, procVars, diskVars, TypeOK
  <2> QED BY <2>1, <2>2, CredFrame
<1> QED BY <1>1, <1>2, <1>3

\* A connection opens or closes: that session starts over in LOGIN.
LEMMA ConnectCred ==
  ASSUME CredentialsStored, TypeOK, NEW s \in Sessions, Connect(s) \/ Disconnect(s)
  PROVE  CredentialsStored'
<1>1. /\ UNCHANGED <<entries, dbFile, up>> /\ authPw'[s] = ""
      /\ \A t \in Sessions \ {s} :
           authPw'[t] = authPw[t] /\ username'[t] = username[t] /\ state'[t] = state[t]
  BY DEF Connect, Disconnect, ResetSession, procVars, diskVars, TypeOK
<1> QED BY <1>1, CredFrame

\* The operator stops the process, or main starts it again.
LEMMA ProcessCred ==
  ASSUME CredentialsStored, Stop \/ Restart
  PROVE  CredentialsStored'
<1>1. CASE Stop
  BY <1>1, CrashCred DEF Stop
<1>2. CASE Restart
  <2>1. DOMAIN entries' = {}
    BY <1>2, EmptySeq DEF Restart
  <2>2. \A t \in Sessions : authPw'[t] = ""
    BY <1>2 DEF Restart, CredentialsStored, sessVars
  <2> QED BY <2>1, <2>2 DEF CredentialsStored
<1> QED BY <1>1, <1>2

(***************************************************************************)
(* Session::auth: a session is let in only with the password Database::   *)
(* load returned for its name (validate_user), or after add_user appended *)
(* its record and saved the table to users.json in the same handler.      *)
(***************************************************************************)
LEMMA AuthCred ==
  ASSUME CInv, NEW s \in Sessions, NEW p \in Passwords \cup {""}, Auth(s, p)
  PROVE  CredentialsStored'
<1> DEFINE u == username[s]
           rec == [username |-> u, password |-> p]
           new == Append(Loaded, rec)
<1> USE DEF CInv, IInv
<1>1. CASE state[s] # "AUTH" \/ p = ""
  BY <1>1, CredUnchanged DEF Auth, Respond, procVars, diskVars
<1>2. CASE state[s] = "AUTH" /\ p # "" /\ ~dbReady
  BY <1>2, CrashCred DEF Auth
<1>3. CASE state[s] = "AUTH" /\ p # "" /\ dbReady /\ UserExists(u) /\ ~ValidateUser(u, p)
  <2>1. authPw[s] = ""
    BY <1>3, NotReadyNoPw
  <2>2. entries' = Loaded /\ UNCHANGED <<dbFile, up, authPw, username, state>>
    BY <1>3 DEF Auth, Reply, diskVars
  <2> QED BY <2>1, <2>2, CredFrame
<1>4. CASE state[s] = "AUTH" /\ p # "" /\ dbReady /\ UserExists(u) /\ ValidateUser(u, p)
           /\ SetupDirThrows(u)
  BY <1>4, CrashCred DEF Auth
<1>5. CASE state[s] = "AUTH" /\ p # "" /\ dbReady /\ UserExists(u) /\ ValidateUser(u, p)
           /\ ~SetupDirThrows(u)
  <2>0. Authenticated(s, p) /\ entries' = Loaded /\ dbFile' = dbFile
    BY <1>5 DEF Auth
  <2>1. /\ entries' = Loaded /\ UNCHANGED <<dbFile, up, username>>
        /\ authPw'[s] = p /\ state'[s] = "READY"
        /\ \A t \in Sessions \ {s} : authPw'[t] = authPw[t] /\ state'[t] = state[t]
    BY <1>5, <2>0 DEF Authenticated, GoReady, Reply, TypeOK
  <2>2. up
    BY <1>5 DEF Auth, Serving
  <2>3. Holds(entries', Cred(s)')
    BY <1>5, <2>1 DEF ValidateUser, Holds, Cred
  <2> QED BY <2>1, <2>2, <2>3, CredFrame
<1>6. CASE state[s] = "AUTH" /\ p # "" /\ dbReady /\ ~UserExists(u)
           /\ (~SaveOk \/ SetupDirThrows(u))
  BY <1>6, CrashCred DEF Auth
<1>7. CASE state[s] = "AUTH" /\ p # "" /\ dbReady /\ ~UserExists(u)
           /\ SaveOk /\ ~SetupDirThrows(u)
  <2>0. Authenticated(s, p) /\ entries' = new /\ dbFile' = new
    BY <1>7 DEF Auth
  <2>1. /\ entries' = new /\ dbFile' = new /\ up' = up
        /\ authPw'[s] = p /\ state'[s] = "READY" /\ username'[s] = u
        /\ \A t \in Sessions \ {s} :
             authPw'[t] = authPw[t] /\ username'[t] = username[t] /\ state'[t] = state[t]
    BY <2>0 DEF Authenticated, GoReady, Reply, TypeOK
  <2>2. up
    BY <1>7 DEF Auth, Serving
  <2>3. Loaded \in Seq(Entry) /\ rec \in Entry
    BY <1>7, LoadedType DEF DialogueNamed, Entry
  <2>4. \A i \in DOMAIN entries' : Holds(dbFile', entries'[i])
    BY <2>1 DEF Holds
  <2>5. Holds(entries', Cred(s)')
    <3>1. Cred(s)' = rec
      BY <2>1 DEF Cred
    <3>2. Holds(new, rec)
      BY <2>3, HoldsAppend
    <3> QED BY <2>1, <3>1, <3>2
  <2>6. ASSUME NEW t \in Sessions \ {s}, authPw'[t] # ""
        PROVE  state'[t] = "READY" /\ Holds(entries', Cred(t)')
    <3>1. state[t] = "READY" /\ Holds(Loaded, Cred(t))
      BY <2>1, <2>6, LoadedCovers DEF CredentialsStored
    <3>2. Cred(t)' = Cred(t)
      BY <2>1, <2>6 DEF Cred
    <3>3. Holds(new, Cred(t))
      BY <2>3, <3>1, HoldsAppend
    <3> QED BY <2>1, <3>1, <3>2, <3>3
  <2> QED BY <2>1, <2>2, <2>4, <2>5, <2>6 DEF CredentialsStored
<1> QED BY <1>1, <1>2, <1>3, <1>4, <1>5, <1>6, <1>7

-----------------------------------------------------------------------------
THEOREM NextCInv == CInv /\ [Next]_vars => CInv'
<1> SUFFICES ASSUME CInv, [Next]_vars PROVE CInv'
  OBVIOUS
<1>1. IInv'
  BY NextIInv DEF CInv
<1>2. CredentialsStored /\ TypeOK
  BY DEF CInv, IInv
<1>3. CredentialsStored'
  <2>1. CASE \E s \in Sessions :
               \/ \E c \in Requests : Unknown(s, c) \/ Silent(s, c)
               \/ \E a \in PathArgs : List(s, a) \/ Delete(s, a) \/ Cd(s, a)
                                      \/ Mkdir(s, a) \/ Rmdir(s, a)
               \/ \E a, b \in PathArgs : Move(s, a, b) \/ Copy(s, a, b)
    BY <1>2, <2>1, QuietCred
  <2>2. CASE \E s \in Sessions : \E a \in Replies : NeedInput(s, a)
    BY <1>2, <2>2, NeedInputCred
  <2>3. CASE \E s \in Sessions : \E a \in Users \cup {""} : Login(s, a)
    BY <1>2, <2>3, LoginCred
  <2>4. CASE \E s \in Sessions : \E p \in Passwords \cup {""} : Auth(s, p)
    BY <2>4, AuthCred
  <2>5. CASE \E s \in Sessions : Connect(s) \/ Disconnect(s)
    BY <1>2, <2>5, ConnectCred
  <2>6. CASE Stop \/ Restart
    BY <1>2, <2>6, ProcessCred
  <2>7. CASE UNCHANGED vars
    BY <1>2, <2>7, CredUnchanged DEF vars, procVars, diskVars, sessVars
  <2> QED BY <2>1, <2>2, <2>3, <2>4, <2>5, <2>6, <2>7 DEF Next
<1> QED BY <1>1, <1>3 DEF CInv

\* CredentialsStored gives AuthenticatedHasCredential: Database::load
\* returns users.json, which holds every record of entries_, or entries_.
LEMMA CInvCredential ==
  ASSUME CInv
  PROVE  AuthenticatedHasCredential
<1> SUFFICES ASSUME NEW s \in Sessions, conn[s], state[s] = "READY", authPw[s] # ""
             PROVE  Holds(Loaded, Cred(s))
  BY DEF AuthenticatedHasCredential, Holds, Cred
<1>1. Holds(entries, Cred(s))
  BY DEF CInv, CredentialsStored
<1> QED BY <1>1, LoadedCovers DEF CInv

\* No table and no authenticated session at the start.
LEMMA InitCInv == Init => CInv
<1> SUFFICES ASSUME Init PROVE CInv
  OBVIOUS
<1>1. IInv
  BY InitIInv
<1>2. DOMAIN entries = {}
  <2>1. entries = <<>>
    BY DEF Init
  <2>2. DOMAIN <<>> = {}
    BY EmptySeq
  <2> QED BY <2>1, <2>2
<1>3. \A s \in Sessions : authPw[s] = ""
  BY DEF Init
<1> QED BY <1>1, <1>2, <1>3 DEF CInv, CredentialsStored

(***************************************************************************)
(* Every session that passed AUTH and is still connected holds the        *)
(* password stored for its user in the table Database::load returns,      *)
(* however the other sessions' logins, registrations and reloads, a       *)
(* users.json that is missing, crashes and restarts interleave with it.   *)
(***************************************************************************)
THEOREM CredentialHolds == Spec => []AuthenticatedHasCredential
<1>1. Init => CInv
  BY InitCInv
<1>2. CInv => AuthenticatedHasCredential
  BY CInvCredential
<1> QED BY <1>1, <1>2, NextCInv, PTL DEF Spec

(***************************************************************************)
(* In every reachable state entries_ holds only records of users.json,    *)
(* every session that passed AUTH is READY with its record in entries_,   *)
(* and no session has passed AUTH while the process is down.               *)
(***************************************************************************)
THEOREM CredentialsStoredHolds == Spec => []CredentialsStored
<1>1. CInv => CredentialsStored
  BY DEF CInv
<1> QED BY InitCInv, <1>1, NextCInv, PTL DEF Spec

=============================================================================
