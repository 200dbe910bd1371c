--------------------------- MODULE HandshakeProofs ---------------------------
(***************************************************************************)
(* Proofs about the abstract handshake, for every set of slots and users. *)
(* SandboxOwned is not inductive by itself: SignIn takes the name the     *)
(* slot carries in AUTH, so HInv adds that a slot in AUTH or               *)
(* NEED_INPUT_REGISTER carries a user name (LoginNamed is the only edge   *)
(* into the dialogue, and Confirm keeps the name).                         *)
(***************************************************************************)
EXTENDS Handshake, TLAPS

\* A slot in the login dialogue carries a user name.
HNamed ==
  \A s \in Sessions : hs[s] \in {"AUTH", "NEED_INPUT_REGISTER"} => who[s] \in Users

HInv == HTypeOK /\ HNamed /\ SandboxOwned

LEMMA HInitInv == Init => HInv
BY DEF Init, HInv, HTypeOK, HNamed, SandboxOwned, HStates, Boxes

\* Every edge of the table puts a slot into a state the invariant allows.
LEMMA PutInv ==
  ASSUME HInv, NEW s \in Sessions, NEW st \in HStates, NEW u \in Users \cup {""}, NEW d \in Boxes,
         Put(s, st, u, d),
         st \in {"AUTH", "NEED_INPUT_REGISTER"} => u \in Users,
         st = "READY" => d = PublicDir \/ (u \in Users /\ d = PrivateDir(u))
  PROVE  HInv'
BY DEF HInv, HTypeOK, HNamed, SandboxOwned, Put, HStates

THEOREM HNextInv == HInv /\ [Next]_hvars => HInv'
<1> SUFFICES ASSUME HInv, [Next]_hvars PROVE HInv'
  OBVIOUS
<1>1. ASSUME NEW s \in Sessions, Open(s) \/ Close(s) \/ LoginPublic(s)
      PROVE  HInv'
  BY <1>1, PutInv DEF Open, Close, LoginPublic, HStates, Boxes
<1>2. ASSUME NEW s \in Sessions, NEW u \in Users, LoginNamed(s, u)
      PROVE  HInv'
  BY <1>2, PutInv DEF LoginNamed, HStates, HInv, HTypeOK
<1>3. ASSUME NEW s \in Sessions, Confirm(s) \/ Decline(s) \/ SignIn(s)
      PROVE  HInv'
  <2>1. who[s] \in Users \cup {""} /\ box[s] \in Boxes
    BY Zenon DEF HInv, HTypeOK
  <2>2. CASE Confirm(s)
    <3>1. who[s] \in Users
      BY <2>2 DEF Confirm, HInv, HNamed
    <3> QED BY <2>1, <2>2, <3>1, PutInv DEF Confirm, HStates
  <2>3. CASE Decline(s)
    BY <2>1, <2>3, PutInv DEF Decline, HStates, Boxes
  <2>4. CASE SignIn(s)
    <3>1. who[s] \in Users
      BY <2>4 DEF SignIn, HInv, HNamed
    <3> QED BY <2>4, <3>1, PutInv DEF SignIn, HStates, Boxes
  <2> QED BY <1>3, <2>2, <2>3, <2>4
<1>4. CASE Halt
  BY <1>4 DEF Halt, HInv, HTypeOK, HNamed, SandboxOwned, HStates, Boxes
<1>5. CASE UNCHANGED hvars
  BY <1>5 DEF hvars, HInv, HTypeOK, HNamed, SandboxOwned
<1> QED BY <1>1, <1>2, <1>3, <1>4, <1>5 DEF Next

(***************************************************************************)
(* In the handshake, a READY connection's sandbox is the public one or    *)
(* the private sandbox of the user it logged in as.                        *)
(***************************************************************************)
THEOREM OwnedHolds == Spec => []SandboxOwned
<1>1. HInv => SandboxOwned
  BY DEF HInv
<1> QED BY HInitInv, HNextInv, <1>1, PTL DEF Spec

=============================================================================
