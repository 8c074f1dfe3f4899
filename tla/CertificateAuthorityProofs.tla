---------------------- MODULE CertificateAuthorityProofs ----------------------
(***************************************************************************)
(* Proofs about CertificateAuthority, for any number of devices, key pairs *)
(* and crashes.                                                            *)
(***************************************************************************)
EXTENDS CertificateAuthority, TLAPS

(***************************************************************************)
(* ca_cert.pem is opened only after ca_key.pem is complete, and from then  *)
(* on the key stays; nothing is on record before both are.                 *)
(***************************************************************************)
FilesInOrder ==
  /\ ca_cert # Absent => ca_key \in Keys
  /\ ca_cert \in Keys => ca_key = ca_cert
  /\ ca_cert \notin Keys =>
       \A n \in Nids : device[n] = Absent /\ revoked[n] = Absent /\ handed[n] = {}

\* What the process has done to the files, by where it is.
ProcessTellsFiles ==
  /\ pc # "down" => private_key \in Keys /\ certificate = private_key
  /\ pc = "writing key" => ca_cert = Absent
  /\ pc = "key written" => ca_cert = Absent /\ ca_key = private_key
  /\ pc = "writing cert" => ca_cert = Torn /\ ca_key = private_key
  /\ pc \in {"ready", "writing device"} => ca_cert = private_key

IInv == TypeOK /\ FilesInOrder /\ ProcessTellsFiles /\ IssuedVerifies

LEMMA Contained == Absent \notin Keys /\ Torn \notin Keys /\ Torn # Absent
BY AuthorityAssumption DEF Absent, Torn, Keys

LEMMA Initially == Init => IInv
BY Contained, AuthorityAssumption
   DEF Init, IInv, TypeOK, FilesInOrder, ProcessTellsFiles, IssuedVerifies, Contents, Absent

(***************************************************************************)
(* Creating the CA: while ca_cert.pem is not complete nothing is on        *)
(* record, so a new pair does no harm.                                     *)
(***************************************************************************)
LEMMA CreationKeeps ==
  ASSUME IInv, Create \/ KeyWritten \/ OpenCert \/ CertWritten
  PROVE  IInv'
<1> USE Contained, AuthorityAssumption DEF IInv
<1>1. CASE Create
  <2>1. ca_cert \notin Keys /\ ca_cert = Absent
    BY <1>1 DEF Create, FilesInOrder
  <2>2. created + 1 \in Keys /\ created + 1 \in 0 .. MaxKeys
    <3>1. created \in 0 .. MaxKeys /\ created < MaxKeys
      BY <1>1 DEF Create, TypeOK
    <3> QED BY <3>1 DEF Keys
  <2>3. /\ ca_key' = Torn /\ pc' = "writing key" /\ ca_cert' = Absent
        /\ private_key' = created + 1 /\ certificate' = created + 1
        /\ created' = created + 1
        /\ UNCHANGED <<device, revoked, target, handed>>
    BY <1>1, <2>1 DEF Create
  <2>4. TypeOK'
    BY <2>2, <2>3 DEF TypeOK, Contents
  <2>5. FilesInOrder' /\ IssuedVerifies'
    BY <2>1, <2>3 DEF FilesInOrder, IssuedVerifies
  <2>6. ProcessTellsFiles'
    BY <2>2, <2>3 DEF ProcessTellsFiles
  <2> QED BY <2>4, <2>5, <2>6
<1>2. CASE KeyWritten
  BY <1>2 DEF KeyWritten, memory, TypeOK, FilesInOrder, ProcessTellsFiles,
              IssuedVerifies, Contents
<1>3. CASE OpenCert
  BY <1>3 DEF OpenCert, memory, TypeOK, FilesInOrder, ProcessTellsFiles,
              IssuedVerifies, Contents
<1>4. CASE CertWritten
  <2>1. private_key \in Keys /\ certificate = private_key /\ ca_key = private_key
        /\ ca_cert # Absent
    BY <1>4 DEF CertWritten, ProcessTellsFiles
  <2>2. /\ ca_cert' = certificate /\ pc' = "ready"
        /\ UNCHANGED <<ca_key, device, revoked, private_key, certificate, target,
                       created, handed>>
    BY <1>4 DEF CertWritten, memory
  <2>3. ca_cert \notin Keys
    BY <1>4 DEF CertWritten, ProcessTellsFiles
  <2>4. TypeOK'
    BY <2>1, <2>2 DEF TypeOK, Contents
  <2>5. FilesInOrder' /\ IssuedVerifies'
    BY <2>1, <2>2, <2>3 DEF FilesInOrder, IssuedVerifies
  <2>6. ProcessTellsFiles'
    BY <2>1, <2>2 DEF ProcessTellsFiles
  <2> QED BY <2>4, <2>5, <2>6
<1> QED BY <1>1, <1>2, <1>3, <1>4

(***************************************************************************)
(* The commands: a process that got to issuing has the pair of the disk.   *)
(***************************************************************************)
LEMMA CommandsKeep ==
  ASSUME IInv, Issued \/ \E n \in Nids : Issue(n) \/ Revoke(n)
  PROVE  IInv'
<1> USE Contained, AuthorityAssumption DEF IInv
<1>1. pc \in {"ready", "writing device"}
  BY DEF Issued, Issue, Revoke
<1>2. private_key \in Keys /\ ca_cert = private_key /\ ca_key = private_key
  BY <1>1 DEF ProcessTellsFiles, FilesInOrder
<1>3. ASSUME NEW n \in Nids, Issue(n) PROVE IInv'
  BY <1>2, <1>3 DEF Issue, memory, TypeOK, FilesInOrder, ProcessTellsFiles,
                    IssuedVerifies, Contents
<1>4. ASSUME NEW n \in Nids, Revoke(n) PROVE IInv'
  BY <1>2, <1>4 DEF Revoke, memory, TypeOK, FilesInOrder, ProcessTellsFiles,
                    IssuedVerifies, Contents
<1>5. CASE Issued
  BY <1>2, <1>5 DEF Issued, memory, TypeOK, FilesInOrder, ProcessTellsFiles,
                    IssuedVerifies, Contents
<1> QED BY <1>3, <1>4, <1>5

LEMMA Inductive == IInv /\ [Next]_vars => IInv'
<1> SUFFICES ASSUME IInv, [Next]_vars PROVE IInv' OBVIOUS
<1>1. CASE Load
  BY <1>1, Contained DEF Load, files, IInv, TypeOK, FilesInOrder, ProcessTellsFiles,
                         IssuedVerifies
<1>2. CASE Exit
  BY <1>2, Contained DEF Exit, files, IInv, TypeOK, FilesInOrder, ProcessTellsFiles,
                         IssuedVerifies
<1>3. CASE UNCHANGED vars
  BY <1>3 DEF vars, files, memory, IInv, TypeOK, FilesInOrder, ProcessTellsFiles,
              IssuedVerifies
<1> QED BY <1>1, <1>2, <1>3, CreationKeeps, CommandsKeep DEF Next
-----------------------------------------------------------------------------
(***************************************************************************)
(* Types of files and memory.                                              *)
(***************************************************************************)
THEOREM TypeCorrect == Spec => []TypeOK
<1>1. IInv => TypeOK BY DEF IInv
<1> QED BY <1>1, Initially, Inductive, PTL DEF Spec

(***************************************************************************)
(* No crash costs a certificate that was issued.                           *)
(***************************************************************************)
THEOREM IssuedStaysValid == Spec => []IssuedVerifies
<1>1. IInv => IssuedVerifies BY DEF IInv
<1> QED BY <1>1, Initially, Inductive, PTL DEF Spec

(***************************************************************************)
(* A complete CA never changes.                                            *)
(***************************************************************************)
THEOREM RootStays == Spec => RootIsStable
<1>1. IInv /\ [Next]_vars
        => [(ca_cert \in Keys) => ca_cert' = ca_cert /\ ca_key' = ca_key]_vars
  <2> SUFFICES ASSUME IInv, Next, ca_cert \in Keys
               PROVE  ca_cert' = ca_cert /\ ca_key' = ca_key
    OBVIOUS
  <2>1. ca_key \in Keys /\ ca_key = ca_cert
    BY DEF IInv, FilesInOrder
  <2>2. ~Create /\ ~KeyWritten /\ ~OpenCert
    BY <2>1, Contained DEF Create, KeyWritten, OpenCert, IInv, ProcessTellsFiles
  <2>3. CASE CertWritten
    BY <2>1, <2>3 DEF CertWritten, IInv, ProcessTellsFiles
  <2> QED BY <2>2, <2>3 DEF Next, Load, Issue, Issued, Revoke, Exit, files
<1> QED BY <1>1, Initially, Inductive, PTL DEF Spec, RootIsStable

(***************************************************************************)
(* Only a torn ca_cert.pem keeps the CA from starting, and then nothing    *)
(* was issued.                                                             *)
(***************************************************************************)
THEOREM StartsAreSafe == Spec => []StartsUnlessCertTorn
<1>1. IInv => StartsUnlessCertTorn
  BY Contained DEF IInv, FilesInOrder, StartsUnlessCertTorn
<1> QED BY <1>1, Initially, Inductive, PTL DEF Spec
-----------------------------------------------------------------------------
(***************************************************************************)
(* Files, processes and crashes implement the trust anchor: closing        *)
(* ca_cert.pem chooses the root, closing a device's file hands out; all    *)
(* else, crashes included, is not seen.                                    *)
(***************************************************************************)
THEOREM FilesAreAnchor == Spec => IsAnchor
<1> DEFINE root == IF ca_cert \in Keys THEN ca_cert ELSE Absent
<1> USE Contained
<1>1. Init => Anchor!Init
  BY DEF Init, Anchor!Init
<1>2. IInv /\ [Next]_vars => [Anchor!Next]_<<root, handed>>
  <2> SUFFICES ASSUME IInv, [Next]_vars
               PROVE  Anchor!Next \/ (root' = root /\ handed' = handed)
    OBVIOUS
  <2>1. CASE OpenCert
    <3>1. ca_cert \notin Keys /\ ca_cert' \notin Keys /\ handed' = handed
      BY <2>1 DEF OpenCert, IInv, ProcessTellsFiles, Torn
    <3> QED BY <3>1
  <2>2. CASE CertWritten
    <3>1. certificate \in Keys /\ ca_cert \notin Keys
      BY <2>2 DEF CertWritten, IInv, ProcessTellsFiles
    <3>2. ca_cert' = certificate /\ handed' = handed
      BY <2>2 DEF CertWritten
    <3>3. root = Absent /\ root' = certificate
      BY <3>1, <3>2 DEF Keys
    <3> QED BY <3>1, <3>2, <3>3 DEF Anchor!Next, Anchor!Choose
  <2>3. CASE Issued
    <3>1. ca_cert \in Keys /\ ca_cert = private_key /\ ca_cert' = ca_cert
          /\ target \in Nids
      BY <2>3 DEF Issued, IInv, TypeOK, ProcessTellsFiles
    <3>2. handed' = [handed EXCEPT ![target] = handed[target] \cup {private_key}]
      BY <2>3 DEF Issued
    <3>3. root = private_key /\ root' = root
      BY <3>1 DEF Keys
    <3> QED BY <3>1, <3>2, <3>3 DEF Anchor!Next, Anchor!HandOut
  <2>4. CASE UNCHANGED <<ca_cert, handed>>
    BY <2>4 DEF Keys
  <2>5. OpenCert \/ CertWritten \/ Issued \/ UNCHANGED <<ca_cert, handed>>
    BY DEF Next, Load, Create, KeyWritten, Issue, Revoke, Exit, vars, files
  <2> QED BY <2>1, <2>2, <2>3, <2>4, <2>5
<1> QED BY <1>1, <1>2, Initially, Inductive, PTL DEF Spec, IsAnchor, Anchor!Spec
=============================================================================
