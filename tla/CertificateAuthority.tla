------------------------- MODULE CertificateAuthority -------------------------
(***************************************************************************)
(* The certification authority of support/ca_manager.py on its file system:*)
(* the CLI process that loads or creates the CA and then issues and        *)
(* revokes certificates, and crashes of it at any point.                   *)
(*                                                                         *)
(* Key pairs are numbered in the order of their creation.  The number      *)
(* stands for the private key, for the certificate over its public key and *)
(* for the signatures made with it.  open(.., "wb") truncates the file and *)
(* the contents are there when it is closed; in between, or when the       *)
(* process ends in between, the file is Torn.  One process runs at a time. *)
(***************************************************************************)
EXTENDS Naturals

CONSTANTS
  Nids,      \* the devices certificates are issued for
  MaxKeys    \* bound on the key pairs created

ASSUME AuthorityAssumption == MaxKeys \in Nat

VARIABLES
  ca_key,       \* ca_key.pem: Absent, Torn or a key pair
  ca_cert,      \* ca_cert.pem, likewise
  device,       \* nid -> device_<nid>.pem: Absent, Torn or the signer
  revoked,      \* nid -> revoked_<nid>.pem, likewise
  pc,           \* what the process is doing
  private_key,  \* self.private_key
  certificate,  \* self.certificate
  target,       \* the device whose file is being written
  created,      \* key pairs created so far
  handed        \* nid -> signers of the certificates handed out for it

files == <<ca_key, ca_cert, device, revoked>>
memory == <<private_key, certificate>>
vars == <<files, pc, memory, target, created, handed>>

Keys == 1 .. MaxKeys
Absent == 0
Torn == MaxKeys + 1
Contents == Keys \cup {Absent, Torn}

TypeOK ==
  /\ ca_key \in Contents /\ ca_cert \in Contents
  /\ device \in [Nids -> Contents] /\ revoked \in [Nids -> Contents]
  /\ pc \in {"down", "writing key", "key written", "writing cert", "ready",
             "writing device"}
  /\ private_key \in Keys \cup {Absent} /\ certificate \in Keys \cup {Absent}
  /\ target \in Nids
  /\ created \in 0 .. MaxKeys
  /\ handed \in [Nids -> SUBSET Keys]

Init ==
  /\ ca_key = Absent /\ ca_cert = Absent
  /\ device = [n \in Nids |-> Absent]
  /\ revoked = [n \in Nids |-> Absent]
  /\ pc = "down"
  /\ private_key = Absent /\ certificate = Absent
  /\ target \in Nids
  /\ created = 0
  /\ handed = [n \in Nids |-> {}]
-----------------------------------------------------------------------------
(***************************************************************************)
(* load_or_create_ca.                                                      *)
(***************************************************************************)

\* Both files exist and can be read.  One that exists and is torn makes the
\* start raise: the process ends as if it had not been started.
Load ==
  /\ pc = "down"
  /\ ca_key \in Keys /\ ca_cert \in Keys
  /\ private_key' = ca_key /\ certificate' = ca_cert
  /\ pc' = "ready"
  /\ UNCHANGED <<files, target, created, handed>>

\* _create_ca makes a new pair in memory and opens ca_key.pem.
Create_OpensBoth ==
  /\ pc = "down" /\ created < MaxKeys
  /\ ca_key = Absent \/ ca_cert = Absent
  /\ created' = created + 1
  /\ private_key' = created + 1 /\ certificate' = created + 1
  /\ ca_key' = Torn /\ ca_cert' = Torn /\ pc' = "writing key"
  /\ UNCHANGED <<device, revoked, target, handed>>

Create ==
  /\ pc = "down" /\ created < MaxKeys
  /\ ca_key = Absent \/ ca_cert = Absent
  /\ created' = created + 1
  /\ private_key' = created + 1 /\ certificate' = created + 1
  /\ ca_key' = Torn /\ pc' = "writing key"
  /\ UNCHANGED <<ca_cert, device, revoked, target, handed>>

\* ca_key.pem is closed.
KeyWritten_IsEnough ==
  /\ pc = "writing key"
  /\ ca_key' = private_key /\ pc' = "ready"
  /\ UNCHANGED <<ca_cert, device, revoked, memory, target, created, handed>>

KeyWritten ==
  /\ pc = "writing key"
  /\ ca_key' = private_key /\ pc' = "key written"
  /\ UNCHANGED <<ca_cert, device, revoked, memory, target, created, handed>>

\* ca_cert.pem is opened.
OpenCert ==
  /\ pc = "key written"
  /\ ca_cert' = Torn /\ pc' = "writing cert"
  /\ UNCHANGED <<ca_key, device, revoked, memory, target, created, handed>>

\* ca_cert.pem is closed.
CertWritten ==
  /\ pc = "writing cert"
  /\ ca_cert' = certificate /\ pc' = "ready"
  /\ UNCHANGED <<ca_key, device, revoked, memory, target, created, handed>>
-----------------------------------------------------------------------------
(***************************************************************************)
(* The commands.                                                           *)
(***************************************************************************)

\* issue_certificate signs, then opens the file of the device: a certificate
\* issued before is gone.
Issue(n) ==
  /\ pc = "ready"
  /\ device' = [device EXCEPT ![n] = Torn]
  /\ target' = n /\ pc' = "writing device"
  /\ UNCHANGED <<ca_key, ca_cert, revoked, memory, created, handed>>

\* The file is closed and the certificate returned and printed.
Issued ==
  /\ pc = "writing device"
  /\ device' = [device EXCEPT ![target] = private_key]
  /\ handed' = [handed EXCEPT ![target] = @ \cup {private_key}]
  /\ pc' = "ready"
  /\ UNCHANGED <<ca_key, ca_cert, revoked, memory, target, created>>

\* revoke_certificate: rename replaces an earlier revoked file.
Revoke(n) ==
  /\ pc = "ready" /\ device[n] # Absent
  /\ revoked' = [revoked EXCEPT ![n] = device[n]]
  /\ device' = [device EXCEPT ![n] = Absent]
  /\ UNCHANGED <<ca_key, ca_cert, pc, memory, target, created, handed>>

\* main() returns, or the process is killed or a write fails.
Exit ==
  /\ pc # "down"
  /\ pc' = "down" /\ private_key' = Absent /\ certificate' = Absent
  /\ UNCHANGED <<files, target, created, handed>>

Next ==
  \/ Load \/ Create \/ KeyWritten \/ OpenCert \/ CertWritten
  \/ \E n \in Nids : Issue(n) \/ Revoke(n)
  \/ Issued \/ Exit

Spec == Init /\ [][Next]_vars
-----------------------------------------------------------------------------
(***************************************************************************)
(* Properties.                                                             *)
(***************************************************************************)

(***************************************************************************)
(* Every certificate handed out, and every one on record as issued or      *)
(* revoked, was made with the key whose CA certificate is on disk, and     *)
(* that pair can be loaded: no crash during the creation of the CA costs a *)
(* certificate that a device already has (ca_manager.py:84-92, 155).       *)
(***************************************************************************)
IssuedVerifies ==
  \A n \in Nids : \A k \in Keys :
    k \in handed[n] \/ k = device[n] \/ k = revoked[n] => ca_key = k /\ ca_cert = k

(***************************************************************************)
(* ca_cert.pem goes to every device as the root.  Once it is complete,     *)
(* neither it nor the key ever changes, whatever starts and crashes        *)
(* follow; before, a start may make another pair.  This is what writing    *)
(* the key first is for (ca_manager.py:29, 84-92).                         *)
(***************************************************************************)
RootIsStable ==
  [][(ca_cert \in Keys) => ca_cert' = ca_cert /\ ca_key' = ca_key]_vars

(***************************************************************************)
(* The CA can be lost only before it was of any use: if a start can        *)
(* neither load nor create it, ca_cert.pem is torn and no certificate was  *)
(* ever issued (ca_manager.py:29-33, 91).                                  *)
(***************************************************************************)
StartsUnlessCertTorn ==
  pc = "down" /\ Absent \notin {ca_key, ca_cert} /\ Torn \in {ca_key, ca_cert} =>
    /\ ca_cert = Torn /\ ca_key \in Keys
    /\ \A n \in Nids : handed[n] = {} /\ device[n] = Absent

(***************************************************************************)
(* The files make one trust anchor: the root is there from the moment      *)
(* ca_cert.pem is complete, whatever pairs were made before it, and what   *)
(* any later process hands out is signed with it (ca_manager.py:29-33,     *)
(* 84-92, 147-155).                                                        *)
(***************************************************************************)
Anchor == INSTANCE TrustAnchor
            WITH Devices <- Nids, Roots <- Keys, NoRoot <- Absent,
                 root <- IF ca_cert \in Keys THEN ca_cert ELSE Absent,
                 signers <- handed

IsAnchor == Anchor!Spec
=============================================================================
