----------------------------- MODULE TrustAnchor -----------------------------
(***************************************************************************)
(* What the network may rely on about its certification authority: one key *)
(* is chosen as the root, once and before any certificate is handed out,   *)
(* and every certificate handed out is signed with it.                     *)
(***************************************************************************)
CONSTANTS
  Devices,   \* those that may get a certificate
  Roots,     \* the keys that may become the root
  NoRoot     \* not a key

VARIABLES
  root,      \* the key every device verifies certificates with
  signers    \* device -> signers of the certificates handed out to it

Init == root = NoRoot /\ signers = [n \in Devices |-> {}]

Choose ==
  /\ root = NoRoot
  /\ root' \in Roots
  /\ UNCHANGED signers

HandOut(n) ==
  /\ root \in Roots
  /\ signers' = [signers EXCEPT ![n] = @ \cup {root}]
  /\ UNCHANGED root

Next == Choose \/ \E n \in Devices : HandOut(n)

Spec == Init /\ [][Next]_<<root, signers>>
=============================================================================
