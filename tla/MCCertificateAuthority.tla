------------------------ MODULE MCCertificateAuthority ------------------------
(* CertificateAuthority with two devices and three key pairs.              *)
EXTENDS CertificateAuthority, TLC

DeviceSymmetry == Permutations(Nids)
=============================================================================
