--------------------------- MODULE CertificatesMC ---------------------------
(* Instances of Certificates for TLC. *)
EXTENDS Certificates, TLC

Symmetry == Permutations(Procs)

\* Bound: a behaviour ends with the certificate that fills the table.
Filling == last < MaxCerts
=============================================================================
