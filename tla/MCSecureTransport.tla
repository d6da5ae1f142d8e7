-------------------------- MODULE MCSecureTransport --------------------------
(* Model-checking instances of SecureTransport: one thread at node A, whose  *)
(* peer B only answers.                                                      *)
EXTENDS SecureTransport

CONSTANTS A, B, t1, d1, d2

MCNodes   == {A, B}
MCThreads == {t1}
MCNodeOf  == [t \in MCThreads |-> A]

MCOneDirect == <<d1>>
MCTwoDirect == <<d1, d2>>
=============================================================================
