---------------------------- MODULE MCSmtpServer ----------------------------
(* SmtpServer for TLC. *)
EXTENDS SmtpServer, TLC

ConnSymmetry == Permutations(Conns)
=============================================================================
