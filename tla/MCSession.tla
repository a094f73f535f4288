----------------------------- MODULE MCSession -----------------------------
(* Connections are alike, and so are keys and transports.                  *)
EXTENDS Session, TLC

Symmetry == Permutations(Conns) \cup Permutations(Keys) \cup Permutations(Transports)
=============================================================================
