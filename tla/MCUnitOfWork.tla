--------------------------- MODULE MCUnitOfWork ----------------------------
(* Instances of UnitOfWork for TLC: applications and their interceptors.   *)
EXTENDS UnitOfWork

\* Every order of every set of interceptors.
Stacks == {s \in UNION {[1..n -> Kind] : n \in 0..4} :
             \A i, j \in DOMAIN s : s[i] = s[j] => i = j}

AllApps == [stack : Stacks, context : {"http", "worker"}, atEnd : BOOLEAN]
=============================================================================
