---------------------- MODULE MCDeclarativeLifecycle ----------------------
(* Small instances of DeclarativeLifecycle. *)
EXTENDS DeclarativeLifecycle, TLC

CONSTANTS d1, d2, t1, t2

(* Two documents that differ in their tools: the first authenticates       *)
(* nobody, the second takes any credentials but none.                      *)
MCToolsOf == [d \in Documents |-> IF d = d1 THEN {t1} ELSE {t1, t2}]
MCAccepts == [d \in Documents |-> IF d = d1 THEN {NoSecret} ELSE Secrets]

MCSymmetry ==
    Permutations(Admins) \cup Permutations(Revisions) \cup Permutations(Secrets)
============================================================================
