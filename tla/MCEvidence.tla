---------------------------- MODULE MCEvidence ----------------------------
(* The instances of Evidence that TLC checks.                              *)
EXTENDS Evidence

(* A deployment that supplies nothing, and what is placed over it.         *)
Nothing == [envPriv |-> Absent, envPub |-> Absent, filePriv |-> Absent, filePub |-> Absent,
            static |-> FALSE]

(* The key in a file, alone; in the environment, over a published key of   *)
(* another pair; in the environment and unreadable; generated.             *)
Maintained ==
    {[Nothing EXCEPT !.filePriv = "k0", !.static = TRUE],
     [Nothing EXCEPT !.envPriv = "k0", !.envPub = "k0", !.filePub = "k1"],
     [Nothing EXCEPT !.envPriv = Malformed],
     Nothing}

(* Static key material is demanded and none supplied.                      *)
Bare == {[Nothing EXCEPT !.static = TRUE]}
===========================================================================
