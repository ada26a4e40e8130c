---------------------------- MODULE SigningKeys ----------------------------
(***************************************************************************)
(* app/security_pki.py: where a replica of the API process finds the key   *)
(* it signs evidence with, and the public key it names and verifies with.  *)
(* A replica has a certs/ directory of its own, which outlives the process *)
(* and, where it is kept, the container.  A file is written in two steps,  *)
(* truncation and content, and the process may die between any two steps.  *)
(***************************************************************************)
EXTENDS Naturals, FiniteSets

CONSTANTS
    Replica,
    Key,                \* key pairs
    Deployments,        \* the deployments considered
    None

(* What is found where a key should be, besides a key.                     *)
Absent == "absent"
Malformed == "malformed"

File == Key \cup {Absent, Malformed}

(* What a container is started with: AG_SIGNING_PRIVATE_KEY_PEM and        *)
(* AG_SIGNING_PUBLIC_KEY_PEM, the two files of certs/ as the image or the  *)
(* operator places them, and whether static key material is demanded       *)
(* (require_static_signing_key).  Any of the four may be missing, be       *)
(* malformed, or belong to another pair than the others.                   *)
Deployment == [envPriv : File, envPub : File, filePriv : File, filePub : File, static : BOOLEAN]

ASSUME KeysAssumption ==
    /\ Deployments \subseteq Deployment
    /\ None \notin Key
    /\ {Absent, Malformed} \cap (Key \cup {None}) = {}

(* The pairs some deployment names; all others can be generated.           *)
Supplied ==
    {k \in Key : \E d \in Deployments : k \in {d.envPriv, d.envPub, d.filePriv, d.filePub}}

VARIABLES
    deployment,         \* what each replica's container was started with
    priv,               \* ag_signing_key.pem of each replica
    pub,                \* ag_signing_public_key.pem of each replica
    memo,               \* _CACHED_PRIVATE_KEY and _CACHED_PRIVATE_SOURCE
    minted              \* the keys each replica has generated

keyVars == <<deployment, priv, pub, memo, minted>>

Memo == [key : Key \cup {None}, source : {"none", "env", "file", "generated"}]

NoMemo == [key |-> None, source |-> "none"]

KeysTypeOK ==
    /\ deployment \in [Replica -> Deployments]
    /\ priv \in [Replica -> File] /\ pub \in [Replica -> File]
    /\ memo \in [Replica -> Memo]
    /\ minted \in [Replica -> SUBSET Key]

KeysInit ==
    /\ deployment \in [Replica -> Deployments]
    /\ priv = [r \in Replica |-> deployment[r].filePriv]
    /\ pub = [r \in Replica |-> deployment[r].filePub]
    /\ memo = [r \in Replica |-> NoMemo]
    /\ minted = [r \in Replica |-> {}]

----------------------------------------------------------------------------
(* get_ec_private_key: the environment, else the file, else (Absent) a key *)
(* has to be generated.  A cached key counts only for the source it came   *)
(* from, and what is malformed is an error, never replaced.                *)
Cached(r) == priv[r] # Absent /\ memo[r].source = "file"

PrivateKey_ReplacesMalformed(r) ==
    IF deployment[r].envPriv # Absent THEN deployment[r].envPriv
    ELSE IF Cached(r) THEN memo[r].key
    ELSE IF priv[r] = Malformed THEN Absent ELSE priv[r]

PrivateKey(r) ==
    IF deployment[r].envPriv # Absent THEN deployment[r].envPriv
    ELSE IF Cached(r) THEN memo[r].key ELSE priv[r]

(* get_ec_public_key: the environment, else the published file, else the   *)
(* private key's half.                                                     *)
PublicKey_FileOnly(r) == IF pub[r] # Absent THEN pub[r] ELSE PrivateKey(r)

Published(r) == IF deployment[r].envPub # Absent THEN deployment[r].envPub ELSE pub[r]

PublicKey(r) == IF Published(r) # Absent THEN Published(r) ELSE PrivateKey(r)

(* What resolving the private key leaves in the cache.                     *)
Remember(r) ==
    memo' = IF PrivateKey(r) \notin Key THEN memo
            ELSE [memo EXCEPT ![r] = [key |-> PrivateKey(r),
                                      source |-> IF deployment[r].envPriv # Absent THEN "env"
                                                 ELSE "file"]]

(* _generate_keypair, in the order of its system calls: the key, then for  *)
(* the private and the public file truncation and content.                 *)
GenerationSteps == 4

Generate_PublicFirstKept(r, step, k) ==
    /\ pub' = IF step = 1 /\ pub[r] = Absent THEN [pub EXCEPT ![r] = k] ELSE pub
    /\ priv' = CASE step = 3 -> [priv EXCEPT ![r] = Malformed]
                 [] step = 4 -> [priv EXCEPT ![r] = k]
                 [] OTHER -> priv

Generate_PublicOnly(r, step, k) ==
    /\ pub' = CASE step = 3 -> [pub EXCEPT ![r] = Malformed]
                [] step = 4 -> [pub EXCEPT ![r] = k]
                [] OTHER -> pub
    /\ priv' = priv

Generate(r, step, k) ==
    /\ priv' = CASE step = 1 -> [priv EXCEPT ![r] = Malformed]
                 [] step = 2 -> [priv EXCEPT ![r] = k]
                 [] OTHER -> priv
    /\ pub' = CASE step = 3 -> [pub EXCEPT ![r] = Malformed]
                [] step = 4 -> [pub EXCEPT ![r] = k]
                [] OTHER -> pub

(* A process that dies forgets its cache; its files stay as they are.      *)
Forget(r) ==
    /\ memo' = [memo EXCEPT ![r] = NoMemo]
    /\ UNCHANGED <<deployment, priv, pub, minted>>

(* A new container, perhaps of another deployment.  Its certs/ is what the *)
(* image or the operator places there, over what it was where the          *)
(* directory is kept.                                                      *)
Replace(r, d, kept) ==
    /\ deployment' = [deployment EXCEPT ![r] = d]
    /\ memo' = [memo EXCEPT ![r] = NoMemo]
    /\ priv' = [priv EXCEPT ![r] = IF kept /\ d.filePriv = Absent THEN @ ELSE d.filePriv]
    /\ pub' = [pub EXCEPT ![r] = IF kept /\ d.filePub = Absent THEN @ ELSE d.filePub]
    /\ UNCHANGED minted

(* What a container finds when it starts, in the order the docstrings      *)
(* give: the key it is to sign with, and the key its ids are to name.      *)
Finds(d, file, published) ==
    LET signs == IF d.envPriv # Absent THEN d.envPriv ELSE file
        placed == IF d.envPub # Absent THEN d.envPub ELSE published
    IN  [signs |-> signs, names |-> IF placed # Absent THEN placed ELSE signs]

Finding == [signs : File, names : File]

(* The two belong together: one pair, or no usable public key.             *)
Coherent(f) == f.names \in {f.signs, Malformed}
=============================================================================
