------------------------------ MODULE Evidence ------------------------------
(***************************************************************************)
(* Signed evidence: the attestation exports and their verification         *)
(* (app/api/routers/exports_ag.py), the access records every download and  *)
(* report leaves (app/monitoring/access_audit.py), and evidence packets    *)
(* (app/processing/intel/packet.py), issued by replicas that resolve their *)
(* key as SigningKeys says and share one audit table.                      *)
(***************************************************************************)
EXTENDS SigningKeys, Sequences, SequencesExt

CONSTANTS
    Data,               \* states of the estate: what an export signs
    MaxRows,            \* bound: rows of audit.action_audit
    MaxRequests,        \* bound: requests served (and so keys generated)
    MaxLives            \* bound: containers each replica has had

ASSUME EvidenceAssumption ==
    MaxRows \in Nat /\ MaxRequests \in Nat /\ MaxLives \in Nat \ {0}

VARIABLES
    audit,              \* audit.action_audit, in commit order
    request,            \* the request each replica is serving
    held,               \* what callers were given: exports and packets
    life,               \* the containers each replica has had
    found,              \* what each of them found when it started
    served              \* requests so far; it numbers signatures

vars == <<keyVars, audit, request, held, life, found, served>>

Kind == {"export", "access", "packet", "verify"}

Status == {"unverified", "unsigned", "no_signature", "signature_valid", "signature_invalid"}

(* The status a verification loaded, of each row that carries its hash.    *)
Seen == UNION {[rows -> Status] : rows \in SUBSET (1..MaxRows)}

(* A request: begun, generating (step of the key k), or with the key it    *)
(* signed with or verifies by, and the id that goes with a signature.      *)
Request == [kind : Kind, data : Data, n : 1..MaxRequests, seen : Seen, step : 0..GenerationSteps,
            k : Key \cup {None}, stage : {"resolve", "commit"},
            key : Key \cup {None}, keyId : Key \cup {None}]

Row == [kind : {"export", "access"}, data : Data, n : 1..MaxRequests, replica : Replica,
        life : 1..MaxLives, key : Key \cup {None}, keyId : Key \cup {None}, status : Status]

Held == [kind : {"export", "packet"}, data : Data, n : 1..MaxRequests, replica : Replica,
         life : 1..MaxLives, key : Key \cup {None}, keyId : Key \cup {None}]

TypeOK ==
    /\ KeysTypeOK
    /\ audit \in Seq(Row) /\ Len(audit) <= MaxRows
    /\ request \in [Replica -> Request \cup {None}]
    /\ held \subseteq Held
    /\ life \in [Replica -> 1..MaxLives]
    /\ found \in [Replica -> [1..MaxLives -> Finding \cup {None}]]
    /\ served \in 0..MaxRequests

Init ==
    /\ KeysInit
    /\ audit = <<>>
    /\ request = [r \in Replica |-> None]
    /\ held = {}
    /\ life = [r \in Replica |-> 1]
    /\ found = [r \in Replica |-> [i \in 1..MaxLives |->
                    IF i = 1 THEN Finds(deployment[r], priv[r], pub[r]) ELSE None]]
    /\ served = 0

----------------------------------------------------------------------------
Answer(r) == request' = [request EXCEPT ![r] = None]

(* The rows a verification is about.  There may be none.                   *)
Carries(row, data) == row.kind = "export" /\ row.data = data

Loaded(kind, data) ==
    LET rows == {i \in DOMAIN audit : kind = "verify" /\ Carries(audit[i], data)}
    IN  [i \in rows |-> audit[i].status]

NoRecord(r) == request[r].kind = "verify" /\ DOMAIN request[r].seen = {}

Begin(r, kind, data) ==
    /\ request[r] = None
    /\ served < MaxRequests /\ Len(audit) < MaxRows
    /\ served' = served + 1
    /\ request' = [request EXCEPT ![r] =
           [kind |-> kind, data |-> data, n |-> served + 1, seen |-> Loaded(kind, data),
            step |-> 0, k |-> None, stage |-> "resolve", key |-> None, keyId |-> None]]
    /\ UNCHANGED <<keyVars, audit, held, life, found>>

(* Verification asks for the public key, everything else for the private.  *)
Wanted(r) == IF request[r].kind = "verify" THEN PublicKey(r) ELSE PrivateKey(r)

Resolving(r) == request[r] # None /\ request[r].stage = "resolve"

(* There is no key anywhere: one is generated and written, step by step.   *)
(* Key is the bound on how many there can be; which is taken is no matter. *)
Unminted == {k \in Key \ Supplied : \A r \in Replica : k \notin minted[r]}

Fresh == CHOOSE k \in Unminted : TRUE

StartGenerating(r) ==
    /\ Resolving(r) /\ request[r].step = 0
    /\ ~NoRecord(r)
    /\ Wanted(r) = Absent
    /\ Unminted # {}
    /\ minted' = [minted EXCEPT ![r] = @ \cup {Fresh}]
    /\ Generate(r, 1, Fresh)
    /\ request' = [request EXCEPT ![r] = [@ EXCEPT !.step = 1, !.k = Fresh]]
    /\ UNCHANGED <<deployment, memo, audit, held, life, found, served>>

KeepGenerating(r) ==
    /\ Resolving(r) /\ request[r].step \in 1..GenerationSteps - 1
    /\ Generate(r, request[r].step + 1, request[r].k)
    /\ request' = [request EXCEPT ![r] = [@ EXCEPT !.step = request[r].step + 1]]
    /\ UNCHANGED <<deployment, memo, minted, audit, held, life, found, served>>

(* The generated key is cached; where key material must be static it is    *)
(* then refused, which SigningFails is.                                    *)
Generated(r) == request[r].step = GenerationSteps

CacheGenerated(r) == memo' = [memo EXCEPT ![r] = [key |-> request[r].k, source |-> "generated"]]

(* On to the commit.                                                       *)
Carry(r, key, keyId) ==
    request' = [request EXCEPT ![r] = [@ EXCEPT !.stage = "commit", !.key = key, !.keyId = keyId]]

(* sign_canonical_payload, then get_key_id, which needs the public key.    *)
(* Where that fails an export or a packet is an error; an access record is *)
(* signed, and goes without an id.                                         *)
Signed(r, key) ==
    IF PublicKey(r) \in Key THEN Carry(r, key, PublicKey(r))
    ELSE IF request[r].kind = "access" THEN Carry(r, key, None)
    ELSE Answer(r)

Sign(r) ==
    /\ Resolving(r) /\ request[r].kind # "verify"
    /\ \/ /\ request[r].step = 0 /\ PrivateKey(r) \in Key
          /\ Signed(r, PrivateKey(r))
          /\ Remember(r)
       \/ /\ Generated(r) /\ ~deployment[r].static
          /\ Signed(r, request[r].k)
          /\ CacheGenerated(r)
    /\ UNCHANGED <<deployment, priv, pub, minted, audit, held, life, found, served>>

(* Without a key an export is an error; an access record and a packet go   *)
(* unsigned.                                                               *)
SigningFails_Waits(r) ==
    /\ Resolving(r) /\ request[r].kind = "access"
    /\ request[r].step = 0 /\ PrivateKey(r) = Malformed
    /\ Carry(r, None, None)
    /\ UNCHANGED <<keyVars, audit, held, life, found, served>>

SigningFails(r) ==
    /\ Resolving(r) /\ request[r].kind # "verify"
    /\ \/ /\ request[r].step = 0 /\ PrivateKey(r) = Malformed
          /\ UNCHANGED memo
       \/ /\ Generated(r) /\ deployment[r].static
          /\ CacheGenerated(r)
    /\ IF request[r].kind = "export" THEN Answer(r) ELSE Carry(r, None, None)
    /\ UNCHANGED <<deployment, priv, pub, minted, audit, held, life, found, served>>

(* get_ec_public_key, for the rows a verification has loaded.  Without a   *)
(* row, or a key, the answer says so and no row changes.                   *)
Verify(r) ==
    /\ Resolving(r) /\ request[r].kind = "verify"
    /\ \/ /\ NoRecord(r)
          /\ Answer(r) /\ UNCHANGED memo
       \/ /\ ~NoRecord(r) /\ request[r].step = 0 /\ PublicKey(r) \in Key
          /\ Carry(r, PublicKey(r), None)
          /\ IF Published(r) = Absent THEN Remember(r) ELSE UNCHANGED memo
       \/ /\ ~NoRecord(r) /\ request[r].step = 0 /\ PublicKey(r) = Malformed
          /\ Answer(r) /\ UNCHANGED memo
       \/ /\ Generated(r)
          /\ IF deployment[r].static THEN Answer(r) ELSE Carry(r, request[r].k, None)
          /\ CacheGenerated(r)
    /\ UNCHANGED <<deployment, priv, pub, minted, audit, held, life, found, served>>

(* _verify_record, of one row by one public key.                           *)
Verdict(row, key) ==
    IF row.key = None THEN "no_signature"
    ELSE IF row.key = key THEN "signature_valid" ELSE "signature_invalid"

(* verify_ag_compliance: every row it loaded is judged, and written if the *)
(* judgement differs from what was loaded.                                 *)
Judged(r) ==
    LET q == request[r]
    IN  [i \in DOMAIN audit |->
            IF i \in DOMAIN q.seen /\ q.seen[i] # Verdict(audit[i], q.key)
            THEN [audit[i] EXCEPT !.status = Verdict(audit[i], q.key)] ELSE audit[i]]

(* The row is committed, or the judgements are, and then the caller        *)
(* answered.  A commit that fails is an error of an export or verification *)
(* and changes nothing; an access record is lost and nothing else.  A      *)
(* packet has no row.                                                      *)
Committing(r) == request[r] # None /\ request[r].stage = "commit"

NewRow(r) ==
    LET q == request[r]
    IN  [kind |-> q.kind, data |-> q.data, n |-> q.n, replica |-> r, life |-> life[r],
         key |-> q.key, keyId |-> q.keyId,
         status |-> IF q.keyId = None THEN "unsigned" ELSE "unverified"]

Given_ToEveryone(r) ==
    LET q == request[r]
    IN  held \cup {[kind |-> q.kind, data |-> q.data, n |-> q.n, replica |-> r, life |-> life[r],
                    key |-> q.key, keyId |-> q.keyId]}

Given(r) ==
    LET q == request[r]
    IN  IF q.kind \in {"export", "packet"}
        THEN held \cup {[kind |-> q.kind, data |-> q.data, n |-> q.n, replica |-> r,
                         life |-> life[r], key |-> q.key, keyId |-> q.keyId]}
        ELSE held

Commit(r) ==
    /\ Committing(r)
    /\ audit' = CASE request[r].kind = "packet" -> audit
                  [] request[r].kind = "verify" -> Judged(r)
                  [] OTHER -> Append(audit, NewRow(r))
    /\ Len(audit') <= MaxRows
    /\ held' = Given(r)
    /\ Answer(r)
    /\ UNCHANGED <<keyVars, life, found, served>>

CommitFails_StillAnswers(r) ==
    /\ Committing(r) /\ request[r].kind # "packet"
    /\ held' = Given(r)
    /\ Answer(r)
    /\ UNCHANGED <<keyVars, audit, life, found, served>>

CommitFails(r) ==
    /\ Committing(r) /\ request[r].kind # "packet"
    /\ Answer(r)
    /\ UNCHANGED <<keyVars, audit, held, life, found, served>>

(* The process dies; or its container is replaced by a new one, perhaps of *)
(* another deployment.                                                     *)
Crash(r) ==
    /\ request[r] # None
    /\ Answer(r)
    /\ Forget(r)
    /\ UNCHANGED <<audit, held, life, found, served>>

Redeploy(r, d, kept) ==
    /\ life[r] < MaxLives
    /\ life' = [life EXCEPT ![r] = @ + 1]
    /\ Answer(r)
    /\ Replace(r, d, kept)
    /\ found' = [found EXCEPT ![r][life'[r]] = Finds(d, priv'[r], pub'[r])]
    /\ UNCHANGED <<audit, held, served>>

Serve(r) ==
    \/ StartGenerating(r) \/ KeepGenerating(r)
    \/ Sign(r) \/ SigningFails(r)
    \/ Commit(r) \/ CommitFails(r)
    \/ Verify(r)

Next ==
    \E r \in Replica :
       \/ \E kind \in Kind, data \in Data : Begin(r, kind, data)
       \/ Serve(r)
       \/ Crash(r)
       \/ \E d \in Deployments, kept \in BOOLEAN : Redeploy(r, d, kept)

Spec == Init /\ [][Next]_vars /\ \A r \in Replica : WF_vars(Serve(r))

----------------------------------------------------------------------------
(* The key id an attestation quotes names the key that signed it, although *)
(* the signature and the id come from different places, whatever crash     *)
(* came between the writing of one file and of the other: unless the       *)
(* container was started with a private and a public key that do not       *)
(* belong together.                                                        *)
KeyIdNamesSigner ==
    \A e \in held \cup ToSet(audit) :
       Coherent(found[e.replica][e.life]) /\ e.key # None /\ e.keyId # None => e.keyId = e.key

(* A restart does not rotate the key: all that one container signed, in    *)
(* however many lives of its process, carries one key.                     *)
RestartKeepsKey ==
    \A x, y \in ToSet(audit) :
       x.replica = y.replica /\ x.life = y.life /\ x.key # None /\ y.key # None => x.key = y.key

(* Where every container so far, of whatever deployment, found the same    *)
(* key to sign with and no other pair's public key, every row is signed    *)
(* with it and no verification, by any replica, has turned one down.       *)
EvidenceSurvives ==
    \A k \in Key :
       (\A r \in Replica : \A i \in 1..life[r] :
           found[r][i].signs = k /\ found[r][i].names \in {k, Malformed})
       => \A row \in ToSet(audit) :
             row.key = k /\ row.status \notin {"no_signature", "signature_invalid"}

(* An attestation a caller holds is in the audit table under its hash.     *)
ExportsAreRecorded ==
    \A e \in held : e.kind = "export" =>
       \E row \in ToSet(audit) : row.kind = "export" /\ row.n = e.n /\ row.data = e.data
                                 /\ row.key = e.key

(* A container mints one key at most: a generation that a crash cut short  *)
(* leaves a malformed file for an operator to see, not a reason to mint    *)
(* another.                                                                *)
MintsOncePerContainer == \A r \in Replica : Cardinality(minted[r]) <= life[r]

(* Every request is answered or its process dies: none waits for ever on a *)
(* key, and an audit defect does not hold the operation up.                *)
RequestsEnd == \A r \in Replica : request[r] # None ~> request[r] = None

(* "Refuse to mint one when the environment demands static key material":  *)
(* where every deployment demands it, nothing is ever signed with a key    *)
(* that no deployment supplies.                                            *)
StaticKeyNeverMinted ==
    (\A d \in Deployments : d.static) =>
       \A e \in held \cup ToSet(audit) : e.key \in {None} \cup Supplied
=============================================================================
