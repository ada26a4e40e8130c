--------------------------- MODULE EvidenceProofs ---------------------------
(***************************************************************************)
(* Proofs about Evidence, for any number of replicas, containers, requests *)
(* and keys, and every deployment.                                         *)
(***************************************************************************)
EXTENDS Evidence, FiniteSetTheorems, SequenceTheorems, TLAPS

(* The types the argument needs.  The audit table is a sequence of rows;   *)
(* that it is a short one is left to the bound.                            *)
Types ==
    /\ KeysTypeOK
    /\ audit \in Seq(Row)
    /\ request \in [Replica -> Request \cup {None}]
    /\ held \subseteq Held
    /\ life \in [Replica -> 1..MaxLives]
    /\ found \in [Replica -> [1..MaxLives -> Finding \cup {None}]]
    /\ served \in 0..MaxRequests

(* The key a container signs with and the one it names, as far as its      *)
(* environment and its disk say; and what it found when it started.        *)
Current(r) == IF deployment[r].envPriv # Absent THEN deployment[r].envPriv ELSE priv[r]

Named(r) == IF Published(r) # Absent THEN Published(r) ELSE Current(r)

Found(r) == found[r][life[r]]

(* A container that found a key signs with it, and names what it found;    *)
(* one that was not given two different pairs names the key it signs with, *)
(* also while it generates one; and its cache agrees with its disk.        *)
FilesOf(r) ==
    /\ Found(r).signs # Absent => Current(r) = Found(r).signs /\ Named(r) = Found(r).names
    /\ Coherent(Found(r)) /\ Named(r) \in Key => Named(r) = Current(r)
    /\ memo[r].source = "file" => memo[r].key = priv[r] /\ priv[r] \in Key

(* A request that generates does so because there was no key, and has come *)
(* as far as its step says.                                                *)
GeneratingOf(r) ==
    request[r] # None /\ request[r].stage = "resolve" /\ request[r].step # 0 =>
       /\ deployment[r].envPriv = Absent
       /\ Found(r).signs = Absent
       /\ request[r].k \in Key
       /\ request[r].step = 1 => priv[r] = Malformed
       /\ request[r].step # 1 => priv[r] = request[r].k

Files == \A r \in Replica : FilesOf(r)

Generating == \A r \in Replica : GeneratingOf(r)

Disk == Types /\ Files /\ Generating

----------------------------------------------------------------------------
(* Rows of the audit table.                                                *)
LEMMA AppendedRows ==
    ASSUME NEW S, NEW s \in Seq(S), NEW x \in S
    PROVE  /\ Append(s, x) \in Seq(S)
           /\ ToSet(Append(s, x)) = ToSet(s) \cup {x}
<1>1. /\ Append(s, x) \in Seq(S)
      /\ DOMAIN s = 1 .. Len(s) /\ DOMAIN Append(s, x) = 1 .. Len(s) + 1 /\ Len(s) \in Nat
      /\ \A i \in 1 .. Len(s) : Append(s, x)[i] = s[i]
      /\ Append(s, x)[Len(s) + 1] = x
  OBVIOUS
<1>2. QED BY <1>1 DEF ToSet

(* A verification changes no row but in its status.                        *)
LEMMA JudgedRows ==
    ASSUME audit \in Seq(Row), NEW r \in Replica, audit' = Judged(r)
    PROVE  /\ audit' \in Seq(Row) /\ Len(audit') = Len(audit)
           /\ \A x \in ToSet(audit)' : \E y \in ToSet(audit) :
                 x = y \/ x = [y EXCEPT !.status = Verdict(y, request[r].key)]
           /\ \A y \in ToSet(audit) : \E x \in ToSet(audit)' :
                 x = y \/ x = [y EXCEPT !.status = Verdict(y, request[r].key)]
<1> DEFINE q == request[r]
           E(i) == IF i \in DOMAIN q.seen /\ q.seen[i] # Verdict(audit[i], q.key)
                   THEN [audit[i] EXCEPT !.status = Verdict(audit[i], q.key)] ELSE audit[i]
<1>1. DOMAIN audit = 1 .. Len(audit) /\ Len(audit) \in Nat
  OBVIOUS
<1>2. audit' = [i \in 1 .. Len(audit) |-> E(i)]
  BY <1>1 DEF Judged
<1>3. \A i \in 1 .. Len(audit) : E(i) \in Row
  <2> SUFFICES ASSUME NEW i \in 1 .. Len(audit) PROVE E(i) \in Row OBVIOUS
  <2>1. audit[i] \in Row
    OBVIOUS
  <2>2. Verdict(audit[i], q.key) \in Status
    BY DEF Verdict, Status
  <2>3. QED BY <2>1, <2>2 DEF Row
<1>4. \A i \in 1 .. Len(audit) :
         E(i) = audit[i] \/ E(i) = [audit[i] EXCEPT !.status = Verdict(audit[i], request[r].key)]
  OBVIOUS
<1> HIDE DEF E
<1>5. audit' \in [1 .. Len(audit) -> Row]
  BY <1>2, <1>3
<1>6. audit' \in Seq(Row) /\ Len(audit') = Len(audit)
  BY <1>1, <1>5, SeqDef
<1>7. DOMAIN audit' = DOMAIN audit
  BY <1>1, <1>5
<1>8. \A i \in DOMAIN audit : audit'[i] = E(i)
  BY <1>1, <1>2
<1>9. \A i \in DOMAIN audit :
         audit'[i] = audit[i]
           \/ audit'[i] = [audit[i] EXCEPT !.status = Verdict(audit[i], request[r].key)]
  BY <1>1, <1>4, <1>8
<1>10. /\ ToSet(audit) = {audit[i] : i \in DOMAIN audit}
       /\ ToSet(audit)' = {audit'[i] : i \in DOMAIN audit}
  BY <1>7 DEF ToSet
<1>11. ASSUME NEW x \in ToSet(audit)'
       PROVE  \E y \in ToSet(audit) :
                 x = y \/ x = [y EXCEPT !.status = Verdict(y, request[r].key)]
  <2>1. PICK i \in DOMAIN audit : x = audit'[i]
    BY <1>10, <1>11
  <2>2. audit[i] \in ToSet(audit)
    BY <1>10
  <2>3. WITNESS audit[i] \in ToSet(audit)
  <2>4. QED BY <2>1, <1>9
<1>12. ASSUME NEW y \in ToSet(audit)
       PROVE  \E x \in ToSet(audit)' :
                 x = y \/ x = [y EXCEPT !.status = Verdict(y, request[r].key)]
  <2>1. PICK i \in DOMAIN audit : y = audit[i]
    BY <1>10, <1>12
  <2>2. audit'[i] \in ToSet(audit)'
    BY <1>10
  <2>3. WITNESS audit'[i] \in ToSet(audit)'
  <2>4. QED BY <2>1, <1>9
<1>13. QED BY <1>6, <1>11, <1>12

----------------------------------------------------------------------------
(* What resolving a key finds.                                             *)
LEMMA ResolvedKeys ==
    ASSUME NEW r \in Replica, FilesOf(r)
    PROVE  /\ PrivateKey(r) = Current(r) /\ PublicKey(r) = Named(r)
           /\ Wanted(r) = Absent => /\ Current(r) = Absent /\ Found(r).signs = Absent
                                     /\ deployment[r].envPriv = Absent /\ priv[r] = Absent
<1>1. PrivateKey(r) = Current(r)
  BY DEF FilesOf, PrivateKey, Cached, Current
<1>2. PublicKey(r) = Named(r)
  BY <1>1 DEF PublicKey, Named
<1>3. ASSUME Wanted(r) = Absent PROVE Current(r) = Absent
  BY <1>1, <1>2, <1>3 DEF Wanted, Named
<1>4. QED BY <1>1, <1>2, <1>3 DEF FilesOf, Current

(* What a container finds as it starts.                                    *)
LEMMA FoundAtStart ==
    ASSUME NEW d \in Deployment, NEW x \in File, NEW y \in File
    PROVE  /\ Finds(d, x, y) \in Finding
           /\ Finds(d, x, y).signs = IF d.envPriv # Absent THEN d.envPriv ELSE x
           /\ Finds(d, x, y).names = IF d.envPub # Absent THEN d.envPub
                                     ELSE IF y # Absent THEN y ELSE Finds(d, x, y).signs
BY DEF Finds, Finding, Deployment

LEMMA DiskInit == Init => Disk
<1> SUFFICES ASSUME Init PROVE Disk OBVIOUS
<1> USE KeysAssumption, EvidenceAssumption DEF Init, KeysInit
<1>1. ASSUME NEW r \in Replica
      PROVE  /\ FilesOf(r) /\ GeneratingOf(r) /\ priv[r] \in File /\ pub[r] \in File
             /\ Found(r) \in Finding
  <2>1. deployment[r] \in Deployment /\ priv[r] \in File /\ pub[r] \in File
    BY DEF Deployment
  <2>2. memo[r].source = "none" /\ Found(r) = Finds(deployment[r], priv[r], pub[r])
    BY DEF Found, NoMemo
  <2>3. Found(r).signs = Current(r) /\ Found(r).names = Named(r) /\ Found(r) \in Finding
    BY <2>1, <2>2, FoundAtStart DEF Current, Named, Published
  <2>4. QED BY <2>1, <2>2, <2>3 DEF GeneratingOf, FilesOf, Coherent
<1>2. KeysTypeOK
  <2>1. NoMemo \in Memo
    BY DEF NoMemo, Memo
  <2>2. priv \in [Replica -> File] /\ pub \in [Replica -> File]
    BY <1>1
  <2>3. QED BY <2>1, <2>2 DEF KeysTypeOK
<1>3. found \in [Replica -> [1..MaxLives -> Finding \cup {None}]]
  <2>1. ASSUME NEW r \in Replica
        PROVE  [i \in 1..MaxLives |-> IF i = 1 THEN Finds(deployment[r], priv[r], pub[r]) ELSE None]
                  \in [1..MaxLives -> Finding \cup {None}]
    <3>1. Finds(deployment[r], priv[r], pub[r]) \in Finding
      <4>1. 1 \in 1..MaxLives
        OBVIOUS
      <4>2. Found(r) = Finds(deployment[r], priv[r], pub[r])
        BY <4>1 DEF Found
      <4>3. QED BY <1>1, <4>2
    <3>2. QED BY <3>1
  <2>2. QED BY <2>1
<1>4. Types
  BY <1>2, <1>3 DEF Types
<1>5. QED BY <1>1, <1>4 DEF Disk, Files, Generating

----------------------------------------------------------------------------
(* A step of replica r.                                                    *)
Act(r) ==
    \/ \E kind \in Kind, data \in Data : Begin(r, kind, data)
    \/ Serve(r) \/ Crash(r)
    \/ \E d \in Deployments, kept \in BOOLEAN : Redeploy(r, d, kept)

(* What it leaves alone.                                                   *)
Others(r) ==
    \A x \in Replica \ {r} :
       /\ deployment'[x] = deployment[x] /\ priv'[x] = priv[x] /\ pub'[x] = pub[x]
       /\ memo'[x] = memo[x] /\ minted'[x] = minted[x] /\ request'[x] = request[x]
       /\ life'[x] = life[x] /\ found'[x] = found[x]

LEMMA RequestTypes ==
    ASSUME NEW q \in Request
    PROVE  /\ \A k \in Key : [q EXCEPT !.step = 1, !.k = k] \in Request
           /\ \A key, keyId \in Key \cup {None} :
                 [q EXCEPT !.stage = "commit", !.key = key, !.keyId = keyId] \in Request
<1>1. 1 \in 0 .. GenerationSteps
  BY DEF GenerationSteps
<1> HIDE DEF GenerationSteps
<1>2. ASSUME NEW k \in Key PROVE [q EXCEPT !.step = 1, !.k = k] \in Request
  BY <1>1 DEF Request
<1>3. ASSUME NEW key \in Key \cup {None}, NEW keyId \in Key \cup {None}
      PROVE  [q EXCEPT !.stage = "commit", !.key = key, !.keyId = keyId] \in Request
  BY DEF Request
<1>4. QED BY <1>2, <1>3

(* What a verification loads.                                              *)
LEMMA LoadedTypes ==
    ASSUME audit \in Seq(Row), Len(audit) <= MaxRows, NEW kind, NEW data
    PROVE  Loaded(kind, data) \in Seen
<1> DEFINE rows == {i \in DOMAIN audit : kind = "verify" /\ Carries(audit[i], data)}
<1>1. rows \subseteq 1..MaxRows
  <2>1. DOMAIN audit = 1..Len(audit) /\ Len(audit) \in Nat
    OBVIOUS
  <2>2. QED BY <2>1, EvidenceAssumption
<1>2. \A i \in rows : audit[i].status \in Status
  <2>1. \A i \in DOMAIN audit : audit[i] \in Row
    OBVIOUS
  <2>2. QED BY <2>1 DEF Row
<1>3. Loaded(kind, data) = [i \in rows |-> audit[i].status]
  BY DEF Loaded
<1> HIDE DEF rows
<1>4. Loaded(kind, data) \in [rows -> Status]
  BY <1>2, <1>3
<1>5. QED BY <1>1, <1>4 DEF Seen

(* A request that is signed or judged is carried to its commit, or         *)
(* answered: what it carries.                                              *)
Carrying(r) ==
    \/ Answer(r)
    \/ /\ request[r].kind # "verify"
       /\ \/ /\ PrivateKey(r) \in Key
             /\ request[r].step = 0
             /\ \E keyId \in {None} \cup (Key \cap {PublicKey(r)}) :
                   Carry(r, PrivateKey(r), keyId)
          \/ /\ request[r].step = GenerationSteps
             /\ \E keyId \in {None} \cup (Key \cap {PublicKey(r)}) :
                   Carry(r, request[r].k, keyId)
          \/ /\ request[r].step = GenerationSteps \/ PrivateKey(r) = Malformed
             /\ Carry(r, None, None)
    \/ /\ request[r].kind = "verify"
       /\ \/ request[r].step = 0 /\ PublicKey(r) \in Key /\ Carry(r, PublicKey(r), None)
          \/ request[r].step = GenerationSteps /\ Carry(r, request[r].k, None)

LEMMA Carried ==
    ASSUME NEW r \in Replica, Sign(r) \/ SigningFails(r) \/ Verify(r)
    PROVE  Carrying(r)
BY DEF Sign, SigningFails, Verify, Signed, Generated, Carrying

LEMMA StepTypes ==
    ASSUME Disk, NEW r \in Replica, Act(r)
    PROVE  Types' /\ Others(r)
<1> USE KeysAssumption, EvidenceAssumption DEF Disk
<1>t. Types /\ KeysTypeOK /\ priv \in [Replica -> File] /\ pub \in [Replica -> File]
         /\ request \in [Replica -> Request \cup {None}]
         /\ memo \in [Replica -> Memo]
         /\ life \in [Replica -> 1..MaxLives] /\ minted \in [Replica -> SUBSET Key]
         /\ audit \in Seq(Row) /\ deployment \in [Replica -> Deployments]
         /\ found \in [Replica -> [1..MaxLives -> Finding \cup {None}]]
  BY DEF Types, KeysTypeOK
<1>1. ASSUME NEW kind \in Kind, NEW data \in Data, Begin(r, kind, data)
      PROVE  Types' /\ Others(r)
  <2>0. Loaded(kind, data) \in Seen
    BY <1>1, <1>t, LoadedTypes DEF Begin
  <2>1. [kind |-> kind, data |-> data, n |-> served + 1, seen |-> Loaded(kind, data),
         step |-> 0, k |-> None, stage |-> "resolve", key |-> None, keyId |-> None] \in Request
    BY <1>1, <1>t, <2>0 DEF Begin, Types, Request, GenerationSteps
  <2>2. QED BY <1>1, <2>1, <1>t DEF Begin, Types, KeysTypeOK, keyVars, Others
<1>2. CASE StartGenerating(r)
  <2>1. Fresh \in Key
    BY <1>2 DEF StartGenerating, Fresh, Unminted
  <2>2. request[r] \in Request
    BY <1>2, <1>t DEF StartGenerating, Resolving
  <2>3. [request[r] EXCEPT !.step = 1, !.k = Fresh] \in Request
    BY <2>1, <2>2, RequestTypes
  <2>4. /\ request' = [request EXCEPT ![r] = [request[r] EXCEPT !.step = 1, !.k = Fresh]]
        /\ priv' = [priv EXCEPT ![r] = Malformed] /\ pub' = pub
        /\ minted' = [minted EXCEPT ![r] = @ \cup {Fresh}]
        /\ UNCHANGED <<deployment, memo, audit, held, life, found, served>>
    BY <1>2, <1>t DEF StartGenerating, Generate
  <2>5. Malformed \in File
    BY DEF File
  <2>6. minted' \in [Replica -> SUBSET Key]
    BY <2>1, <2>4, <1>t
  <2>7. QED BY <2>3, <2>4, <2>5, <2>6, <1>t DEF Types, KeysTypeOK, Others
<1>3. CASE KeepGenerating(r)
  <2>1. request[r] \in Request
    BY <1>3, <1>t DEF KeepGenerating, Resolving
  <2>2. request[r].k \in Key
    BY <1>3, <2>1 DEF KeepGenerating, Resolving, Generating, GeneratingOf, GenerationSteps
  <2>3. [request[r] EXCEPT !.step = request[r].step + 1] \in Request
    BY <1>3, <2>1 DEF KeepGenerating, Request, GenerationSteps
  <2>4. request' = [request EXCEPT ![r] = [request[r] EXCEPT !.step = request[r].step + 1]]
           /\ UNCHANGED <<deployment, memo, minted, audit, held, life, found, served>>
    BY <1>3 DEF KeepGenerating
  <2>5. Malformed \in File /\ request[r].k \in File
    BY <2>2 DEF File
  <2>6. PICK x \in File, y \in File :
           priv' = [priv EXCEPT ![r] = x] /\ pub' = [pub EXCEPT ![r] = y]
    <3>1. priv' \in {priv, [priv EXCEPT ![r] = Malformed], [priv EXCEPT ![r] = request[r].k]}
      BY <1>3 DEF KeepGenerating, Generate
    <3>2. pub' \in {pub, [pub EXCEPT ![r] = Malformed], [pub EXCEPT ![r] = request[r].k]}
      BY <1>3 DEF KeepGenerating, Generate
    <3>3. priv = [priv EXCEPT ![r] = priv[r]] /\ pub = [pub EXCEPT ![r] = pub[r]]
             /\ priv[r] \in File /\ pub[r] \in File
      BY <1>t
    <3>4. \E x \in File : priv' = [priv EXCEPT ![r] = x]
      BY <2>5, <3>1, <3>3
    <3>5. \E y \in File : pub' = [pub EXCEPT ![r] = y]
      BY <2>5, <3>2, <3>3
    <3>6. QED BY <3>4, <3>5
  <2>7. QED BY <2>3, <2>4, <2>6, <1>t DEF Types, KeysTypeOK, Others
<1>4. ASSUME NEW memo_, memo' = [memo EXCEPT ![r] = memo_],
             memo_ \in Memo
      PROVE  memo' \in [Replica -> Memo]
  BY <1>4, <1>t
<1>5. ASSUME Remember(r)
      PROVE  memo' \in [Replica -> Memo]
                /\ \A x \in Replica \ {r} : memo'[x] = memo[x]
  <2>1. CASE PrivateKey(r) \notin Key
    BY <1>5, <1>t, <2>1 DEF Remember
  <2>2. CASE PrivateKey(r) \in Key
    <3> DEFINE m == [key |-> PrivateKey(r),
                     source |-> IF deployment[r].envPriv # Absent THEN "env" ELSE "file"]
    <3>1. memo' = [memo EXCEPT ![r] = m]
      BY <1>5, <2>2 DEF Remember
    <3>2. m \in Memo
      BY <2>2 DEF Memo
    <3> HIDE DEF m
    <3>3. QED BY <3>1, <3>2, <1>t
  <2>3. QED BY <2>1, <2>2
<1>6. ASSUME NEW key \in Key \cup {None}, NEW keyId \in Key \cup {None}, request[r] # None,
             Carry(r, key, keyId)
      PROVE  request' \in [Replica -> Request \cup {None}]
                /\ \A x \in Replica \ {r} : request'[x] = request[x]
  <2>1. [request[r] EXCEPT !.stage = "commit", !.key = key, !.keyId = keyId] \in Request
    BY <1>6, <1>t, RequestTypes
  <2>2. request' = [request EXCEPT ![r] = [request[r] EXCEPT !.stage = "commit", !.key = key,
                                                             !.keyId = keyId]]
    BY <1>6, Zenon DEF Carry
  <2>3. QED BY <2>1, <2>2, <1>t
<1>7. ASSUME Answer(r)
      PROVE  request' \in [Replica -> Request \cup {None}]
                /\ \A x \in Replica \ {r} : request'[x] = request[x]
  BY <1>7, <1>t DEF Answer
<1>8. CASE Sign(r) \/ SigningFails(r) \/ Verify(r)
  <2>1. UNCHANGED <<deployment, priv, pub, minted, audit, held, life, found, served>>
           /\ request[r] # None
    BY <1>8 DEF Sign, SigningFails, Verify, Resolving
  <2>2. memo' \in [Replica -> Memo] /\ \A x \in Replica \ {r} : memo'[x] = memo[x]
    <3> DEFINE m == [key |-> request[r].k, source |-> "generated"]
    <3>1. Remember(r) \/ UNCHANGED memo \/ memo' = [memo EXCEPT ![r] = m]
      BY <1>8 DEF Sign, SigningFails, Verify, CacheGenerated
    <3>2. m \in Memo
      BY <2>1, <1>t DEF Request, Memo
    <3> HIDE DEF m
    <3>3. CASE Remember(r)
      BY <3>3, <1>5
    <3>4. CASE UNCHANGED memo
      BY <3>4, <1>t
    <3>5. CASE memo' = [memo EXCEPT ![r] = m]
      BY <3>2, <3>5, <1>t
    <3>6. QED BY <3>1, <3>3, <3>4, <3>5
  <2>3. request' \in [Replica -> Request \cup {None}]
           /\ \A x \in Replica \ {r} : request'[x] = request[x]
    <3>1. request[r].k \in Key \cup {None}
      BY <2>1, <1>t DEF Request
    <3>2. Answer(r) \/ \E key, keyId \in Key \cup {None} : Carry(r, key, keyId)
      BY <1>8, <3>1, Carried DEF Carrying
    <3>3. QED BY <2>1, <3>2, <1>6, <1>7
  <2>4. QED BY <2>1, <2>2, <2>3, <1>t DEF Types, KeysTypeOK, Others
<1>9. CASE Commit(r) \/ CommitFails(r)
  <2>1. UNCHANGED <<keyVars, life, found, served>> /\ Answer(r) /\ request[r] \in Request
           /\ request[r].stage = "commit" /\ request[r] # None
    BY <1>9, <1>t DEF Commit, CommitFails, Committing
  <2>2. audit' \in Seq(Row)
    <3>1. CASE audit' = Append(audit, NewRow(r)) /\ request[r].kind \notin {"packet", "verify"}
      <4>1. NewRow(r) \in Row
        <5>1. request[r].kind \in {"export", "access"}
          BY <2>1, <3>1 DEF Request, Kind
        <5>2. QED BY <5>1, <2>1, <1>t DEF NewRow, Row, Request, Status
      <4>2. QED BY <3>1, <4>1, <1>t, AppendedRows
    <3>2. CASE audit' = Judged(r)
      BY <3>2, <1>t, JudgedRows
    <3>3. CASE audit' = audit
      BY <3>3, <1>t
    <3>4. QED BY <3>1, <3>2, <3>3, <1>9 DEF Commit, CommitFails
  <2>3. held' \subseteq Held
    <3>1. life[r] \in 1..MaxLives
      BY <1>t
    <3>2. QED BY <1>9, <2>1, <3>1 DEF Commit, CommitFails, Given, Held, Types, Request, Kind
  <2>4. QED BY <2>1, <2>2, <2>3, <1>7, <1>t DEF Types, KeysTypeOK, keyVars, Others
<1>10. CASE Crash(r)
  <2>1. NoMemo \in Memo
    BY DEF NoMemo, Memo
  <2>2. memo' = [memo EXCEPT ![r] = NoMemo] /\ Answer(r)
           /\ UNCHANGED <<deployment, priv, pub, minted, audit, held, life, found, served>>
    BY <1>10 DEF Crash, Forget
  <2>3. QED BY <2>1, <2>2, <1>7, <1>t DEF Types, KeysTypeOK, Others
<1>11. ASSUME NEW d \in Deployments, NEW kept \in BOOLEAN, Redeploy(r, d, kept)
       PROVE  Types' /\ Others(r)
  <2>1. NoMemo \in Memo
    BY DEF NoMemo, Memo
  <2>2. PICK x \in File, y \in File :
           priv' = [priv EXCEPT ![r] = x] /\ pub' = [pub EXCEPT ![r] = y]
    BY <1>11, <1>t DEF Redeploy, Replace, Deployment
  <2>3. /\ memo' = [memo EXCEPT ![r] = NoMemo] /\ deployment' = [deployment EXCEPT ![r] = d]
        /\ Answer(r) /\ UNCHANGED <<minted, audit, held, served>>
        /\ life' = [life EXCEPT ![r] = life[r] + 1] /\ life[r] + 1 \in 1..MaxLives
    BY <1>11, <1>t DEF Redeploy, Replace
  <2>4. Finds(d, priv'[r], pub'[r]) \in Finding
    BY <2>2, <1>t DEF Finds, Finding, Deployment
  <2>5. found' = [found EXCEPT ![r] = [found[r] EXCEPT ![life'[r]] = Finds(d, priv'[r], pub'[r])]]
    BY <1>11 DEF Redeploy
  <2>6. /\ found' \in [Replica -> [1..MaxLives -> Finding \cup {None}]]
        /\ \A q \in Replica \ {r} : found'[q] = found[q]
    <3>1. [found[r] EXCEPT ![life'[r]] = Finds(d, priv'[r], pub'[r])]
             \in [1..MaxLives -> Finding \cup {None}]
      BY <2>4, <1>t
    <3>2. QED BY <2>5, <3>1, <1>t
  <2>7. QED BY <2>1, <2>2, <2>3, <2>6, <1>7, <1>t DEF Types, KeysTypeOK, Others
<1>12. QED
  BY <1>1, <1>2, <1>3, <1>8, <1>9, <1>10, <1>11 DEF Serve, Act

(* What resolving a key leaves in the cache agrees with the disk.          *)
LEMMA Remembered ==
    ASSUME Disk, NEW r \in Replica, Remember(r),
           UNCHANGED <<deployment, priv, pub, life, found>>
    PROVE  FilesOf(r)'
<1>1. FilesOf(r) /\ memo \in [Replica -> Memo]
  BY DEF Disk, Files, Types, KeysTypeOK
<1>2. PrivateKey(r) = Current(r)
  BY <1>1, ResolvedKeys
<1>3. Current(r)' = Current(r) /\ Named(r)' = Named(r) /\ Found(r)' = Found(r)
  BY DEF Current, Named, Published, Found
<1>4. CASE PrivateKey(r) \notin Key
  BY <1>1, <1>3, <1>4 DEF Remember, FilesOf
<1>5. CASE PrivateKey(r) \in Key
  <2> DEFINE m == [key |-> PrivateKey(r),
                   source |-> IF deployment[r].envPriv # Absent THEN "env" ELSE "file"]
  <2>1. memo'[r] = m
    BY <1>1, <1>5 DEF Remember
  <2>2. m.key = PrivateKey(r) /\ (m.source = "file" <=> deployment[r].envPriv = Absent)
    OBVIOUS
  <2> HIDE DEF m
  <2>3. memo'[r].source = "file" => memo'[r].key = priv[r] /\ priv[r] \in Key
    BY <1>2, <1>5, <2>1, <2>2 DEF Current
  <2>4. QED BY <1>1, <1>3, <2>3 DEF FilesOf
<1>6. QED BY <1>4, <1>5

(* Nothing but the cache changes, and it holds a generated key, or nothing.*)
LEMMA CacheOnly ==
    ASSUME Disk, NEW r \in Replica, UNCHANGED <<deployment, priv, pub, life, found>>,
           memo'[r] = memo[r] \/ memo'[r].source # "file"
    PROVE  FilesOf(r)'
<1>1. FilesOf(r)
  BY DEF Disk, Files
<1>2. Current(r)' = Current(r) /\ Named(r)' = Named(r) /\ Found(r)' = Found(r)
  BY DEF Current, Named, Published, Found
<1>3. QED BY <1>1, <1>2 DEF FilesOf

LEMMA DiskStep ==
    ASSUME Disk, NEW r \in Replica, Act(r)
    PROVE  Disk'
<1> USE KeysAssumption
<1>1. Types' /\ Others(r)
  BY StepTypes
<1>2. SUFFICES FilesOf(r)' /\ GeneratingOf(r)'
  <2>1. \A x \in Replica \ {r} : FilesOf(x) /\ GeneratingOf(x)
    BY DEF Disk, Files, Generating
  <2>2. \A x \in Replica \ {r} : FilesOf(x)' /\ GeneratingOf(x)'
    BY <1>1, <2>1 DEF FilesOf, GeneratingOf, Others, Current, Named, Published, Found
  <2>3. QED BY <1>1, <1>2, <2>2 DEF Disk, Files, Generating
<1>t. /\ FilesOf(r) /\ GeneratingOf(r) /\ priv \in [Replica -> File] /\ pub \in [Replica -> File]
      /\ request \in [Replica -> Request \cup {None}] /\ memo \in [Replica -> Memo]
      /\ deployment \in [Replica -> Deployments] /\ life \in [Replica -> 1..MaxLives]
      /\ found \in [Replica -> [1..MaxLives -> Finding \cup {None}]]
  BY DEF Disk, Files, Generating, Types, KeysTypeOK
<1>a. ASSUME Answer(r) PROVE GeneratingOf(r)'
  BY <1>a, <1>t DEF Answer, GeneratingOf
<1>s. ASSUME NEW key, NEW keyId, Carry(r, key, keyId), request[r] # None
      PROVE  GeneratingOf(r)'
  <2>1. request'[r] = [request[r] EXCEPT !.stage = "commit", !.key = key, !.keyId = keyId]
    BY <1>s, <1>t DEF Carry
  <2>2. request[r] \in Request
    BY <1>s, <1>t
  <2>3. request'[r].stage = "commit"
    BY <2>1, <2>2 DEF Request
  <2>4. QED BY <2>3 DEF GeneratingOf
<1>3. ASSUME NEW kind \in Kind, NEW data \in Data, Begin(r, kind, data)
      PROVE  FilesOf(r)' /\ GeneratingOf(r)'
  <2>1. request'[r].stage = "resolve" /\ request'[r].step = 0
    BY <1>3, <1>t DEF Begin
  <2>2. GeneratingOf(r)'
    BY <2>1 DEF GeneratingOf
  <2>3. QED BY <1>3, <2>2, CacheOnly DEF Begin, keyVars
<1>4. CASE StartGenerating(r)
  <2>1. /\ deployment[r].envPriv = Absent /\ priv[r] = Absent /\ Current(r) = Absent
        /\ Found(r).signs = Absent
    BY <1>4, <1>t, ResolvedKeys DEF StartGenerating
  <2>2. Fresh \in Key /\ request[r] \in Request /\ request[r].stage = "resolve"
    BY <1>4, <1>t DEF StartGenerating, Fresh, Unminted, Resolving
  <2>3. priv'[r] = Malformed /\ UNCHANGED <<deployment, pub, memo, life, found>>
           /\ request' = [request EXCEPT ![r] = [request[r] EXCEPT !.step = 1, !.k = Fresh]]
    BY <1>4, <1>t DEF StartGenerating, Generate
  <2>4. request'[r].step = 1 /\ request'[r].k = Fresh /\ request'[r].stage = "resolve"
    BY <2>2, <2>3, <1>t DEF Request
  <2>5. Found(r)' = Found(r) /\ Published(r)' = Published(r)
    BY <2>3 DEF Found, Published
  <2>6. GeneratingOf(r)'
    BY <2>1, <2>2, <2>3, <2>4, <2>5 DEF GeneratingOf
  <2>7. Coherent(Found(r)) => Named(r)' \notin Key
    <3>1. Coherent(Found(r)) => Published(r) \notin Key
      BY <2>1, <1>t DEF FilesOf, Named, Absent, Malformed
    <3>2. Current(r)' = Malformed
      BY <2>1, <2>3 DEF Current
    <3>3. QED BY <2>5, <3>1, <3>2 DEF Named
  <2>8. FilesOf(r)'
    BY <2>1, <2>3, <2>5, <2>7, <1>t DEF FilesOf
  <2>9. QED BY <2>6, <2>8
<1>5. CASE KeepGenerating(r)
  <2> DEFINE q == request[r]
  <2>1. q \in Request /\ q # None /\ q.stage = "resolve" /\ q.step \in 1 .. 3
    BY <1>5, <1>t DEF KeepGenerating, Resolving, GenerationSteps
  <2>2. /\ deployment[r].envPriv = Absent /\ Found(r).signs = Absent /\ q.k \in Key
        /\ (q.step = 1 => priv[r] = Malformed) /\ (q.step # 1 => priv[r] = q.k)
    BY <2>1, <1>t DEF GeneratingOf
  <2>3. UNCHANGED <<deployment, memo, life, found>>
           /\ request' = [request EXCEPT ![r] = [q EXCEPT !.step = q.step + 1]]
    BY <1>5, <1>t DEF KeepGenerating
  <2>4. request'[r].step = q.step + 1 /\ request'[r].k = q.k /\ request'[r].stage = "resolve"
    BY <2>1, <2>3, <1>t DEF Request
  <2>5. priv'[r] = q.k
    BY <1>5, <1>t, <2>1, <2>2 DEF KeepGenerating, Generate
  <2>6. pub'[r] = IF q.step = 1 THEN pub[r] ELSE IF q.step = 2 THEN Malformed ELSE q.k
    BY <1>5, <1>t, <2>1, <2>2 DEF KeepGenerating, Generate
  <2>7. memo[r].source = "file" => priv'[r] = priv[r]
    BY <2>2, <2>5, <1>t DEF FilesOf
  <2>8. /\ Found(r)' = Found(r) /\ Current(r) = priv[r] /\ Current(r)' = q.k
    BY <2>2, <2>3, <2>5 DEF Found, Current
  <2>9. \/ Published(r)' = Published(r)
        \/ Published(r)' \in {Malformed, q.k}
    BY <2>1, <2>3, <2>6 DEF Published
  <2>10. Coherent(Found(r)) /\ Published(r) \in Key => Published(r) = q.k
    BY <2>2, <2>8, <1>t DEF FilesOf, Named
  <2> HIDE DEF q
  <2>11. GeneratingOf(r)'
    BY <2>1, <2>2, <2>3, <2>4, <2>5, <2>8 DEF GeneratingOf
  <2>12. Coherent(Found(r)) /\ Named(r)' \in Key => Named(r)' = Current(r)'
    BY <2>2, <2>8, <2>9, <2>10 DEF Named
  <2>13. FilesOf(r)'
    BY <2>2, <2>3, <2>7, <2>8, <2>12, <1>t DEF FilesOf
  <2>14. QED BY <2>11, <2>13
<1>6. CASE Sign(r) \/ SigningFails(r) \/ Verify(r)
  <2>1. UNCHANGED <<deployment, priv, pub, life, found>> /\ request[r] # None
    BY <1>6 DEF Sign, SigningFails, Verify, Resolving
  <2>2. GeneratingOf(r)'
    <3>1. Answer(r) \/ \E key, keyId : Carry(r, key, keyId)
      BY <1>6, Carried DEF Carrying
    <3>2. QED BY <3>1, <2>1, <1>a, <1>s
  <2>3. Remember(r) \/ memo' = memo
           \/ memo' = [memo EXCEPT ![r] = [key |-> request[r].k, source |-> "generated"]]
    BY <1>6 DEF Sign, SigningFails, Verify, CacheGenerated
  <2>4. Remember(r) \/ memo'[r] = memo[r] \/ memo'[r].source = "generated"
    BY <2>3, <1>t
  <2>5. QED BY <2>1, <2>2, <2>4, Remembered, CacheOnly
<1>7. CASE Commit(r) \/ CommitFails(r)
  BY <1>7, <1>a, CacheOnly DEF Commit, CommitFails, keyVars
<1>8. CASE Crash(r)
  BY <1>8, <1>t, <1>a, CacheOnly DEF Crash, Forget, NoMemo
<1>9. ASSUME NEW d \in Deployments, NEW kept \in BOOLEAN, Redeploy(r, d, kept)
      PROVE  FilesOf(r)' /\ GeneratingOf(r)'
  <2>1. deployment'[r] = d /\ memo'[r] = NoMemo
    BY <1>9, <1>t DEF Redeploy, Replace
  <2>2. priv'[r] \in File /\ pub'[r] \in File /\ d \in Deployment
    BY <1>1 DEF Types, KeysTypeOK
  <2>3. Found(r)' = Finds(d, priv'[r], pub'[r])
    <3>1. life'[r] \in 1..MaxLives
      BY <1>1 DEF Types
    <3>2. found'[r] = [found[r] EXCEPT ![life'[r]] = Finds(d, priv'[r], pub'[r])]
      BY <1>9, <1>t DEF Redeploy
    <3>3. found'[r][life'[r]] = Finds(d, priv'[r], pub'[r])
      BY <3>1, <3>2, <1>t
    <3>4. QED BY <3>3 DEF Found
  <2>4. /\ Found(r)'.signs = IF d.envPriv # Absent THEN d.envPriv ELSE priv'[r]
        /\ Found(r)'.names = IF d.envPub # Absent THEN d.envPub
                             ELSE IF pub'[r] # Absent THEN pub'[r] ELSE Found(r)'.signs
    BY <2>2, <2>3, FoundAtStart
  <2>5. Current(r)' = Found(r)'.signs /\ Named(r)' = Found(r)'.names
    BY <2>1, <2>4 DEF Current, Named, Published
  <2>6. FilesOf(r)'
    BY <2>1, <2>5 DEF FilesOf, Coherent, NoMemo
  <2>7. QED BY <1>9, <2>6, <1>a DEF Redeploy
<1>10. QED
  BY <1>3, <1>4, <1>5, <1>6, <1>7, <1>8, <1>9 DEF Serve, Act

----------------------------------------------------------------------------
(* What a request that was signed carries to its commit, and by what key a *)
(* verification judges.                                                    *)
SignedOf(r) ==
    request[r] # None /\ request[r].stage = "commit" =>
       IF request[r].kind = "verify"
       THEN Found(r).signs # Absent => request[r].key = Found(r).names
       ELSE /\ request[r].key # None => request[r].key = Current(r)
            /\ request[r].key # None /\ request[r].keyId # None /\ Coherent(Found(r)) =>
                  request[r].keyId = request[r].key
            /\ Found(r).signs \in Key => request[r].key = Found(r).signs

Signing == \A r \in Replica : SignedOf(r)

LEMMA SigningStep ==
    ASSUME Disk, Signing, NEW r \in Replica, Act(r)
    PROVE  Signing'
<1> USE KeysAssumption
<1>1. Others(r)
  BY StepTypes
<1>2. SUFFICES SignedOf(r)'
  <2>1. \A x \in Replica \ {r} : SignedOf(x)'
    BY <1>1 DEF Signing, SignedOf, Others, Current, Found
  <2>2. QED BY <1>2, <2>1 DEF Signing
<1>t. request \in [Replica -> Request \cup {None}] /\ SignedOf(r) /\ FilesOf(r) /\ GeneratingOf(r)
  BY DEF Disk, Types, Signing, Files, Generating
<1>a. ASSUME Answer(r) PROVE SignedOf(r)'
  BY <1>a, <1>t DEF Answer, SignedOf
<1>3. ASSUME NEW kind \in Kind, NEW data \in Data, Begin(r, kind, data)
      PROVE  SignedOf(r)'
  <2>1. request'[r].stage = "resolve"
    BY <1>3, <1>t DEF Begin
  <2>2. QED BY <2>1 DEF SignedOf
<1>4. CASE StartGenerating(r) \/ KeepGenerating(r)
  <2>1. request[r] \in Request /\ request[r].stage = "resolve"
    BY <1>4, <1>t DEF StartGenerating, KeepGenerating, Resolving
  <2>2. \/ request'[r] = [request[r] EXCEPT !.step = 1, !.k = Fresh]
        \/ request'[r] = [request[r] EXCEPT !.step = request[r].step + 1]
    BY <1>4, <1>t DEF StartGenerating, KeepGenerating
  <2>3. request'[r].stage = "resolve"
    BY <2>1, <2>2 DEF Request
  <2>4. QED BY <2>3 DEF SignedOf
<1>5. CASE Sign(r) \/ SigningFails(r) \/ Verify(r)
  <2>1. /\ UNCHANGED <<deployment, priv, pub, life, found>> /\ request[r] # None
        /\ request[r].stage = "resolve" /\ request[r] \in Request
    BY <1>5, <1>t DEF Sign, SigningFails, Verify, Resolving
  <2>2. PrivateKey(r) = Current(r) /\ PublicKey(r) = Named(r)
    BY <1>t, ResolvedKeys
  <2>3. Current(r)' = Current(r) /\ Named(r)' = Named(r) /\ Found(r)' = Found(r)
    BY <2>1 DEF Current, Named, Published, Found
  <2>4. ASSUME NEW key, NEW keyId, Carry(r, key, keyId)
        PROVE  /\ request'[r].key = key /\ request'[r].keyId = keyId
               /\ request'[r].kind = request[r].kind
    <3>1. request'[r] = [request[r] EXCEPT !.stage = "commit", !.key = key, !.keyId = keyId]
      BY <2>4, <1>t DEF Carry
    <3>2. QED BY <2>1, <3>1 DEF Request
  <2>5. request[r].step = GenerationSteps =>
           /\ request[r].k = Current(r) /\ Found(r).signs = Absent /\ request[r].k \in Key
    BY <2>1, <1>t DEF GeneratingOf, GenerationSteps, Current
  <2>6. ASSUME NEW key, NEW keyId \in {None} \cup (Key \cap {PublicKey(r)}), Carry(r, key, keyId),
               request[r].kind # "verify", key \in Key, key = Current(r),
               Found(r).signs \in Key => key = Found(r).signs
        PROVE  SignedOf(r)'
    <3>1. keyId # None /\ Coherent(Found(r)) => keyId = key
      BY <2>2, <2>6, <1>t DEF FilesOf
    <3>2. QED BY <2>3, <2>4, <2>6, <3>1 DEF SignedOf
  <2>7. CASE /\ request[r].kind # "verify" /\ PrivateKey(r) \in Key
             /\ \E keyId \in {None} \cup (Key \cap {PublicKey(r)}) : Carry(r, PrivateKey(r), keyId)
    BY <2>2, <2>6, <2>7, <1>t DEF FilesOf
  <2>8. CASE /\ request[r].kind # "verify" /\ request[r].step = GenerationSteps
             /\ \E keyId \in {None} \cup (Key \cap {PublicKey(r)}) : Carry(r, request[r].k, keyId)
    BY <2>5, <2>6, <2>8
  <2>9. CASE /\ request[r].kind # "verify" /\ Carry(r, None, None)
             /\ request[r].step = GenerationSteps \/ PrivateKey(r) = Malformed
    <3>1. Found(r).signs \notin Key
      BY <2>2, <2>5, <2>9, <1>t DEF FilesOf
    <3>2. QED BY <2>3, <2>4, <2>9, <3>1 DEF SignedOf
  <2>10. CASE request[r].kind = "verify" /\ PublicKey(r) \in Key /\ Carry(r, PublicKey(r), None)
    BY <2>2, <2>3, <2>4, <2>10, <1>t DEF SignedOf, FilesOf
  <2>11. CASE /\ request[r].kind = "verify" /\ request[r].step = GenerationSteps
              /\ Carry(r, request[r].k, None)
    BY <2>3, <2>4, <2>5, <2>11 DEF SignedOf
  <2>12. Carrying(r)
    BY <1>5, Carried
  <2>13. QED BY <2>7, <2>8, <2>9, <2>10, <2>11, <2>12, <1>a DEF Carrying
<1>7. CASE Commit(r) \/ CommitFails(r) \/ Crash(r) \/ \E d \in Deployments, kept \in BOOLEAN : Redeploy(r, d, kept)
  BY <1>7, <1>a DEF Commit, CommitFails, Crash, Redeploy
<1>8. QED BY <1>3, <1>4, <1>5, <1>7 DEF Serve, Act

----------------------------------------------------------------------------
(* Within a container's life the key it signs with does not change once    *)
(* there is one; and what containers found when they started is history.   *)
LEMMA KeyStays ==
    ASSUME Disk, NEW r \in Replica, NEW x \in Replica, Act(r)
    PROVE  /\ life[x] \in Nat /\ life'[x] \in Nat /\ life[x] <= life'[x]
           /\ life'[x] = life[x] => Current(x)' = Current(x) \/ Current(x) \notin Key
           /\ \A i \in 1..life[x] : found'[x][i] = found[x][i]
<1> USE KeysAssumption, EvidenceAssumption
<1>1. Others(r) /\ life \in [Replica -> 1..MaxLives] /\ priv \in [Replica -> File]
         /\ request \in [Replica -> Request \cup {None}]
         /\ found \in [Replica -> [1..MaxLives -> Finding \cup {None}]]
  BY StepTypes DEF Disk, Types, KeysTypeOK
<1>2. CASE x # r
  BY <1>1, <1>2 DEF Others, Current
<1>3. ASSUME x = r, NEW d \in Deployments, NEW kept \in BOOLEAN, Redeploy(r, d, kept)
      PROVE  /\ life'[x] = life[x] + 1
             /\ \A i \in 1..life[x] : found'[x][i] = found[x][i]
  <2>1. life'[r] = life[r] + 1 /\ life[r] \in Nat
    BY <1>1, <1>3 DEF Redeploy
  <2>2. found'[r] = [found[r] EXCEPT ![life'[r]] = Finds(d, priv'[r], pub'[r])]
    BY <1>1, <1>3 DEF Redeploy
  <2>3. QED BY <1>1, <1>3, <2>1, <2>2
<1>4. CASE x = r /\ StartGenerating(r)
  <2>1. FilesOf(r)
    BY DEF Disk, Files
  <2>2. Current(r) = Absent /\ life' = life /\ found' = found
    BY <1>4, <2>1, ResolvedKeys DEF StartGenerating
  <2>3. QED BY <1>1, <1>4, <2>2
<1>5. CASE x = r /\ KeepGenerating(r)
  <2>1. /\ deployment[r].envPriv = Absent
        /\ (request[r].step = 1 => priv[r] = Malformed)
        /\ (request[r].step # 1 => priv[r] = request[r].k)
    BY <1>5 DEF KeepGenerating, Resolving, Disk, Generating, GeneratingOf, GenerationSteps
  <2>2. request[r].step \in 1 .. 3
    BY <1>5 DEF KeepGenerating, GenerationSteps
  <2>3. priv' = priv \/ priv[r] = Malformed
    BY <1>5, <2>1, <2>2 DEF KeepGenerating, Generate
  <2>4. UNCHANGED <<life, deployment, found>>
    BY <1>5 DEF KeepGenerating
  <2>5. QED BY <1>1, <1>5, <2>1, <2>3, <2>4 DEF Current
<1>6. CASE x = r /\ UNCHANGED <<deployment, priv, life, found>>
  BY <1>1, <1>6 DEF Current
<1>7. QED
  BY <1>1, <1>2, <1>3, <1>4, <1>5, <1>6
     DEF Act, Serve, Begin, Sign, SigningFails, Commit, CommitFails, Verify, Crash, Forget, keyVars

----------------------------------------------------------------------------
(* What holds of each row of the audit table, and of the id beside a       *)
(* signature wherever it is kept.                                          *)
RowOK(row) ==
    /\ row.life <= life[row.replica]
    /\ row.life = life[row.replica] /\ row.key # None => row.key = Current(row.replica)

IdOK(e) ==
    /\ e.life <= life[e.replica]
    /\ Coherent(found[e.replica][e.life]) /\ e.key # None /\ e.keyId # None => e.keyId = e.key

Recorded(e, rows) ==
    \E row \in rows : row.kind = "export" /\ row.n = e.n /\ row.data = e.data /\ row.key = e.key

(* All containers so far were given the key pair k, or its private half.   *)
GivenTo(k) ==
    \A r \in Replica : \A i \in 1..life[r] :
       found[r][i].signs = k /\ found[r][i].names \in {k, Malformed}

Survives(row, k) == row.key = k /\ row.status \notin {"no_signature", "signature_invalid"}

Rows ==
    /\ \A row \in ToSet(audit) : RowOK(row)
    /\ \A e \in held \cup ToSet(audit) : IdOK(e)
    /\ RestartKeepsKey
    /\ \A k \in Key : GivenTo(k) => \A row \in ToSet(audit) : Survives(row, k)
    /\ \A e \in held : e.kind = "export" => Recorded(e, ToSet(audit))

IInv == Disk /\ Signing /\ Rows

(* A row stays as it should be, whatever happens to its container.         *)
LEMMA RowStays ==
    ASSUME Disk, NEW r \in Replica, Act(r)
    PROVE  /\ \A row \in Row : RowOK(row) => RowOK(row)'
           /\ \A e \in Row \cup Held : IdOK(e) => IdOK(e)'
           /\ \A k \in Key : GivenTo(k)' => GivenTo(k)
<1>1. ASSUME NEW row \in Row, RowOK(row)
      PROVE  RowOK(row)'
  <2>1. row.replica \in Replica /\ row.life \in Nat /\ (row.key # None => row.key \in Key)
    BY EvidenceAssumption DEF Row
  <2>2. /\ life[row.replica] \in Nat /\ life'[row.replica] \in Nat
        /\ life[row.replica] <= life'[row.replica]
        /\ life'[row.replica] = life[row.replica] =>
              Current(row.replica)' = Current(row.replica) \/ Current(row.replica) \notin Key
    BY <2>1, KeyStays
  <2>3. QED BY <1>1, <2>1, <2>2 DEF RowOK
<1>2. ASSUME NEW e \in Row \cup Held, IdOK(e)
      PROVE  IdOK(e)'
  <2>1. e.replica \in Replica /\ e.life \in Nat \ {0}
    BY EvidenceAssumption DEF Row, Held
  <2>2. /\ life[e.replica] \in Nat /\ life'[e.replica] \in Nat
        /\ life[e.replica] <= life'[e.replica]
        /\ \A i \in 1..life[e.replica] : found'[e.replica][i] = found[e.replica][i]
    BY <2>1, KeyStays
  <2>3. QED BY <1>2, <2>1, <2>2 DEF IdOK
<1>3. ASSUME NEW k \in Key, GivenTo(k)'
      PROVE  GivenTo(k)
  <2> SUFFICES ASSUME NEW x \in Replica, NEW i \in 1..life[x]
               PROVE  found[x][i].signs = k /\ found[x][i].names \in {k, Malformed}
    BY DEF GivenTo
  <2>1. life[x] \in Nat /\ life'[x] \in Nat /\ life[x] <= life'[x] /\ found'[x][i] = found[x][i]
    BY KeyStays
  <2>2. QED BY <1>3, <2>1 DEF GivenTo
<1>4. QED BY <1>1, <1>2, <1>3

LEMMA RowsIn ==
    ASSUME NEW S, NEW s \in Seq(S)
    PROVE  ToSet(s) \subseteq S
<1>1. \A i \in DOMAIN s : s[i] \in S
  OBVIOUS
<1>2. QED BY <1>1 DEF ToSet

(* Nothing is added to the table and nothing handed out.                   *)
LEMMA RowsUnchanged ==
    ASSUME Disk, Rows, NEW r \in Replica, Act(r),
           UNCHANGED <<audit, held>>
    PROVE  Rows'
<1>1. ToSet(audit) \subseteq Row /\ held \subseteq Held
  BY RowsIn DEF Disk, Types
<1>2. /\ \A row \in ToSet(audit) : RowOK(row)'
      /\ \A e \in held \cup ToSet(audit) : IdOK(e)'
      /\ \A k \in Key : GivenTo(k)' => GivenTo(k)
  BY <1>1, RowStays DEF Rows
<1>3. QED BY <1>2 DEF Rows, RestartKeepsKey

(* A verification judges by a key that turns no row down, where every      *)
(* container was given one pair.                                           *)
LEMMA RowsJudged ==
    ASSUME Disk, Signing, Rows, NEW r \in Replica, Commit(r), request[r].kind = "verify"
    PROVE  Rows'
<1> USE KeysAssumption
<1> DEFINE key == request[r].key
           After(x, y) == x = y \/ x = [y EXCEPT !.status = Verdict(y, key)]
<1>0. audit' = Judged(r) /\ held' = held /\ Act(r) /\ request[r] \in Request
         /\ request[r] # None /\ request[r].stage = "commit" /\ UNCHANGED <<life, found>>
  BY DEF Commit, Committing, Given, Act, Serve, Disk, Types
<1>1. /\ \A x \in ToSet(audit)' : \E y \in ToSet(audit) : After(x, y)
      /\ \A y \in ToSet(audit) : \E x \in ToSet(audit)' : After(x, y)
  BY <1>0, JudgedRows DEF Disk, Types
<1>2. ToSet(audit) \subseteq Row /\ held \subseteq Held
  BY RowsIn DEF Disk, Types
<1>3. /\ \A row \in ToSet(audit) : RowOK(row)'
      /\ \A e \in held \cup ToSet(audit) : IdOK(e)'
      /\ \A k \in Key : GivenTo(k)' => GivenTo(k)
  BY <1>0, <1>2, RowStays DEF Rows
<1>4. ASSUME NEW x, NEW y \in Row, After(x, y)
      PROVE  /\ x.kind = y.kind /\ x.data = y.data /\ x.n = y.n /\ x.replica = y.replica
             /\ x.life = y.life /\ x.key = y.key /\ x.keyId = y.keyId
             /\ x.status = y.status \/ x.status = Verdict(y, key)
  BY <1>4 DEF Row
<1> HIDE DEF After
<1>5. \A x \in ToSet(audit)' : RowOK(x)' /\ IdOK(x)'
  <2> SUFFICES ASSUME NEW x \in ToSet(audit)' PROVE RowOK(x)' /\ IdOK(x)' OBVIOUS
  <2>1. PICK y \in ToSet(audit) : After(x, y)
    BY <1>1
  <2>2. RowOK(y)' /\ IdOK(y)' /\ y \in Row
    BY <1>2, <1>3, <2>1
  <2>3. QED BY <1>4, <2>1, <2>2 DEF RowOK, IdOK
<1>6. RestartKeepsKey'
  <2> SUFFICES ASSUME NEW x1 \in ToSet(audit)', NEW x2 \in ToSet(audit)',
                      x1.replica = x2.replica, x1.life = x2.life, x1.key # None, x2.key # None
               PROVE  x1.key = x2.key
    BY DEF RestartKeepsKey
  <2>1. PICK y1 \in ToSet(audit) : After(x1, y1)
    BY <1>1
  <2>2. PICK y2 \in ToSet(audit) : After(x2, y2)
    BY <1>1
  <2>3. QED BY <1>2, <1>4, <2>1, <2>2 DEF Rows, RestartKeepsKey
<1>7. \A e \in held : e.kind = "export" => Recorded(e, ToSet(audit)')
  <2> SUFFICES ASSUME NEW e \in held, e.kind = "export" PROVE Recorded(e, ToSet(audit)')
    OBVIOUS
  <2>1. PICK y \in ToSet(audit) :
           y.kind = "export" /\ y.n = e.n /\ y.data = e.data /\ y.key = e.key
    BY DEF Rows, Recorded
  <2>2. PICK x \in ToSet(audit)' : After(x, y)
    BY <1>1
  <2>3. QED BY <1>2, <1>4, <2>1, <2>2 DEF Recorded
<1>8. ASSUME NEW k \in Key, GivenTo(k)', NEW x \in ToSet(audit)'
      PROVE  Survives(x, k)
  <2>1. PICK y \in ToSet(audit) : After(x, y)
    BY <1>1
  <2>2. Survives(y, k)
    BY <1>3, <1>8 DEF Rows
  <2>3. key = k
    <3>1. life[r] \in 1..life[r] /\ GivenTo(k)
      BY <1>3, <1>8, EvidenceAssumption DEF Disk, Types
    <3>2. Found(r).signs = k /\ Found(r).names \in {k, Malformed}
      BY <3>1 DEF GivenTo, Found
    <3>3. key = Found(r).names
      BY <1>0, <3>2 DEF Signing, SignedOf
    <3>4. key \in Key \cup {None}
      BY <1>0 DEF Request
    <3>5. QED BY <3>2, <3>3, <3>4
  <2>4. Verdict(y, key) = "signature_valid"
    BY <2>2, <2>3 DEF Survives, Verdict
  <2>5. QED BY <1>2, <1>4, <2>1, <2>2, <2>4 DEF Survives
<1>9. QED BY <1>0, <1>3, <1>5, <1>6, <1>7, <1>8 DEF Rows

LEMMA RowsCommitted ==
    ASSUME Disk, Signing, Rows, NEW r \in Replica, Commit(r), request[r].kind # "verify"
    PROVE  Rows'
<1> USE KeysAssumption
<1> DEFINE q == request[r]
<1>0. PICK given : given = [kind |-> q.kind, data |-> q.data, n |-> q.n, replica |-> r,
                            life |-> life[r], key |-> q.key, keyId |-> q.keyId]
  OBVIOUS
<1>1. q \in Request /\ q # None /\ q.stage = "commit" /\ q.kind # "verify"
  BY DEF Commit, Committing, Disk, Types
<1>2. /\ q.key # None => q.key = Current(r)
      /\ q.key # None /\ q.keyId # None /\ Coherent(Found(r)) => q.keyId = q.key
      /\ Found(r).signs \in Key => q.key = Found(r).signs
  BY <1>1 DEF Signing, SignedOf
<1>3. UNCHANGED <<deployment, priv, life, found>> /\ held' \subseteq held \cup {given}
         /\ (q.kind # "export" => \A e \in held' : e \in held \/ e.kind # "export")
  BY <1>0 DEF Commit, keyVars, Given
<1>4. /\ given.kind = q.kind /\ given.data = q.data /\ given.n = q.n
      /\ given.key = q.key /\ given.keyId = q.keyId /\ given.replica = r /\ given.life = life[r]
  BY <1>0
<1>l. life[r] \in Nat /\ life[r] \in 1..life[r]
  BY EvidenceAssumption DEF Disk, Types
<1>5. /\ \A row \in ToSet(audit) : row \in Row /\ RowOK(row)'
      /\ \A k \in Key : GivenTo(k)' => GivenTo(k)
  BY <1>3, RowsIn DEF Rows, RowOK, Current, Disk, Types, GivenTo
<1> HIDE DEF q
<1>6. \A e \in held' \cup ToSet(audit) : IdOK(e)'
  <2>1. IdOK(given)'
    BY <1>2, <1>3, <1>4, <1>l DEF IdOK, Found
  <2>2. \A e \in held \cup ToSet(audit) : IdOK(e)'
    BY <1>3 DEF Rows, IdOK
  <2>3. QED BY <1>3, <2>1, <2>2
<1>7. CASE q.kind = "packet"
  <2>1. audit' = audit
    BY <1>7 DEF Commit, q
  <2>2. QED BY <1>3, <1>5, <1>6, <1>7, <2>1 DEF Rows, RestartKeepsKey
<1>8. CASE q.kind # "packet"
  <2>0. PICK new : new = NewRow(r)
    OBVIOUS
  <2>1. /\ new.kind = q.kind /\ new.data = q.data /\ new.n = q.n /\ new.replica = r
        /\ new.life = life[r] /\ new.key = q.key /\ new.keyId = q.keyId
        /\ new.status = IF q.keyId = None THEN "unsigned" ELSE "unverified"
    BY <2>0 DEF NewRow, q
  <2>2. new \in Row
    <3>1. q.kind \in {"export", "access"}
      BY <1>1, <1>8 DEF Request, Kind
    <3>2. life[r] \in 1..MaxLives
      BY DEF Disk, Types
    <3>3. QED BY <2>0, <3>1, <3>2, <1>1 DEF NewRow, Row, Request, Status, q
  <2>3. ToSet(audit)' = ToSet(audit) \cup {new}
    <3>1. audit' = Append(audit, new)
      BY <1>8, <2>0 DEF Commit, q
    <3>2. ToSet(audit)' = ToSet(Append(audit, new))
      BY <3>1
    <3>3. audit \in Seq(Row)
      BY DEF Disk, Types
    <3>4. QED BY <2>2, <3>2, <3>3, AppendedRows
  <2>4. \A k \in Key : GivenTo(k)' => \A row \in ToSet(audit)' : Survives(row, k)
    <3>1. ASSUME NEW k \in Key, GivenTo(k)' PROVE Survives(new, k)
      <4>1. Found(r).signs = k
        BY <1>5, <1>l, <3>1 DEF GivenTo, Found
      <4>2. QED BY <1>2, <2>1, <4>1 DEF Survives
    <3>2. QED BY <1>5, <2>3, <3>1 DEF Rows
  <2>5. RowOK(new)' /\ IdOK(new)'
    BY <1>2, <1>3, <2>1, <1>l DEF RowOK, IdOK, Current, Found
  <2>6. RestartKeepsKey'
    <3>1. ASSUME NEW row \in ToSet(audit), row.replica = r, row.life = life[r],
                 row.key # None, q.key # None
          PROVE  row.key = q.key
      BY <1>2, <3>1 DEF Rows, RowOK
    <3>2. QED BY <2>1, <2>3, <3>1 DEF Rows, RestartKeepsKey
  <2>7. \A e \in held' : e.kind = "export" => Recorded(e, ToSet(audit)')
    <3> SUFFICES ASSUME NEW e \in held', e.kind = "export" PROVE Recorded(e, ToSet(audit)')
      OBVIOUS
    <3>1. CASE e \in held
      BY <2>3, <3>1 DEF Rows, Recorded
    <3>2. CASE e \notin held
      BY <1>3, <1>4, <2>1, <2>3, <3>2 DEF Recorded
    <3>3. QED BY <3>1, <3>2
  <2>8. QED BY <1>5, <1>6, <2>3, <2>4, <2>5, <2>6, <2>7 DEF Rows
<1>9. QED BY <1>7, <1>8

LEMMA Preserved == IInv /\ [Next]_vars => IInv'
<1> SUFFICES ASSUME IInv, [Next]_vars PROVE IInv' OBVIOUS
<1>1. ASSUME NEW r \in Replica, Act(r)
      PROVE  IInv'
  <2>1. Disk' /\ Signing'
    BY <1>1, DiskStep, SigningStep DEF IInv
  <2>2. CASE UNCHANGED <<audit, held>>
    BY <1>1, <2>1, <2>2, RowsUnchanged DEF IInv
  <2>3. CASE Commit(r)
    BY <2>1, <2>3, RowsCommitted, RowsJudged DEF IInv
  <2>4. QED
    BY <1>1, <2>2, <2>3
       DEF Act, Serve, Begin, StartGenerating, KeepGenerating, Sign, SigningFails, CommitFails,
           Verify, Crash, Redeploy
<1>2. CASE UNCHANGED vars
  <2>1. UNCHANGED <<keyVars, audit, request, held, life, found, served>>
    BY <1>2 DEF vars
  <2>2. UNCHANGED <<deployment, priv, pub, memo, minted>>
    BY <2>1 DEF keyVars
  <2>3. Disk'
    BY <2>1, <2>2 DEF IInv, Disk, Types, KeysTypeOK, Files, Generating, FilesOf, GeneratingOf,
       Current, Named, Published, Found
  <2>4. Signing'
    BY <2>1, <2>2 DEF IInv, Signing, SignedOf, Current, Found
  <2>5. Rows'
    BY <2>1, <2>2 DEF IInv, Rows, RowOK, IdOK, GivenTo, Survives, RestartKeepsKey, Recorded, Current
  <2>6. QED BY <2>3, <2>4, <2>5 DEF IInv
<1>3. QED BY <1>1, <1>2 DEF Next, Act

LEMMA Starts == Init => IInv
<1> SUFFICES ASSUME Init PROVE IInv OBVIOUS
<1>1. Disk
  BY DiskInit
<1>2. Signing
  BY DEF Init, Signing, SignedOf
<1>3. ToSet(audit) = {} /\ held = {}
  BY DEF Init, ToSet
<1>4. Rows
  BY <1>3 DEF Rows, RestartKeepsKey
<1>5. QED BY <1>1, <1>2, <1>4 DEF IInv

LEMMA Invariance == Spec => []IInv
BY Starts, Preserved, PTL DEF Spec

----------------------------------------------------------------------------
(* The keys a container has minted: one at most, and none while its disk   *)
(* has no trace of a private key.                                          *)
MintedOf(r) ==
    /\ IsFiniteSet(minted[r])
    /\ Cardinality(minted[r]) <= life[r]
    /\ priv[r] = Absent => Cardinality(minted[r]) < life[r]

Minting == \A r \in Replica : MintedOf(r)

LEMMA MintingStep ==
    ASSUME Disk, Minting, NEW r \in Replica, Act(r)
    PROVE  Minting'
<1> USE KeysAssumption, EvidenceAssumption
<1>1. Others(r) /\ life \in [Replica -> 1..MaxLives] /\ priv \in [Replica -> File]
         /\ minted \in [Replica -> SUBSET Key]
  BY StepTypes DEF Disk, Types, KeysTypeOK
<1>2. SUFFICES MintedOf(r)'
  <2>1. \A x \in Replica \ {r} : MintedOf(x)'
    BY <1>1 DEF Minting, MintedOf, Others
  <2>2. QED BY <1>2, <2>1 DEF Minting
<1>3. MintedOf(r) /\ life[r] \in Nat /\ Cardinality(minted[r]) \in Nat
  <2>1. MintedOf(r)
    BY DEF Minting
  <2>2. QED BY <1>1, <2>1, FS_CardinalityType DEF MintedOf
<1>4. CASE StartGenerating(r)
  <2>0. FilesOf(r)
    BY DEF Disk, Files
  <2>1. priv[r] = Absent
    BY <1>4, <2>0, ResolvedKeys DEF StartGenerating
  <2>2. minted'[r] = minted[r] \cup {Fresh} /\ life' = life /\ priv'[r] = Malformed
    BY <1>1, <1>4 DEF StartGenerating, Generate
  <2>3. IsFiniteSet(minted'[r]) /\ Cardinality(minted'[r]) <= Cardinality(minted[r]) + 1
           /\ Cardinality(minted'[r]) \in Nat
    <3> DEFINE before == minted[r]
    <3>1. IsFiniteSet(before) /\ Cardinality(before) \in Nat
      BY <1>3 DEF MintedOf
    <3> HIDE DEF before
    <3>2. /\ IsFiniteSet(before \cup {Fresh})
          /\ Cardinality(before \cup {Fresh}) = IF Fresh \in before THEN Cardinality(before)
                                                ELSE Cardinality(before) + 1
      BY <3>1, FS_AddElement
    <3>3. minted'[r] = before \cup {Fresh}
      BY <2>2 DEF before
    <3> USE DEF before
    <3>4. QED BY <3>1, <3>2, <3>3
  <2>4. QED BY <1>3, <2>1, <2>2, <2>3 DEF MintedOf, Absent, Malformed
<1>5. CASE KeepGenerating(r)
  <2>1. minted' = minted /\ life' = life
    BY <1>5 DEF KeepGenerating
  <2>2. request[r].step \in 1 .. 3 /\ request[r].k \in Key
           /\ (request[r].step = 1 => priv[r] = Malformed)
           /\ (request[r].step # 1 => priv[r] = request[r].k)
    BY <1>5 DEF KeepGenerating, Resolving, Disk, Generating, GeneratingOf, GenerationSteps
  <2>3. priv'[r] # Absent
    BY <1>1, <1>5, <2>2 DEF KeepGenerating, Generate
  <2>4. QED BY <1>3, <2>1, <2>3 DEF MintedOf
<1>6. CASE \E d \in Deployments, kept \in BOOLEAN : Redeploy(r, d, kept)
  <2>1. minted' = minted /\ life'[r] = life[r] + 1
    BY <1>1, <1>6 DEF Redeploy, Replace
  <2>2. QED BY <1>3, <2>1 DEF MintedOf
<1>7. CASE UNCHANGED <<minted, life, priv>>
  BY <1>3, <1>7 DEF MintedOf
<1>8. QED
  BY <1>4, <1>5, <1>6, <1>7
     DEF Act, Serve, Begin, Sign, SigningFails, Commit, CommitFails, Verify, Crash, Forget, keyVars

LEMMA MintingInvariant == Spec => []Minting
<1>1. Init => Minting
  <2> SUFFICES ASSUME Init PROVE Minting OBVIOUS
  <2>1. \A r \in Replica : minted[r] = {} /\ life[r] = 1
    BY DEF Init, KeysInit
  <2>2. \A r \in Replica : IsFiniteSet(minted[r]) /\ Cardinality(minted[r]) = 0
    BY <2>1, FS_EmptySet
  <2>3. QED BY <2>1, <2>2 DEF Minting, MintedOf
<1>2. IInv /\ Minting /\ [Next]_vars => Minting'
  <2> SUFFICES ASSUME IInv, Minting, [Next]_vars PROVE Minting' OBVIOUS
  <2>1. CASE \E r \in Replica : Act(r)
    BY <2>1, MintingStep DEF IInv
  <2>2. CASE UNCHANGED vars
    BY <2>2 DEF vars, keyVars, Minting, MintedOf
  <2>3. QED BY <2>1, <2>2 DEF Next, Act
<1>3. QED BY <1>1, <1>2, Invariance, PTL DEF Spec

Short == Len(audit) <= MaxRows

LEMMA ShortTable == Spec => []Short
<1>1. Init => Short
  BY EvidenceAssumption DEF Init, Short
<1>2. IInv /\ Short /\ [Next]_vars => Short'
  <2> SUFFICES ASSUME IInv, Len(audit) <= MaxRows, [Next]_vars PROVE Len(audit') <= MaxRows
    BY DEF Short
  <2>1. CASE audit' = audit
    BY <2>1
  <2>2. ASSUME NEW r \in Replica, Commit(r) PROVE Len(audit') <= MaxRows
    BY <2>2 DEF Commit
  <2>3. QED
    BY <2>1, <2>2
       DEF Next, Serve, Begin, StartGenerating, KeepGenerating, Sign, SigningFails, CommitFails,
           Verify, Crash, Redeploy, vars
<1>3. QED BY <1>1, <1>2, Invariance, PTL DEF Spec

----------------------------------------------------------------------------
(* The variables stay within their types; a key that is being generated is *)
(* one nobody has.                                                         *)
THEOREM Typing == Spec => []TypeOK
<1>1. IInv /\ Short => TypeOK
  BY DEF IInv, Disk, Types, TypeOK, Short
<1>2. QED BY <1>1, Invariance, ShortTable, PTL

(* Whatever keys containers are given or keep, and whatever dies between   *)
(* the writing of the two key files: the key id quoted beside a signature  *)
(* names the key that made it, unless the container was given two          *)
(* different pairs to start with.                                          *)
THEOREM KeyIdsNameSigners == Spec => []KeyIdNamesSigner
<1>1. IInv => KeyIdNamesSigner
  BY DEF IInv, Rows, IdOK, KeyIdNamesSigner
<1>2. QED BY <1>1, Invariance, PTL

(* However often its process restarts, a container signs with one key.     *)
THEOREM RestartsKeepKeys == Spec => []RestartKeepsKey
<1>1. IInv => RestartKeepsKey
  BY DEF IInv, Rows
<1>2. QED BY <1>1, Invariance, PTL

(* As long as all containers are given one pair, in whatever way, no       *)
(* verification turns a row down.                                          *)
THEOREM SuppliedKeysSurvive == Spec => []EvidenceSurvives
<1>1. IInv => EvidenceSurvives
  BY DEF IInv, Rows, GivenTo, Survives, EvidenceSurvives
<1>2. QED BY <1>1, Invariance, PTL

(* Whatever fails or dies around the commit, an attestation in somebody's  *)
(* hands is in the table it is verified against.                           *)
THEOREM AttestationsAreOnRecord == Spec => []ExportsAreRecorded
<1>1. IInv => ExportsAreRecorded
  BY DEF IInv, Rows, Recorded, ExportsAreRecorded
<1>2. QED BY <1>1, Invariance, PTL

(* A container mints one key at most, however often it dies while it does. *)
THEOREM OneKeyPerContainer == Spec => []MintsOncePerContainer
<1>1. Minting => MintsOncePerContainer
  BY DEF Minting, MintedOf, MintsOncePerContainer
<1>2. QED BY <1>1, MintingInvariant, PTL
----------------------------------------------------------------------------
(* Progress.  How far a request is from its answer, in steps of its own:   *)
(* the generation of a key, its signature, its commit.                     *)
Serving(r) == request[r] # None

Left(r) ==
    IF ~Serving(r) THEN 0
    ELSE IF request[r].stage = "commit" THEN 1 ELSE GenerationSteps + 2 - request[r].step

(* The guard of one of its steps holds.                                    *)
Ready(r) ==
    \/ Committing(r) /\ Len(audit) <= MaxRows
    \/ /\ Resolving(r)
       /\ \/ request[r].step # 0
          \/ NoRecord(r)
          \/ Wanted(r) \in Key \cup {Malformed}
          \/ Wanted(r) = Absent /\ Unminted # {}

(* No request waits on anything: whatever files crashes left in a          *)
(* container, one that is being served can take a step, and has six before *)
(* it at most.  (That a key can be generated is the bound on Key.)         *)
NeverStuck ==
    \A r \in Replica :
       Serving(r) /\ Unminted # {} => Ready(r) /\ Left(r) \in 1..GenerationSteps + 2

(* Each step of a request brings it nearer to its answer, and nothing else *)
(* touches it but the death of its process.                                *)
AnswersComeNearer ==
    [][\A r \in Replica : Serving(r) =>
          IF Serve(r) THEN Left(r)' < Left(r)
          ELSE request'[r] = None \/ UNCHANGED request[r]]_vars

(* A request that is signed or judged is carried to its commit, or         *)
(* answered at once.                                                       *)
LEMMA SignedOrAnswered ==
    ASSUME NEW r \in Replica, Sign(r) \/ SigningFails(r) \/ Verify(r)
    PROVE  \/ Answer(r)
           \/ Resolving(r) /\ \E key, keyId : Carry(r, key, keyId)
<1>1. Carrying(r)
  BY Carried
<1>2. Resolving(r)
  BY DEF Sign, SigningFails, Verify
<1>3. QED BY <1>1, <1>2 DEF Carrying

(* NeverStuck: with AnswersApproach, all of RequestsEnd but that a request *)
(* which can take a step takes one.                                        *)
THEOREM RequestsProceed == Spec => []NeverStuck
<1>1. ASSUME IInv, Short, NEW r \in Replica, Serving(r), Unminted # {}
      PROVE  Ready(r) /\ Left(r) \in 1..GenerationSteps + 2
  <2>1. /\ request[r].step \in 0..GenerationSteps
        /\ request[r].stage \in {"resolve", "commit"}
    <3>1. request[r] \in Request
      BY <1>1 DEF IInv, Disk, Types, Serving
    <3> QED BY <3>1 DEF Request
  <2>2. Wanted(r) \in File
    <3>1. priv[r] \in File /\ pub[r] \in File /\ deployment[r] \in Deployment
      BY <1>1, KeysAssumption DEF IInv, Disk, Types, KeysTypeOK
    <3>2. Current(r) \in File /\ Named(r) \in File
      BY <3>1 DEF Deployment, Current, Named, Published
    <3>3. PrivateKey(r) = Current(r) /\ PublicKey(r) = Named(r)
      BY <1>1, ResolvedKeys DEF IInv, Disk, Files
    <3> QED BY <3>2, <3>3 DEF Wanted
  <2>3. Ready(r)
    <3>1. CASE request[r].stage = "commit"
      BY <1>1, <3>1 DEF Ready, Committing, Serving, Short
    <3>2. CASE request[r].stage = "resolve"
      BY <1>1, <2>2, <3>2 DEF Ready, Resolving, Serving, File
    <3> QED BY <2>1, <3>1, <3>2
  <2>4. Left(r) \in 1..GenerationSteps + 2
    BY <1>1, <2>1 DEF Left, GenerationSteps
  <2> QED BY <2>3, <2>4
<1>2. IInv /\ Short => NeverStuck
  BY <1>1 DEF NeverStuck
<1> QED BY <1>2, Invariance, ShortTable, PTL

(* AnswersComeNearer: no request generates, signs or commits for ever.     *)
THEOREM AnswersApproach == Spec => AnswersComeNearer
<1> DEFINE Nearer(r) == Serving(r) =>
              IF Serve(r) THEN Left(r)' < Left(r)
              ELSE request'[r] = None \/ UNCHANGED request[r]
<1>1. ASSUME IInv, NEW r \in Replica, Serving(r), Serve(r)
      PROVE  Left(r)' < Left(r)
  <2>1. /\ request \in [Replica -> Request \cup {None}] /\ request[r] \in Request
        /\ request[r].step \in 0..4 /\ request[r].stage \in {"resolve", "commit"}
        /\ GenerationSteps = 4
    <3>1. request \in [Replica -> Request \cup {None}] /\ request[r] \in Request
      BY <1>1 DEF IInv, Disk, Types, Serving
    <3> QED BY <3>1 DEF Request, GenerationSteps
  <2>2. Left(r) = IF request[r].stage = "commit" THEN 1 ELSE 6 - request[r].step
    BY <1>1, <2>1 DEF Left
  <2>3. ASSUME Answer(r) PROVE Left(r)' = 0
    BY <2>1, <2>3 DEF Answer, Left, Serving
  <2>4. ASSUME NEW key, NEW keyId, Carry(r, key, keyId), Resolving(r)
        PROVE  Left(r)' < Left(r)
    <3>1. request'[r].stage = "commit"
      BY <2>1, <2>4 DEF Carry, Request
    <3>2. Left(r)' \in {0, 1}
      BY <3>1 DEF Left
    <3> QED BY <2>1, <2>2, <2>4, <3>2 DEF Resolving
  <2>5. CASE StartGenerating(r)
    <3>1. /\ request[r].stage = "resolve" /\ request[r].step = 0
          /\ request'[r].stage = "resolve" /\ request'[r].step = 1
      BY <2>1, <2>5 DEF StartGenerating, Resolving, Request
    <3> QED BY <2>1, <2>2, <3>1 DEF Left
  <2>6. CASE KeepGenerating(r)
    <3>1. /\ request[r].stage = "resolve" /\ request'[r].stage = "resolve"
          /\ request'[r].step = request[r].step + 1
      BY <2>1, <2>6 DEF KeepGenerating, Resolving, Request
    <3> QED BY <2>1, <2>2, <3>1 DEF Left
  <2>7. CASE Answer(r)
    BY <2>1, <2>2, <2>3, <2>7
  <2>8. CASE Sign(r) \/ SigningFails(r) \/ Verify(r)
    <3>1. \/ Answer(r)
          \/ Resolving(r) /\ \E key, keyId : Carry(r, key, keyId)
      BY <2>8, SignedOrAnswered
    <3> QED BY <2>4, <2>7, <3>1
  <2>9. CASE Commit(r) \/ CommitFails(r)
    BY <2>7, <2>9 DEF Commit, CommitFails
  <2> QED BY <1>1, <2>5, <2>6, <2>8, <2>9 DEF Serve
<1>2. ASSUME IInv, Next, NEW r \in Replica, Serving(r), ~Serve(r)
      PROVE  request'[r] = None \/ UNCHANGED request[r]
  <2>1. PICK x \in Replica : Act(x)
    BY <1>2 DEF Next, Act
  <2>2. CASE x # r
    BY <1>2, <2>1, <2>2, StepTypes DEF IInv, Others
  <2>3. CASE x = r
    <3>1. Crash(r) \/ \E d \in Deployments, kept \in BOOLEAN : Redeploy(r, d, kept)
      BY <1>2, <2>1, <2>3 DEF Act, Begin, Serving
    <3>2. request' = [request EXCEPT ![r] = None]
      BY <3>1 DEF Crash, Redeploy, Answer
    <3> QED BY <1>2, <3>2 DEF IInv, Disk, Types
  <2> QED BY <2>2, <2>3
<1>3. IInv /\ [Next]_vars => [\A r \in Replica : Nearer(r)]_vars
  BY <1>1, <1>2
<1>4. AnswersComeNearer <=> [][\A r \in Replica : Nearer(r)]_vars
  BY PTL DEF AnswersComeNearer
<1> HIDE DEF Nearer
<1>5. Spec => [][Next]_vars
  BY PTL DEF Spec
<1> QED BY <1>3, <1>4, <1>5, Invariance, PTL
=============================================================================
