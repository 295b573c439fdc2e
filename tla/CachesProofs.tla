---------------------------- MODULE CachesProofs ----------------------------
(***************************************************************************)
(* Cached reads and their invalidation, for any keys and requests.         *)
(* Writers that change the database first and take the entry out of the    *)
(* cache afterwards leave nothing stale but what a reader they overtook    *)
(* puts back, or what the cache would not delete; removeContent, which     *)
(* goes the other way round, can leave only what it has removed.  Then the *)
(* same is done for the permissions MCCaches composes it with.             *)
(***************************************************************************)
EXTENDS MCCaches, TLAPS

Value == 0..MaxVersion
EntryT == [value : Value, late : BOOLEAN]
Request ==
  [pc : {"idle", "produce", "set", "del", "keys", "delete"},
   keys : SUBSET Keys, value : Value, late : BOOLEAN]

LEMMA InitInv == Init => IInv
<1> SUFFICES ASSUME Init PROVE IInv
  OBVIOUS
<1>1. 0 \in 0..MaxVersion /\ MaxVersion \in Nat
  BY CacheAsideAssumption
<1>2. TypeOK
  BY <1>1 DEF Init, TypeOK, Miss, Entry, Idle
<1>3. StaleIsLate
  BY DEF Init, StaleIsLate, Stale, Miss, Entry
<1>4. InHandIsFresh
  BY DEF Init, InHandIsFresh, Idle, At
<1>5. QED
  BY <1>2, <1>3, <1>4 DEF IInv

\* A request moves on, and neither the database nor the cache changes.
LEMMA RequestStep ==
  ASSUME IInv, NEW p \in Procs, NEW r \in Request, req' = [req EXCEPT ![p] = r],
         UNCHANGED <<db, writes, cache>>,
         r.pc \in {"produce", "set"} => \E k \in Keys : r.keys = {k},
         r.pc = "set" /\ ~r.late => \A k \in r.keys : r.value = db[k],
         req[p].pc \in {"del", "keys"} =>
           /\ r.pc \in {"del", "keys"}
           /\ \A k \in req[p].keys : k \in r.keys \/ ~Stale(k)
  PROVE  IInv'
<1>1. req \in [Procs -> Request] /\ req'[p] = r /\ \A q \in Procs \ {p} : req'[q] = req[q]
  BY DEF IInv, TypeOK, Request, Value
<1>2. TypeOK'
  BY <1>1 DEF IInv, TypeOK, Request, Value
<1>3. StaleIsLate'
  <2> SUFFICES ASSUME NEW k \in Keys, Stale(k), ~cache[k].late, db[k] # 0
               PROVE  \E q \in Procs : req'[q].pc \in {"del", "keys"} /\ k \in req'[q].keys
    BY DEF StaleIsLate, Stale
  <2>1. PICK q \in Procs : req[q].pc \in {"del", "keys"} /\ k \in req[q].keys
    BY DEF IInv, StaleIsLate
  <2>2. QED
    BY <1>1, <2>1
<1>4. InHandIsFresh'
  BY <1>1 DEF IInv, InHandIsFresh, At
<1>5. QED
  BY <1>2, <1>3, <1>4 DEF IInv

\* A write: a removal, or one whose entries are to be taken out after it.
LEMMA WriteStep ==
  ASSUME IInv, NEW p \in Procs, req[p].pc \in {"idle", "delete"}, NEW ks \in SUBSET Keys,
         NEW v \in Nat, v = 0 \/ v = writes + 1, NEW pc \in {"idle", "del", "keys"},
         v = 0 \/ pc # "idle", Write(p, ks, v, pc)
  PROVE  IInv'
<1>1. /\ req \in [Procs -> Request] /\ db \in [Keys -> Value] /\ writes \in Value /\ MaxVersion \in Nat
      /\ 0 \in Value
  BY CacheAsideAssumption DEF IInv, TypeOK, Request, Value
<1>2. v \in Value /\ writes + 1 \in Value /\ writes' = writes + 1 /\ cache' = cache
  BY <1>1 DEF Write, Value
<1>3. db' = [k \in Keys |-> IF k \in ks THEN v ELSE db[k]]
  BY DEF Write
<1>4. req'[p].pc = pc /\ req'[p].keys = ks /\ req'[p] \in Request
  BY <1>1 DEF Write, Idle, Request
<1>5. \A q \in Procs \ {p} : req'[q] \in Request /\ req'[q].pc = req[q].pc /\ req'[q].keys = req[q].keys
                             /\ req'[q].value = req[q].value
  BY <1>1 DEF Write, Request
<1>6. \A q \in Procs \ {p} : At(q, "set") =>
         IF req[q].keys \cap ks # {} THEN req'[q].late ELSE req'[q].late = req[q].late
  BY <1>1 DEF Write, Request, At
<1>7. TypeOK'
  <2>1. req' \in [Procs -> Request]
    <3>1. \A q \in Procs : req'[q] \in Request
      BY <1>4, <1>5
    <3>2. QED
      BY <3>1 DEF Write
  <2>2. QED
    BY <1>1, <1>2, <1>3, <2>1 DEF IInv, TypeOK, Request, Value
<1>8. StaleIsLate'
  <2> SUFFICES ASSUME NEW k \in Keys, Stale(k)', ~cache[k].late, db'[k] # 0
               PROVE  \E q \in Procs : req'[q].pc \in {"del", "keys"} /\ k \in req'[q].keys
    BY <1>2 DEF StaleIsLate
  <2>1. CASE k \in ks
    BY <1>3, <1>4, <2>1
  <2>2. CASE k \notin ks
    <3>1. Stale(k)
      BY <1>2, <1>3, <2>2 DEF Stale
    <3>2. PICK q \in Procs : req[q].pc \in {"del", "keys"} /\ k \in req[q].keys
      BY <1>3, <2>2, <3>1 DEF IInv, StaleIsLate
    <3>3. q # p
      BY <3>2
    <3>4. QED
      BY <1>5, <3>2, <3>3
  <2>3. QED
    BY <2>1, <2>2
<1>9. InHandIsFresh'
  <2> SUFFICES ASSUME NEW q \in Procs
               PROVE  /\ req'[q].pc \in {"produce", "set"} => \E k \in Keys : req'[q].keys = {k}
                      /\ req'[q].pc = "set" /\ ~req'[q].late => \A k \in req'[q].keys : req'[q].value = db'[k]
    BY DEF InHandIsFresh, At
  <2>1. CASE q = p
    BY <1>4, <2>1
  <2>2. CASE q # p
    <3>1. req'[q].pc \in {"produce", "set"} => \E k \in Keys : req'[q].keys = {k}
      BY <1>5, <2>2 DEF IInv, InHandIsFresh
    <3>2. ASSUME req'[q].pc = "set", ~req'[q].late, NEW k \in req'[q].keys PROVE req'[q].value = db'[k]
      <4>1. At(q, "set") /\ req[q].keys \cap ks = {} /\ ~req[q].late
        BY <1>5, <1>6, <2>2, <3>2 DEF At
      <4>2. k \in req[q].keys /\ k \notin ks /\ k \in Keys
        BY <1>1, <1>5, <2>2, <3>2, <4>1 DEF Request
      <4>3. req[q].value = db[k]
        BY <4>1, <4>2 DEF IInv, InHandIsFresh
      <4>4. QED
        BY <1>3, <1>5, <2>2, <4>2, <4>3
    <3>3. QED
      BY <3>1, <3>2
  <2>3. QED
    BY <2>1, <2>2
<1>10. QED
  BY <1>7, <1>8, <1>9 DEF IInv

\* An entry is stored or taken out, and the request is over.
LEMMA CacheStep ==
  ASSUME IInv, NEW p \in Procs, Become(p, Idle), UNCHANGED <<db, writes>>,
         cache' \in [Keys -> EntryT],
         \A k \in Keys : cache'[k].value \notin {0, db[k]} => cache'[k].late \/ cache'[k] = cache[k],
         req[p].pc \in {"del", "keys"} =>
           \A k \in req[p].keys : cache'[k].value \notin {0, db[k]} => cache'[k].late
  PROVE  IInv'
<1>1. req \in [Procs -> Request] /\ req'[p] = Idle /\ \A q \in Procs \ {p} : req'[q] = req[q]
  BY DEF IInv, TypeOK, Request, Value, Become
<1>2. Idle \in Request
  BY CacheAsideAssumption DEF Idle, Request, Value
<1>3. TypeOK'
  BY <1>1, <1>2 DEF IInv, TypeOK, Request, Value, EntryT, Become
<1>4. StaleIsLate'
  <2> SUFFICES ASSUME NEW k \in Keys, Stale(k)', ~cache'[k].late, db'[k] # 0
               PROVE  \E q \in Procs : req'[q].pc \in {"del", "keys"} /\ k \in req'[q].keys
    BY DEF StaleIsLate
  <2>1. cache'[k] = cache[k] /\ Stale(k)
    BY DEF Stale
  <2>2. PICK q \in Procs : req[q].pc \in {"del", "keys"} /\ k \in req[q].keys
    BY <2>1 DEF IInv, StaleIsLate
  <2>3. q # p
    BY <2>2 DEF Stale
  <2>4. QED
    BY <1>1, <2>2, <2>3
<1>5. InHandIsFresh'
  BY <1>1 DEF IInv, InHandIsFresh, Idle, At
<1>6. QED
  BY <1>3, <1>4, <1>5 DEF IInv

LEMMA StepInv ==
  ASSUME IInv, [Next]_vars
  PROVE  IInv'
<1>1. /\ req \in [Procs -> Request] /\ db \in [Keys -> Value] /\ cache \in [Keys -> EntryT] /\ 0 \in Value
  BY CacheAsideAssumption DEF IInv, TypeOK, Request, Value, EntryT
<1>2. Idle \in Request /\ Idle.pc = "idle" /\ Miss \in EntryT
  BY <1>1 DEF Idle, Request, Miss, Entry, EntryT
<1>3. /\ \A ks : Drop(ks) \in [Keys -> EntryT] /\ \A k \in Keys : Drop(ks)[k] = IF k \in ks THEN Miss ELSE cache[k]
      /\ \A ks : Excuse(ks) \in [Keys -> EntryT]
      /\ \A ks : \A k \in Keys : Excuse(ks)[k] = IF k \in ks /\ Stale(k) THEN Entry(cache[k].value, TRUE) ELSE cache[k]
  BY <1>1, <1>2 DEF Drop, Excuse, Entry, EntryT
\* What leaves the cache, or stays in it to be excused, is fresh or marked.
<1>0. ASSUME NEW p \in Procs, NEW ks, ks = req[p].keys, Become(p, Idle), UNCHANGED <<db, writes>>,
             cache' = Drop(ks) \/ cache' = Excuse(ks)
      PROVE  IInv'
  <2>1. cache' \in [Keys -> EntryT]
    BY <1>3, <1>0
  <2>2. ASSUME NEW k \in Keys, cache'[k].value \notin {0, db[k]}
        PROVE  /\ cache'[k].late \/ cache'[k] = cache[k]
               /\ k \in ks => cache'[k].late
    <3>1. CASE cache' = Drop(ks)
      <4>1. cache'[k] = IF k \in ks THEN Miss ELSE cache[k]
        BY <1>3, <3>1
      <4>2. QED
        BY <2>2, <4>1 DEF Miss, Entry
    <3>2. CASE cache' = Excuse(ks)
      <4>1. cache'[k] = IF k \in ks /\ Stale(k) THEN Entry(cache[k].value, TRUE) ELSE cache[k]
        BY <1>3, <3>2
      <4>2. QED
        BY <2>2, <4>1 DEF Entry, Stale
    <3>3. QED
      BY <1>0, <3>1, <3>2
  <2>3. \A k \in ks : k \in Keys
    BY <1>1, <1>0 DEF Request
  <2>4. QED
    BY <1>0, <2>1, <2>2, <2>3, CacheStep
<1>4. ASSUME NEW p \in Procs, get(p) PROVE IInv'
  <2>1. UNCHANGED <<db, writes, cache>> /\ req[p].pc = "idle"
    BY <1>4 DEF get, At
  <2>2. PICK r \in Request :
          /\ req' = [req EXCEPT ![p] = r] /\ r.pc # "set"
          /\ r.pc = "produce" => \E k \in Keys : r.keys = {k}
    <3>1. CASE UNCHANGED req
      BY <1>1, <2>1, <3>1
    <3>2. ASSUME NEW k \in Keys, Become(p, [Idle EXCEPT !.pc = "produce", !.keys = {k}])
          PROVE  \E r \in Request :
                   /\ req' = [req EXCEPT ![p] = r] /\ r.pc # "set"
                   /\ r.pc = "produce" => \E j \in Keys : r.keys = {j}
      <4>1. [Idle EXCEPT !.pc = "produce", !.keys = {k}] \in Request
        BY <1>1 DEF Idle, Request
      <4>2. /\ [Idle EXCEPT !.pc = "produce", !.keys = {k}].pc = "produce"
            /\ [Idle EXCEPT !.pc = "produce", !.keys = {k}].keys = {k}
        BY DEF Idle
      <4>3. QED
        BY <3>2, <4>1, <4>2 DEF Become
    <3>3. QED
      BY <1>4, <3>1, <3>2 DEF get
  <2>3. QED
    BY <2>1, <2>2, RequestStep
<1>5. ASSUME NEW p \in Procs, produce(p) PROVE IInv'
  <2>1. PICK k \in Keys : req[p].keys = {k} /\ req[p].pc = "produce"
    BY <1>5 DEF produce, At, IInv, InHandIsFresh
  <2>2. PICK r \in Request : r = [req[p] EXCEPT !.pc = "set", !.value = db[k]]
    <3>1. db[k] \in Value /\ req[p] \in Request
      BY <1>1
    <3>2. [req[p] EXCEPT !.pc = "set", !.value = db[k]] \in Request
      BY <3>1 DEF Request
    <3>3. QED
      BY <3>2
  <2>3. req' = [req EXCEPT ![p] = r] /\ UNCHANGED <<db, writes, cache>>
    BY <1>5, <2>1, <2>2 DEF produce, Become
  <2>4. r.keys = {k} /\ r.value = db[k]
    BY <1>1, <2>1, <2>2 DEF Request
  <2>5. QED
    BY <2>1, <2>3, <2>4, RequestStep
<1>6. ASSUME NEW p \in Procs, set(p) PROVE IInv'
  <2>1. /\ Become(p, Idle) /\ UNCHANGED <<db, writes>> /\ At(p, "set")
        /\ req[p].value \in Value /\ req[p].late \in BOOLEAN /\ req[p].pc = "set"
    BY <1>1, <1>6 DEF set, Request, At
  <2>2. CASE UNCHANGED cache
    BY <1>1, <2>1, <2>2, CacheStep
  <2>3. CASE cache' = [k \in Keys |->
               IF k \in req[p].keys
               THEN IF req[p].value = 0 THEN Miss ELSE Entry(req[p].value, req[p].late)
               ELSE cache[k]]
    <3>1. Entry(req[p].value, req[p].late) \in EntryT
      BY <2>1 DEF Entry, EntryT
    <3>2. cache' \in [Keys -> EntryT]
      BY <1>1, <1>2, <2>3, <3>1
    <3>3. ASSUME NEW k \in Keys, cache'[k].value \notin {0, db[k]} PROVE cache'[k].late \/ cache'[k] = cache[k]
      <4>1. CASE k \notin req[p].keys
        BY <2>3, <4>1
      <4>2. CASE k \in req[p].keys
        <5>1. req[p].late \/ req[p].value = db[k]
          BY <2>1, <4>2 DEF IInv, InHandIsFresh
        <5>2. QED
          BY <2>3, <3>3, <4>2, <5>1 DEF Miss, Entry
      <4>3. QED
        BY <4>1, <4>2
    <3>4. QED
      BY <2>1, <3>2, <3>3, CacheStep
  <2>4. QED
    BY <1>6, <2>2, <2>3 DEF set
<1>7. ASSUME NEW p \in Procs, setContent(p) PROVE IInv'
  <2>1. PICK k \in Keys : Write(p, {k}, writes + 1, "del")
    BY <1>7 DEF setContent
  <2>2. req[p].pc = "idle" /\ writes + 1 \in Nat
    BY <1>1, <1>7 DEF setContent, At, IInv, TypeOK
  <2>3. QED
    BY <2>1, <2>2, WriteStep
<1>8. ASSUME NEW p \in Procs, writeListed(p) PROVE IInv'
  <2>1. req[p].pc = "idle" /\ writes + 1 \in Nat
    BY <1>1, <1>8 DEF writeListed, At, IInv, TypeOK
  <2>2. QED
    BY <1>8, <2>1, WriteStep DEF writeListed
\* The entry is dropped before the row, which is deleted by a write of 0.
<1>15. ASSUME NEW p \in Procs, removeContent(p) PROVE IInv'
  <2>1. ASSUME NEW k \in Keys, req[p].pc = "idle", cache' = Drop({k}), UNCHANGED <<db, writes>>,
               Become(p, [Idle EXCEPT !.pc = "delete", !.keys = {k}])
        PROVE  IInv'
    <3> DEFINE r == [Idle EXCEPT !.pc = "delete", !.keys = {k}]
    <3>1. r \in Request /\ r.pc = "delete"
      BY <1>1 DEF Idle, Request
    <3>2. /\ req' = [req EXCEPT ![p] = r] /\ req'[p] = r
          /\ \A q \in Procs \ {p} : req'[q] = req[q]
      BY <1>1, <2>1 DEF Become
    <3>3. cache' \in [Keys -> EntryT] /\ \A j \in Keys : cache'[j] = Miss \/ cache'[j] = cache[j]
      BY <1>3, <2>1
    <3>4. \A j \in Keys : Stale(j)' => Stale(j) /\ cache'[j] = cache[j]
      BY <2>1, <3>3 DEF Stale, Miss, Entry
    <3>5. TypeOK'
      BY <1>1, <2>1, <3>1, <3>2, <3>3 DEF IInv, TypeOK, EntryT, Value, Request
    <3>6. StaleIsLate'
      <4> SUFFICES ASSUME NEW j \in Keys, Stale(j)', ~cache'[j].late, db'[j] # 0
                   PROVE  \E q \in Procs : req'[q].pc \in {"del", "keys"} /\ j \in req'[q].keys
        BY DEF StaleIsLate
      <4>1. PICK q \in Procs : req[q].pc \in {"del", "keys"} /\ j \in req[q].keys
        BY <2>1, <3>4 DEF IInv, StaleIsLate
      <4>2. QED
        BY <2>1, <3>2, <4>1
    <3>7. InHandIsFresh'
      BY <2>1, <3>1, <3>2 DEF IInv, InHandIsFresh, At
    <3>8. QED
      BY <3>5, <3>6, <3>7 DEF IInv
  <2>2. CASE At(p, "delete") /\ Write(p, req[p].keys, 0, "idle")
    <3>1. req[p].pc = "delete" /\ req[p].keys \in SUBSET Keys
      BY <1>1, <2>2 DEF At, Request
    <3>2. QED
      BY <2>2, <3>1, WriteStep
  <2>3. QED
    BY <1>15, <2>1, <2>2 DEF removeContent, At
<1>9. ASSUME NEW p \in Procs, del(p) PROVE IInv'
  <2>1. Become(p, Idle) /\ UNCHANGED <<db, writes>>
    BY <1>9 DEF del
  <2>2. QED
    BY <1>9, <1>0, <2>1 DEF del
<1>10. ASSUME NEW p \in Procs, invalidatePrefix(p) PROVE IInv'
  <2>1. PICK r \in Request : r = [req[p] EXCEPT !.pc = "del", !.keys = {k \in Keys : cache[k].value # 0}]
    <3>1. [req[p] EXCEPT !.pc = "del", !.keys = {k \in Keys : cache[k].value # 0}] \in Request
      BY <1>1 DEF Request
    <3>2. QED
      BY <3>1
  <2>2. r.pc = "del" /\ r.keys = {k \in Keys : cache[k].value # 0}
    BY <1>1, <2>1 DEF Request
  <2>3. \A k \in req[p].keys : k \in r.keys \/ ~Stale(k)
    BY <1>1, <2>2 DEF Stale, Request
  <2>4. QED
    BY <1>10, <2>1, <2>2, <2>3, RequestStep DEF invalidatePrefix, Become
<1>11. ASSUME NEW k \in Keys, Expire(k) PROVE IInv'
  <2>1. UNCHANGED <<db, writes, req>> /\ cache' = [cache EXCEPT ![k] = Miss]
    BY <1>11 DEF Expire
  <2>2. cache' \in [Keys -> EntryT] /\ \A j \in Keys : cache'[j] = Miss \/ cache'[j] = cache[j]
    BY <1>1, <1>2, <2>1
  <2>3. \A j \in Keys : Stale(j)' => Stale(j) /\ cache'[j] = cache[j]
    BY <2>1, <2>2 DEF Stale, Miss, Entry
  <2>4. TypeOK'
    BY <2>1, <2>2 DEF IInv, TypeOK, EntryT, Value
  <2>5. StaleIsLate'
    BY <2>1, <2>3 DEF IInv, StaleIsLate
  <2>6. InHandIsFresh'
    BY <2>1 DEF IInv, InHandIsFresh, At
  <2>7. QED
    BY <2>4, <2>5, <2>6 DEF IInv
<1>12. ASSUME NEW p \in Procs, Abort(p) PROVE IInv'
  <2>1. Become(p, Idle) /\ UNCHANGED <<db, writes>>
    BY <1>12 DEF Abort
  <2>3. CASE req[p].pc \in {"del", "keys"}
    BY <1>12, <1>0, <2>1, <2>3 DEF Abort
  <2>4. CASE req[p].pc \notin {"del", "keys"}
    <3>1. cache' = cache
      BY <1>12, <2>4 DEF Abort
    <3>2. QED
      BY <1>1, <2>1, <2>4, <3>1, CacheStep
  <2>5. QED
    BY <2>3, <2>4
<1>13. CASE UNCHANGED vars
  BY <1>13 DEF vars, IInv, TypeOK, StaleIsLate, Stale, InHandIsFresh, At
<1>14. QED
  BY <1>4, <1>5, <1>6, <1>7, <1>8, <1>9, <1>10, <1>11, <1>12, <1>13, <1>15 DEF Next

\* What a reader has in hand is fresh or known to be overtaken, and so is what
\* the cache holds once its writers are through.
THEOREM Invariance == Spec => []IInv
<1>1. IInv /\ [Next]_vars => IInv'
  BY StepInv
<1>2. QED
  BY <1>1, InitInv, PTL DEF Spec

\* A write whose deletion went through leaves the old value behind only to a
\* reader it overtook, and a removal only what it removed.
THEOREM WritesBustTheCache == Spec => []StaleIsLate
<1>1. IInv => StaleIsLate
  BY DEF IInv
<1>2. QED
  BY <1>1, Invariance, PTL

-----------------------------------------------------------------------------
(* Permissions: what is reserved stays with the super admins.              *)

Fields == {"pc", "user", "role", "by", "perms", "op", "arg", "raced"}
Points == {"idle", "sign", "overrides", "set", "find", "write", "del"}

\* What the invariant says of the tables, and of one request.
Tables ==
  /\ role \in [Users -> InUse]
  /\ override \in [Users -> [Perms -> P!Effects]]
  /\ served \in [Users -> [hit : BOOLEAN, perms : SUBSET Perms]]
  /\ jwt \in [Users -> SUBSET DOMAIN P!ROLE_RANK]
  /\ \A u \in Users : "SUPER_ADMIN" \in jwt[u] => role[u] = "SUPER_ADMIN"
  /\ \A u \in Users : role[u] # "SUPER_ADMIN" => served[u].perms \cap P!SUPER_ADMIN_ONLY = {}

Sound(r) ==
  /\ DOMAIN r = Fields /\ r.pc \in Points /\ (r.pc # "idle" => r.user \in Users)
  /\ r.role \in DOMAIN P!ROLE_RANK /\ r.by \in DOMAIN P!ROLE_RANK /\ r.perms \in SUBSET Perms
  /\ r.pc \in {"sign", "overrides"} /\ r.role = "SUPER_ADMIN" => role[r.user] = "SUPER_ADMIN"
  /\ r.pc \in {"set", "find"} /\ r.perms \cap P!SUPER_ADMIN_ONLY # {} => role[r.user] = "SUPER_ADMIN"
  /\ r.pc = "write" =>
       /\ role[r.user] # "SUPER_ADMIN"
       /\ r.op = "setRole" => r.arg \in InUse \ {"SUPER_ADMIN"}
       /\ r.op \in {"setPermission", "clearPermission"} => r.arg[1] \in Perms /\ r.arg[2] \in P!Effects
       /\ P!ROLE_RANK[role[r.user]] < P!ROLE_RANK[r.by] \/ r.raced

LEMMA IdleFields ==
  /\ DOMAIN P!Idle = Fields /\ P!Idle.pc = "idle" /\ P!Idle.role = "SUPER_ADMIN" /\ P!Idle.by = "SUPER_ADMIN"
  /\ P!Idle.perms = {} /\ P!Idle.raced = FALSE
BY DEF P!Idle, Fields

LEMMA IInvSplit == P!IInv <=> Tables /\ DOMAIN asking = Procs /\ \A p \in Procs : Sound(asking[p])
<1>1. P!TypeOK <=>
        /\ role \in [Users -> InUse] /\ override \in [Users -> [Perms -> P!Effects]]
        /\ served \in [Users -> [hit : BOOLEAN, perms : SUBSET Perms]]
        /\ jwt \in [Users -> SUBSET DOMAIN P!ROLE_RANK]
        /\ DOMAIN asking = Procs
        /\ \A p \in Procs :
             /\ DOMAIN asking[p] = Fields /\ asking[p].pc \in Points /\ (asking[p].pc # "idle" => asking[p].user \in Users)
             /\ asking[p].role \in DOMAIN P!ROLE_RANK /\ asking[p].by \in DOMAIN P!ROLE_RANK
             /\ asking[p].perms \in SUBSET Perms
  BY IdleFields DEF P!TypeOK, Points, P!At
<1>2. P!SupersAreSupers <=>
        /\ \A u \in Users : "SUPER_ADMIN" \in jwt[u] => role[u] = "SUPER_ADMIN"
        /\ \A p \in Procs :
             /\ asking[p].pc \in {"sign", "overrides"} /\ asking[p].role = "SUPER_ADMIN"
                  => role[asking[p].user] = "SUPER_ADMIN"
             /\ asking[p].pc = "set" /\ asking[p].perms \cap P!SUPER_ADMIN_ONLY # {}
                  => role[asking[p].user] = "SUPER_ADMIN"
  BY DEF P!SupersAreSupers, P!At
<1>3. P!LadderHolds <=>
        /\ \A u \in Users : role[u] # "SUPER_ADMIN" => served[u].perms \cap P!SUPER_ADMIN_ONLY = {}
        /\ \A p \in Procs : asking[p].pc = "find" /\ asking[p].perms \cap P!SUPER_ADMIN_ONLY # {}
                              => role[asking[p].user] = "SUPER_ADMIN"
        /\ \A p \in Procs : asking[p].pc = "write" =>
             P!ROLE_RANK[role[asking[p].user]] < P!ROLE_RANK[asking[p].by] \/ asking[p].raced
  BY DEF P!LadderHolds, P!ReservedOut, P!RankRespected, P!At
<1>4. P!WritesAreBelow <=>
        \A p \in Procs : asking[p].pc = "write" =>
          /\ role[asking[p].user] # "SUPER_ADMIN"
          /\ asking[p].op = "setRole" => asking[p].arg \in InUse \ {"SUPER_ADMIN"}
          /\ asking[p].op \in {"setPermission", "clearPermission"} =>
               asking[p].arg[1] \in Perms /\ asking[p].arg[2] \in P!Effects
  BY DEF P!WritesAreBelow, P!At
<1>5. ASSUME P!IInv PROVE Tables /\ DOMAIN asking = Procs /\ \A p \in Procs : Sound(asking[p])
  BY <1>1, <1>2, <1>3, <1>4, <1>5 DEF P!IInv, Tables, Sound
<1>6. ASSUME Tables, DOMAIN asking = Procs, \A p \in Procs : Sound(asking[p]) PROVE P!IInv
  BY <1>1, <1>2, <1>3, <1>4, <1>6 DEF P!IInv, Tables, Sound
<1>7. QED
  BY <1>5, <1>6

LEMMA IInvSplitNext ==
  (Tables /\ DOMAIN asking = Procs /\ \A p \in Procs : Sound(asking[p]))' => P!IInv'
BY IInvSplit, PTL

LEMMA RankFacts ==
  \A r \in DOMAIN P!ROLE_RANK : /\ P!ROLE_RANK[r] \in 0..4
                                /\ P!ROLE_RANK[r] = 4 <=> r = "SUPER_ADMIN"
BY DEF P!ROLE_RANK

LEMMA IdleSound == Sound(P!Idle)
<1>1. "SUPER_ADMIN" \in DOMAIN P!ROLE_RANK
  BY DEF P!ROLE_RANK
<1>2. QED
  BY <1>1, IdleFields DEF Sound, Points

LEMMA PermissionsInit ==
  ASSUME P!PermissionsAssumption, P!Init PROVE P!IInv
<1>1. Tables
  <2>1. \A u \in Users : served[u] = P!Miss /\ jwt[u] = {}
    BY DEF P!Init
  <2>2. served \in [Users -> [hit : BOOLEAN, perms : SUBSET Perms]]
    BY DEF P!Init, P!Miss
  <2>3. override \in [Users -> [Perms -> P!Effects]]
    BY DEF P!Init, P!Effects
  <2>4. QED
    BY <2>1, <2>2, <2>3 DEF P!Init, P!Miss, Tables, P!PermissionsAssumption
<1>2. QED
  BY <1>1, IdleSound, IInvSplit DEF P!Init

\* One request goes on; what it does to the cache and to tokens is sound.
LEMMA OneGoes ==
  ASSUME P!IInv, NEW p \in Procs, NEW r, Sound(r), asking' = [asking EXCEPT ![p] = r],
         UNCHANGED role, Tables'
  PROVE  P!IInv'
<1>1. /\ DOMAIN asking' = Procs /\ asking'[p] = r /\ \A q \in Procs \ {p} : asking'[q] = asking[q]
  BY IInvSplit
<1>2. \A q \in Procs : Sound(asking'[q])
  BY <1>1, IInvSplit
<1>3. \A q \in Procs : Sound(asking[q])'
  BY <1>2 DEF Sound
<1>4. DOMAIN asking' = Procs
  BY <1>1
<1>5. (DOMAIN asking = Procs)' /\ (\A q \in Procs : Sound(asking[q]))'
  BY <1>3, <1>4
<1>6. QED
  BY <1>5, IInvSplitNext

LEMMA TablesStay ==
  ASSUME Tables, UNCHANGED <<role, override, served, jwt>> PROVE Tables'
BY DEF Tables

\* A request read from the cache, or sent to the database for it.
LEMMA AskKeeps ==
  ASSUME P!PermissionsAssumption, P!IInv, NEW p \in Procs, NEW u \in Users, NEW r \in InUse,
         NEW then, r = "SUPER_ADMIN" => role[u] = "SUPER_ADMIN", P!Ask(p, u, r, then)
  PROVE  P!IInv'
<1>0. Tables /\ r \in DOMAIN P!ROLE_RANK
  BY IInvSplit DEF P!PermissionsAssumption
<1>1. Tables' /\ UNCHANGED role
  BY <1>0, TablesStay DEF P!Ask, P!Advance
<1>2. CASE ~served[u].hit
  <2> DEFINE x == [P!Idle EXCEPT !.pc = "overrides", !.user = u, !.role = r, !.by = r, !.op = then]
  <2>1. /\ DOMAIN x = Fields /\ x.pc = "overrides" /\ x.user = u /\ x.role = r /\ x.by = r
        /\ x.perms = {}
    BY IdleFields DEF Fields
  <2>2. asking' = [asking EXCEPT ![p] = x]
    BY <1>2 DEF P!Ask, P!Advance, P!Become
  <2> HIDE DEF x
  <2>3. Sound(x)
    BY <1>0, <2>1 DEF Sound, Points
  <2>4. QED
    BY <1>1, <2>2, <2>3, OneGoes
<1>3. CASE served[u].hit /\ then = "find"
  <2> DEFINE x == [P!Idle EXCEPT !.pc = "find", !.user = u, !.by = r, !.perms = served[u].perms]
  <2>1. /\ DOMAIN x = Fields /\ x.pc = "find" /\ x.user = u /\ x.role = "SUPER_ADMIN" /\ x.by = r
        /\ x.perms = served[u].perms
    BY IdleFields DEF Fields
  <2>2. asking' = [asking EXCEPT ![p] = x]
    BY <1>3 DEF P!Ask, P!Advance, P!Become
  <2> HIDE DEF x
  <2>3. /\ served[u].perms \in SUBSET Perms
        /\ served[u].perms \cap P!SUPER_ADMIN_ONLY # {} => role[u] = "SUPER_ADMIN"
    <3>1. served[u] \in [hit : BOOLEAN, perms : SUBSET Perms]
      BY <1>0 DEF Tables
    <3>2. QED
      BY <1>0, <3>1 DEF Tables
  <2>4. "SUPER_ADMIN" \in DOMAIN P!ROLE_RANK
    BY DEF P!ROLE_RANK
  <2>5. Sound(x)
    BY <1>0, <2>1, <2>3, <2>4 DEF Sound, Points
  <2>6. QED
    BY <1>1, <2>2, <2>5, OneGoes
<1>4. CASE served[u].hit /\ then # "find"
  <2>1. asking' = [asking EXCEPT ![p] = P!Idle]
    BY <1>4 DEF P!Ask, P!Advance, P!Become
  <2>2. QED
    BY <1>1, <2>1, IdleSound, OneGoes
<1>5. QED
  BY <1>2, <1>3, <1>4

LEMMA signInKeeps ==
  ASSUME P!PermissionsAssumption, P!IInv, NEW p \in Procs, NEW u \in Users, P!signIn(p, u) PROVE P!IInv'
<1> DEFINE x == [P!Idle EXCEPT !.pc = "sign", !.user = u, !.role = role[u]]
<1>1. /\ DOMAIN x = Fields /\ x.pc = "sign" /\ x.user = u /\ x.role = role[u]
      /\ x.by = "SUPER_ADMIN" /\ x.perms = {}
  BY IdleFields DEF Fields
<1>2. asking' = [asking EXCEPT ![p] = x] /\ UNCHANGED <<role, override, served, jwt>>
  BY DEF P!signIn, P!Advance, P!Become
<1> HIDE DEF x
<1>3. Tables /\ role[u] \in DOMAIN P!ROLE_RANK /\ "SUPER_ADMIN" \in DOMAIN P!ROLE_RANK
  <2>1. Tables
    BY IInvSplit
  <2>2. QED
    BY <2>1 DEF Tables, P!PermissionsAssumption, P!ROLE_RANK
<1>4. Sound(x)
  BY <1>1, <1>3 DEF Sound, Points
<1>5. QED
  BY <1>2, <1>3, <1>4, TablesStay, OneGoes

LEMMA requirePermissionKeeps ==
  ASSUME P!PermissionsAssumption, P!IInv, NEW p \in Procs, NEW u \in Users, NEW r \in InUse,
         P!requirePermission(p, u, r)
  PROVE  P!IInv'
<1>1. Tables
  BY IInvSplit
<1>2. r = "SUPER_ADMIN" => role[u] = "SUPER_ADMIN"
  BY <1>1 DEF Tables, P!requirePermission
<1>3. QED
  BY <1>2, AskKeeps DEF P!requirePermission

LEMMA signAccessTokenKeeps ==
  ASSUME P!PermissionsAssumption, P!IInv, NEW p \in Procs, P!signAccessToken(p) PROVE P!IInv'
<1>1. Tables /\ Sound(asking[p]) /\ asking[p].pc = "sign"
  BY IInvSplit DEF P!signAccessToken, P!At
<1>2. asking[p].user \in Users /\ (asking[p].role = "SUPER_ADMIN" => role[asking[p].user] = "SUPER_ADMIN")
  BY <1>1 DEF Sound
<1>3. PICK v \in Users : v = asking[p].user
  BY <1>2
<1>4. jwt' = [jwt EXCEPT ![v] = jwt[v] \cup {asking[p].role}]
  BY <1>3 DEF P!signAccessToken
<1>5. Tables'
  <2>1. role[v] = "SUPER_ADMIN" \/ asking[p].role # "SUPER_ADMIN"
    BY <1>2, <1>3
  <2>2. jwt' \in [Users -> SUBSET DOMAIN P!ROLE_RANK]
    BY <1>1, <1>4 DEF Tables, Sound
  <2>3. \A w \in Users : "SUPER_ADMIN" \in jwt'[w] => role[w] = "SUPER_ADMIN"
    BY <1>1, <1>4, <2>1 DEF Tables
  <2>4. UNCHANGED <<role, override, served>>
    BY DEF P!signAccessToken
  <2>5. QED
    BY <1>1, <2>2, <2>3, <2>4 DEF Tables
<1>6. asking' = [asking EXCEPT ![p] = P!Idle] /\ UNCHANGED role
  BY DEF P!signAccessToken, P!Become
<1>7. QED
  BY <1>5, <1>6, IdleSound, OneGoes

LEMMA TokenExpiresKeeps ==
  ASSUME P!IInv, NEW u \in Users, NEW r, P!TokenExpires(u, r) PROVE P!IInv'
<1>1. Tables /\ DOMAIN asking = Procs /\ \A p \in Procs : Sound(asking[p])
  BY IInvSplit
<1>2. jwt' = [jwt EXCEPT ![u] = jwt[u] \ {r}] /\ UNCHANGED <<role, override, served, asking>>
  BY DEF P!TokenExpires
<1>3. Tables'
  BY <1>1, <1>2 DEF Tables
<1>4. (\A p \in Procs : Sound(asking[p]))'
  BY <1>1, <1>2 DEF Sound
<1>5. QED
  BY <1>1, <1>2, <1>3, <1>4, IInvSplitNext

\* What is stored for somebody, or thrown away, is what they may be served.
LEMMA CacheWritten ==
  ASSUME Tables, NEW u \in Users, NEW e \in [hit : BOOLEAN, perms : SUBSET Perms],
         e.perms \cap P!SUPER_ADMIN_ONLY # {} => role[u] = "SUPER_ADMIN",
         served' \in {served, [served EXCEPT ![u] = e]}, UNCHANGED <<role, override, jwt>>
  PROVE  Tables'
<1>1. served' \in [Users -> [hit : BOOLEAN, perms : SUBSET Perms]]
  BY DEF Tables
<1>2. \A v \in Users : role[v] # "SUPER_ADMIN" => served'[v].perms \cap P!SUPER_ADMIN_ONLY = {}
  <2>1. CASE served' = served
    BY <2>1 DEF Tables
  <2>2. CASE served' = [served EXCEPT ![u] = e]
    <3>1. served'[u] = e /\ \A v \in Users \ {u} : served'[v] = served[v]
      BY <2>2 DEF Tables
    <3>2. QED
      BY <3>1 DEF Tables
  <2>3. QED
    BY <2>1, <2>2
<1>3. QED
  BY <1>1, <1>2 DEF Tables

LEMMA MissFields == P!Miss \in [hit : BOOLEAN, perms : SUBSET Perms] /\ P!Miss.perms = {}
BY DEF P!Miss

LEMMA CacheExpiresKeeps ==
  ASSUME P!IInv, NEW u \in Users, P!CacheExpires(u) PROVE P!IInv'
<1>1. Tables /\ DOMAIN asking = Procs /\ \A p \in Procs : Sound(asking[p])
  BY IInvSplit
<1>2. Tables' /\ UNCHANGED <<role, asking>>
  BY <1>1, MissFields, CacheWritten DEF P!CacheExpires
<1>3. (\A p \in Procs : Sound(asking[p]))'
  BY <1>1, <1>2 DEF Sound
<1>4. QED
  BY <1>1, <1>2, <1>3, IInvSplitNext

LEMMA FindOverridesKeeps ==
  ASSUME P!IInv, NEW p \in Procs, P!FindOverrides(p) PROVE P!IInv'
<1> DEFINE o == asking[p]
           x == [o EXCEPT !.pc = "set", !.perms = P!Effective(o.user, o.role)]
<1>1. Tables /\ Sound(o) /\ o.pc = "overrides"
  BY IInvSplit DEF P!FindOverrides, P!At
<1>2. asking' = [asking EXCEPT ![p] = x] /\ UNCHANGED <<role, override, served, jwt>>
  BY DEF P!FindOverrides, P!Advance, P!Become
<1>3. /\ DOMAIN x = Fields /\ x.pc = "set" /\ x.user = o.user /\ x.role = o.role /\ x.by = o.by
      /\ x.perms = P!Effective(o.user, o.role)
  BY <1>1 DEF Sound, Fields
<1>4. /\ P!Effective(o.user, o.role) \in SUBSET Perms
      /\ P!Effective(o.user, o.role) \cap P!SUPER_ADMIN_ONLY # {} => o.role = "SUPER_ADMIN"
  BY DEF P!Effective
<1> HIDE DEF x
<1>5. Sound(x)
  BY <1>1, <1>3, <1>4 DEF Sound, Points
<1>6. QED
  BY <1>1, <1>2, <1>5, TablesStay, OneGoes

LEMMA CacheSetKeeps ==
  ASSUME P!IInv, NEW p \in Procs, P!CacheSet(p) PROVE P!IInv'
<1> DEFINE o == asking[p]
           x == [P!Idle EXCEPT !.pc = "find", !.user = o.user, !.by = o.by, !.perms = o.perms]
<1>1. Tables /\ Sound(o) /\ o.pc = "set"
  BY IInvSplit DEF P!CacheSet, P!At
<1>2. /\ o.user \in Users /\ o.perms \in SUBSET Perms /\ o.by \in DOMAIN P!ROLE_RANK
      /\ o.perms \cap P!SUPER_ADMIN_ONLY # {} => role[o.user] = "SUPER_ADMIN"
  BY <1>1 DEF Sound
<1>3. /\ P!Entry(o.perms) \in [hit : BOOLEAN, perms : SUBSET Perms]
      /\ P!Entry(o.perms).perms = o.perms
  BY <1>2 DEF P!Entry
<1>4. Tables' /\ UNCHANGED role
  BY <1>1, <1>2, <1>3, CacheWritten DEF P!CacheSet
<1>5. /\ DOMAIN x = Fields /\ x.pc = "find" /\ x.user = o.user /\ x.role = "SUPER_ADMIN"
      /\ x.by = o.by /\ x.perms = o.perms
  BY IdleFields DEF Fields
<1>6. asking' = [asking EXCEPT ![p] = x] \/ asking' = [asking EXCEPT ![p] = P!Idle]
  BY DEF P!CacheSet, P!Become
<1> HIDE DEF x
<1>7. Sound(x)
  BY <1>2, <1>5, IdleSound, IdleFields DEF Sound, Points
<1>8. QED
  BY <1>4, <1>6, <1>7, IdleSound, OneGoes

LEMMA CacheDelKeeps ==
  ASSUME P!IInv, NEW p \in Procs, P!CacheDel(p) PROVE P!IInv'
<1>1. Tables /\ Sound(asking[p]) /\ asking[p].pc = "del"
  BY IInvSplit DEF P!CacheDel, P!At
<1>2. asking[p].user \in Users
  BY <1>1 DEF Sound
<1>3. Tables'
  BY <1>1, <1>2, MissFields, CacheWritten DEF P!CacheDel
<1>4. asking' = [asking EXCEPT ![p] = P!Idle] /\ UNCHANGED role
  BY DEF P!CacheDel, P!Become
<1>5. QED
  BY <1>3, <1>4, IdleSound, OneGoes

\* A request that ends where it stands.
LEMMA EndKeeps ==
  ASSUME P!IInv, NEW p \in Procs, P!Advance(p, P!Idle) PROVE P!IInv'
<1>1. Tables'
  BY IInvSplit, TablesStay DEF P!Advance
<1>2. QED
  BY <1>1, IdleSound, OneGoes DEF P!Advance, P!Become

\* What is about to be written to the row of somebody of a lower rank.
Writing(u, by, op, arg) ==
  [P!Idle EXCEPT !.pc = "write", !.user = u, !.by = by, !.op = op, !.arg = arg]

LEMMA WriteSound ==
  ASSUME P!IInv, NEW p \in Procs, NEW u \in Users, NEW op, NEW arg, NEW by \in DOMAIN P!ROLE_RANK,
         P!CanActOn(by, role[u]), role[u] \in DOMAIN P!ROLE_RANK,
         op = "setRole" => arg \in InUse \ {"SUPER_ADMIN"},
         op \in {"setPermission", "clearPermission"} => arg[1] \in Perms /\ arg[2] \in P!Effects,
         P!Advance(p, Writing(u, by, op, arg))
  PROVE  P!IInv'
<1> DEFINE x == Writing(u, by, op, arg)
<1>1. /\ DOMAIN x = Fields /\ x.pc = "write" /\ x.user = u /\ x.role = "SUPER_ADMIN"
      /\ x.by = by /\ x.perms = {} /\ x.op = op /\ x.arg = arg
  BY IdleFields DEF Fields, Writing
<1>2. asking' = [asking EXCEPT ![p] = x] /\ UNCHANGED <<role, override, served, jwt>>
  BY DEF P!Advance, P!Become
<1> HIDE DEF x
<1>3. role[u] # "SUPER_ADMIN" /\ P!ROLE_RANK[role[u]] < P!ROLE_RANK[by]
  BY RankFacts DEF P!CanActOn
<1>4. "SUPER_ADMIN" \in DOMAIN P!ROLE_RANK
  BY DEF P!ROLE_RANK
<1>5. Sound(x)
  BY <1>1, <1>3, <1>4 DEF Sound, Points
<1>6. QED
  BY <1>2, <1>5, IInvSplit, TablesStay, OneGoes

LEMMA FindTargetKeeps ==
  ASSUME P!PermissionsAssumption, P!IInv, NEW p \in Procs, P!FindTarget(p) PROVE P!IInv'
<1> DEFINE by == asking[p].by
<1>1. Tables /\ by \in DOMAIN P!ROLE_RANK
  <2>1. Tables /\ Sound(asking[p])
    BY IInvSplit
  <2>2. QED
    BY <2>1 DEF Sound
<1>2. PICK op \in DOMAIN P!Needs, u \in Users :
        \/ P!Advance(p, P!Idle)
        \/ P!Ask(p, u, role[u], "done")
        \/ /\ P!CanActOn(by, role[u])
           /\ \/ op = "setRole" /\ \E r \in InUse : P!Advance(p, IF P!ROLE_RANK[r] < P!ROLE_RANK[by] THEN Writing(u, by, op, r) ELSE P!Idle)
              \/ op = "setPermission" /\ \E x \in Overridable, granted \in {"granted", "denied"} : P!Advance(p, Writing(u, by, op, <<x, granted>>))
              \/ op = "clearPermission" /\ \E x \in Overridable : P!Advance(p, Writing(u, by, op, <<x, "none">>))
              \/ op = "setAccountStatus" /\ P!Advance(p, Writing(u, by, op, ""))
  BY DEF P!FindTarget, Writing
<1>3. role[u] \in InUse /\ role[u] \in DOMAIN P!ROLE_RANK
  BY <1>1 DEF Tables, P!PermissionsAssumption
<1>4. CASE P!Advance(p, P!Idle)
  BY <1>4, EndKeeps
<1>5. CASE P!Ask(p, u, role[u], "done")
  BY <1>3, <1>5, AskKeeps
<1>6. CASE /\ P!CanActOn(by, role[u]) /\ op = "setRole"
           /\ \E r \in InUse : P!Advance(p, IF P!ROLE_RANK[r] < P!ROLE_RANK[by] THEN Writing(u, by, op, r) ELSE P!Idle)
  <2>1. PICK r \in InUse : P!Advance(p, IF P!ROLE_RANK[r] < P!ROLE_RANK[by] THEN Writing(u, by, op, r) ELSE P!Idle)
    BY <1>6
  <2>2. CASE P!ROLE_RANK[r] < P!ROLE_RANK[by]
    <3>1. r # "SUPER_ADMIN"
      BY <1>1, <2>2, RankFacts DEF P!PermissionsAssumption
    <3>2. P!Advance(p, Writing(u, by, op, r))
      BY <2>1, <2>2
    <3>3. QED
      BY <1>1, <1>3, <1>6, <3>1, <3>2, WriteSound
  <2>3. CASE ~(P!ROLE_RANK[r] < P!ROLE_RANK[by])
    BY <2>1, <2>3, EndKeeps
  <2>4. QED
    BY <2>2, <2>3
<1>7. CASE /\ P!CanActOn(by, role[u]) /\ op = "setPermission"
           /\ \E x \in Overridable, granted \in {"granted", "denied"} : P!Advance(p, Writing(u, by, op, <<x, granted>>))
  <2>1. PICK x \in Overridable, granted \in {"granted", "denied"} : P!Advance(p, Writing(u, by, op, <<x, granted>>))
    BY <1>7
  <2>2. <<x, granted>>[1] \in Perms /\ <<x, granted>>[2] \in P!Effects
    BY DEF P!PermissionsAssumption, P!Effects
  <2>3. QED
    BY <1>1, <1>3, <1>7, <2>1, <2>2, WriteSound
<1>8. CASE /\ P!CanActOn(by, role[u]) /\ op = "clearPermission"
           /\ \E x \in Overridable : P!Advance(p, Writing(u, by, op, <<x, "none">>))
  <2>1. PICK x \in Overridable : P!Advance(p, Writing(u, by, op, <<x, "none">>))
    BY <1>8
  <2>2. <<x, "none">>[1] \in Perms /\ <<x, "none">>[2] \in P!Effects
    BY DEF P!PermissionsAssumption, P!Effects
  <2>3. QED
    BY <1>1, <1>3, <1>8, <2>1, <2>2, WriteSound
<1>9. CASE P!CanActOn(by, role[u]) /\ op = "setAccountStatus" /\ P!Advance(p, Writing(u, by, op, ""))
  BY <1>1, <1>3, <1>9, WriteSound
<1>10. QED
  BY <1>2, <1>4, <1>5, <1>6, <1>7, <1>8, <1>9

\* Whoever else was about to write has read an old role.
LEMMA WriteRoleKeeps ==
  ASSUME P!PermissionsAssumption, P!IInv, NEW p \in Procs, P!WriteRole(p) PROVE P!IInv'
<1> DEFINE o == asking[p]
           b == P!Bust(p)
<1>1. Tables /\ DOMAIN asking = Procs /\ \A q \in Procs : Sound(asking[q])
  BY IInvSplit
<1>2. /\ o.user \in Users /\ o.arg \in InUse \ {"SUPER_ADMIN"} /\ role[o.user] # "SUPER_ADMIN"
  <2>1. Sound(o) /\ o.pc = "write" /\ o.op = "setRole"
    BY <1>1 DEF P!WriteRole, P!At
  <2>2. QED
    BY <2>1 DEF Sound
<1>3. /\ role' \in [Users -> InUse] /\ role'[o.user] = o.arg
      /\ \A v \in Users : role'[v] = "SUPER_ADMIN" <=> role[v] = "SUPER_ADMIN"
      /\ \A v \in Users \ {o.user} : role'[v] = role[v]
  BY <1>1, <1>2 DEF Tables, P!WriteRole
<1>4. Tables'
  <2>1. UNCHANGED <<override, served, jwt>>
    BY DEF P!WriteRole
  <2>2. QED
    BY <1>1, <1>3, <2>1 DEF Tables
<1>5. /\ DOMAIN b = Fields /\ b.pc = "del" /\ b.user = o.user /\ b.role = "SUPER_ADMIN"
      /\ b.by = "SUPER_ADMIN" /\ b.perms = {}
  BY IdleFields DEF P!Bust, Fields
<1>6. "SUPER_ADMIN" \in DOMAIN P!ROLE_RANK
  BY DEF P!ROLE_RANK
<1>7. /\ DOMAIN asking' = Procs /\ asking'[p] = b
      /\ \A q \in Procs \ {p} :
           asking'[q] = IF P!At(q, "write") /\ asking[q].user = o.user
                     THEN [asking[q] EXCEPT !.raced = TRUE] ELSE asking[q]
  BY DEF P!WriteRole, P!Overtake
<1> HIDE DEF b
<1>8. Sound(asking[p])'
  BY <1>2, <1>5, <1>6, <1>7 DEF Sound, Points
<1>9. ASSUME NEW q \in Procs \ {p} PROVE Sound(asking[q])'
  <2> DEFINE r == asking[q]
  <2>1. Sound(r)
    BY <1>1
  <2>2. CASE r.pc = "write" /\ r.user = o.user
    <3>1. asking'[q] = [r EXCEPT !.raced = TRUE]
      BY <1>7, <2>2 DEF P!At
    <3>2. DOMAIN r = Fields
      BY <2>1 DEF Sound
    <3>3. /\ DOMAIN asking'[q] = Fields /\ asking'[q].pc = r.pc /\ asking'[q].user = r.user
          /\ asking'[q].role = r.role /\ asking'[q].by = r.by /\ asking'[q].perms = r.perms
          /\ asking'[q].op = r.op /\ asking'[q].arg = r.arg /\ asking'[q].raced = TRUE
      BY <3>1, <3>2 DEF Fields
    <3>4. role'[r.user] # "SUPER_ADMIN"
      BY <1>2, <1>3, <2>2
    <3>5. QED
      BY <2>1, <2>2, <3>3, <3>4 DEF Sound
  <2>3. CASE ~(r.pc = "write" /\ r.user = o.user)
    <3>1. asking'[q] = r
      BY <1>7, <2>3 DEF P!At
    <3>2. r.pc # "idle" => r.user \in Users
      BY <2>1 DEF Sound
    <3>3. r.pc # "idle" => (role'[r.user] = "SUPER_ADMIN" <=> role[r.user] = "SUPER_ADMIN")
      BY <1>3, <3>2
    <3>4. r.pc = "write" => role'[r.user] = role[r.user]
      BY <1>3, <2>3, <3>2
    <3>5. QED
      BY <2>1, <3>1, <3>3, <3>4 DEF Sound
  <2>4. QED
    BY <2>2, <2>3
<1>10. (\A q \in Procs : Sound(asking[q]))'
  BY <1>8, <1>9
<1>11. QED
  BY <1>4, <1>7, <1>10, IInvSplitNext

LEMMA WriteOverrideKeeps ==
  ASSUME P!IInv, NEW p \in Procs, P!WriteOverride(p) PROVE P!IInv'
<1> DEFINE o == asking[p]
           b == P!Bust(p)
<1>1. Tables /\ Sound(o) /\ o.pc = "write" /\ o.op \in {"setPermission", "clearPermission"}
  BY IInvSplit DEF P!WriteOverride, P!At
<1>2. o.user \in Users /\ o.arg[1] \in Perms /\ o.arg[2] \in P!Effects
  BY <1>1 DEF Sound
<1>3. Tables'
  <2>1. override' = [override EXCEPT ![o.user][o.arg[1]] = o.arg[2]] /\ UNCHANGED <<role, served, jwt>>
    BY DEF P!WriteOverride
  <2>2. override' \in [Users -> [Perms -> P!Effects]]
    BY <1>1, <1>2, <2>1 DEF Tables
  <2>3. QED
    BY <1>1, <2>1, <2>2 DEF Tables
<1>4. /\ DOMAIN b = Fields /\ b.pc = "del" /\ b.user = o.user /\ b.role = "SUPER_ADMIN"
      /\ b.by = "SUPER_ADMIN" /\ b.perms = {}
  BY IdleFields DEF P!Bust, Fields
<1>5. asking' = [asking EXCEPT ![p] = b] /\ UNCHANGED role
  BY DEF P!WriteOverride, P!Become
<1>6. "SUPER_ADMIN" \in DOMAIN P!ROLE_RANK
  BY DEF P!ROLE_RANK
<1> HIDE DEF b
<1>7. Sound(b)
  BY <1>2, <1>4, <1>6 DEF Sound, Points
<1>8. QED
  BY <1>3, <1>5, <1>7, OneGoes

LEMMA PermissionsStep ==
  ASSUME P!PermissionsAssumption, P!IInv, [P!Next]_P!vars PROVE P!IInv'
<1>1. CASE UNCHANGED P!vars
  <2>1. UNCHANGED <<role, override, served, jwt, asking>>
    BY <1>1 DEF P!vars
  <2>2. (Tables /\ DOMAIN asking = Procs /\ \A p \in Procs : Sound(asking[p]))'
    BY <2>1, IInvSplit DEF Tables, Sound
  <2>3. QED
    BY <2>2, IInvSplitNext
<1>2. ASSUME NEW p \in Procs, NEW u \in Users, P!signIn(p, u) PROVE P!IInv'
  BY <1>2, signInKeeps
<1>3. ASSUME NEW p \in Procs, NEW u \in Users, NEW r \in InUse, P!requirePermission(p, u, r) PROVE P!IInv'
  BY <1>3, requirePermissionKeeps
<1>4. ASSUME NEW p \in Procs, P!Step(p) PROVE P!IInv'
  BY <1>4, signAccessTokenKeeps, FindOverridesKeeps, CacheSetKeeps, FindTargetKeeps,
     WriteRoleKeeps, WriteOverrideKeeps, CacheDelKeeps, EndKeeps DEF P!Step, P!WriteStatus, P!Abort
<1>5. ASSUME NEW u \in Users, P!CacheExpires(u) PROVE P!IInv'
  BY <1>5, CacheExpiresKeeps
<1>6. ASSUME NEW u \in Users, NEW r \in InUse, P!TokenExpires(u, r) PROVE P!IInv'
  BY <1>6, TokenExpiresKeeps
<1>7. QED
  BY <1>1, <1>2, <1>3, <1>4, <1>5, <1>6 DEF P!Next

\* Nobody but a super admin is served what is reserved, and nobody acts on
\* an account of their own rank or a higher one they have not been overtaken by.
LEMMA LadderSound == ASSUME P!PermissionsAssumption PROVE P!Spec => []P!LadderHolds
<1>1. P!Spec => []P!IInv
  <2>1. P!Init => P!IInv
    BY PermissionsInit
  <2>2. P!IInv /\ [P!Next]_P!vars => P!IInv'
    BY PermissionsStep
  <2>3. QED
    BY <2>1, <2>2, PTL DEF P!Spec
<1>2. P!IInv => P!LadderHolds
  BY DEF P!IInv
<1>3. QED
  BY <1>1, <1>2, PTL

-----------------------------------------------------------------------------
(* The composition does what each part does on its own.                      *)

LEMMA PartsOfCaches == EitherSpec => P!Spec
<1>1. EitherInit => P!Init
  BY DEF EitherInit
<1>2. [EitherNext]_<<prefix, vars, perms>> => [P!Next]_(P!vars)
  BY DEF EitherNext, perms, P!vars
<1>3. QED
  BY <1>1, <1>2, PTL DEF EitherSpec, P!Spec

\* For any roles, grants and changes: nobody but a super admin is served what is
\* reserved, and nobody acts on an account of their own rank or a higher one that
\* was not promoted since they looked.
THEOREM LadderIsKept == EitherSpec => []LadderHolds
<1>1. P!LadderHolds => LadderHolds
  BY DEF LadderHolds
<1>2. QED
  BY <1>1, PartsOfCaches, LadderSound, CachesAssumption, PTL

=============================================================================
