----------------------------- MODULE CacheAside ------------------------------
(***************************************************************************)
(* services/cache.service.ts and the services that read through it: the    *)
(* content blocks (cms.service.ts), the tournament lists and the game      *)
(* catalogue.  A reader takes what is cached, or computes the value from   *)
(* the database and caches it; a writer changes the database and has what  *)
(* it changed taken out of the cache.  Cache and database are two systems, *)
(* and every access to either is a step of its own.                        *)
(***************************************************************************)
EXTENDS Integers

CONSTANTS
  Procs,      \* requests in flight at one time
  Keys,       \* cached keys; they share one prefix
  Writers,    \* the writers at work: set, remove, list
  MaxVersion  \* bound on the writes

ASSUME CacheAsideAssumption ==
  Writers \subseteq {"set", "remove", "list"} /\ MaxVersion \in Nat

VARIABLES
  db,      \* what the database holds for each key; 0 is nothing
  writes,  \* the number of writes so far, the version a next one gives
  cache,   \* what the cache holds for each key
  req      \* the request in each slot

vars == <<db, writes, cache, req>>

\* An entry is late (a history mark) if the value was overtaken by a write
\* before it was cached, or if a writer failed to take it out.
Entry(v, late) == [value |-> v, late |-> late]
Miss == Entry(0, FALSE)
Idle == [pc |-> "idle", keys |-> {}, value |-> 0, late |-> FALSE]

Init ==
  /\ db = [k \in Keys |-> 0] /\ writes = 0
  /\ cache = [k \in Keys |-> Miss]
  /\ req = [p \in Procs |-> Idle]

At(p, pc) == req[p].pc = pc
Become(p, r) == req' = [req EXCEPT ![p] = r]

-----------------------------------------------------------------------------

\* remember: a hit is the answer.  A cached null reads as a miss.
get(p) ==
  /\ At(p, "idle")
  /\ \E k \in Keys :
       IF cache[k].value # 0 THEN UNCHANGED req
       ELSE Become(p, [Idle EXCEPT !.pc = "produce", !.keys = {k}])
  /\ UNCHANGED <<db, writes, cache>>

produce(p) ==
  /\ At(p, "produce")
  /\ \E k \in req[p].keys : Become(p, [req[p] EXCEPT !.pc = "set", !.value = db[k]])
  /\ UNCHANGED <<db, writes, cache>>

\* The catch of set: a cache that cannot be written is left as it is.
set(p) ==
  /\ At(p, "set")
  /\ \/ cache' = [k \in Keys |->
          IF k \in req[p].keys
          THEN IF req[p].value = 0 THEN Miss ELSE Entry(req[p].value, req[p].late)
          ELSE cache[k]]
     \/ UNCHANGED cache
  /\ Become(p, Idle)
  /\ UNCHANGED <<db, writes>>

-----------------------------------------------------------------------------

\* A write of the keys ks by p, which overtakes every reader that has its value.
Write(p, ks, v, pc) ==
  /\ writes < MaxVersion
  /\ writes' = writes + 1
  /\ db' = [k \in Keys |-> IF k \in ks THEN v ELSE db[k]]
  /\ req' = [q \in Procs |->
       IF q = p THEN [Idle EXCEPT !.pc = pc, !.keys = ks]
       ELSE IF At(q, "set") /\ req[q].keys \cap ks # {} THEN [req[q] EXCEPT !.late = TRUE]
       ELSE req[q]]
  /\ UNCHANGED cache

Drop(ks) == [k \in Keys |-> IF k \in ks THEN Miss ELSE cache[k]]
Stale(k) == cache[k].value \notin {0, db[k]}
Excuse(ks) ==
  [k \in Keys |-> IF k \in ks /\ Stale(k) THEN Entry(cache[k].value, TRUE) ELSE cache[k]]

\* Seeded fault: the write leaves the cached key alone.
Fault_setContent_NoBust(p) ==
  /\ "set" \in Writers /\ At(p, "idle")
  /\ \E k \in Keys : Write(p, {k}, writes + 1, "idle")

\* cms content.set writes the row, then busts the key.
setContent(p) ==
  /\ "set" \in Writers /\ At(p, "idle")
  /\ \E k \in Keys : Write(p, {k}, writes + 1, "del")

\* cms content.remove busts the key, then deletes the row.
removeContent(p) ==
  /\ "remove" \in Writers
  /\ \/ /\ At(p, "idle")
        /\ \E k \in Keys :
             /\ cache' = Drop({k})
             /\ Become(p, [Idle EXCEPT !.pc = "delete", !.keys = {k}])
        /\ UNCHANGED <<db, writes>>
     \/ At(p, "delete") /\ Write(p, req[p].keys, 0, "idle")

\* A tournament or a game changes, and with it every list under the prefix.
writeListed(p) ==
  /\ "list" \in Writers /\ At(p, "idle")
  /\ Write(p, Keys, writes + 1, "keys")

\* The catch of del: a cache that does not answer keeps what it holds.
del(p) ==
  /\ At(p, "del")
  /\ cache' \in {Drop(req[p].keys), Excuse(req[p].keys)}
  /\ Become(p, Idle)
  /\ UNCHANGED <<db, writes>>

\* invalidatePrefix asks for the keys there are, then deletes those.
invalidatePrefix(p) ==
  /\ At(p, "keys")
  /\ Become(p, [req[p] EXCEPT !.pc = "del", !.keys = {k \in Keys : cache[k].value # 0}])
  /\ UNCHANGED <<db, writes, cache>>

\* Seeded fault: entries are stored without a time to live.
Fault_Expire_NoTtl(k) == FALSE /\ UNCHANGED <<vars, k>>

Expire(k) ==
  /\ cache[k].value # 0
  /\ cache' = [cache EXCEPT ![k] = Miss]
  /\ UNCHANGED <<db, writes, req>>

\* A request dies; a writer that dies leaves what it should have taken out.
Abort(p) ==
  /\ ~At(p, "idle")
  /\ cache' = IF req[p].pc \in {"del", "keys"} THEN Excuse(req[p].keys) ELSE cache
  /\ Become(p, Idle)
  /\ UNCHANGED <<db, writes>>

Next ==
  \/ \E p \in Procs :
       \/ get(p) \/ produce(p) \/ set(p)
       \/ setContent(p) \/ removeContent(p) \/ writeListed(p)
       \/ del(p) \/ invalidatePrefix(p)
       \/ Abort(p)
  \/ \E k \in Keys : Expire(k)

Spec == Init /\ [][Next]_vars

\* Redis ends an entry when its time is over, and memGet ignores it then.
FairSpec == Spec /\ \A k \in Keys : WF_vars(Expire(k))

-----------------------------------------------------------------------------

TypeOK ==
  /\ db \in [Keys -> 0..MaxVersion] /\ writes \in 0..MaxVersion
  /\ cache \in [Keys -> [value : 0..MaxVersion, late : BOOLEAN]]
  /\ req \in [Procs -> [pc : {"idle", "produce", "set", "del", "keys", "delete"},
                        keys : SUBSET Keys, value : 0..MaxVersion, late : BOOLEAN]]

\* An entry is stale only while a writer has yet to take it out, or because a
\* write overtook the reader that cached it, or because taking it out failed:
\* no write whose deletion went through leaves the old value behind.  A removed
\* block (0) may have been cached again before its row went.
StaleIsLate ==
  \A k \in Keys :
    Stale(k) => \/ cache[k].late \/ db[k] = 0
                \/ \E p \in Procs : req[p].pc \in {"del", "keys"} /\ k \in req[p].keys

\* What a reader has in hand is the value of the database, or marked.
InHandIsFresh ==
  \A p \in Procs :
    /\ req[p].pc \in {"produce", "set"} => \E k \in Keys : req[p].keys = {k}
    /\ At(p, "set") /\ ~req[p].late => \A k \in req[p].keys : req[p].value = db[k]

IInv == TypeOK /\ StaleIsLate /\ InHandIsFresh

\* Best effort, but only for so long: a stale entry does not stay.
StaleEnds == \A k \in Keys : Stale(k) ~> ~Stale(k)

\* "bust cache on write": with no request at work, nothing cached is stale.
FreshAtRest == (\A p \in Procs : At(p, "idle")) => \A k \in Keys : ~Stale(k)

=============================================================================
