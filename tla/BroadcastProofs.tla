--------------------------- MODULE BroadcastProofs ---------------------------
(***************************************************************************)
(* However many sends of one broadcast overlap, fail or die, none of them  *)
(* writes to a customer twice, none that completes skipped anybody, and    *)
(* the recipient count is never too high.                                  *)
(*                                                                         *)
(* Two accounts are kept.  For each customer: the sends that may yet write *)
(* to it (Pending) and the messages it has are together at most the sends  *)
(* made.  For each send: what it tried, what it is trying and what remains *)
(* are its audience, and it has counted only customers with a message.     *)
(***************************************************************************)
EXTENDS Broadcast, FiniteSetTheorems, TLAPS

Short == [pc : {"idle", "find", "mark", "audience", "catch"}]

States == {"upsert", "create", "preview", "fulfilled", "rejected"}

Long ==
  [pc : {"deliver", "sent"}, audience : SUBSET Customers, remaining : SUBSET Customers,
   tried : SUBSET Customers, chunk : UNION {[C -> States] : C \in SUBSET Customers},
   delivered : Nat]

Served(S) == {u \in S : messages[u] > 0}

\* The account of one send.
Book(r) ==
  /\ r.audience = r.tried \union r.remaining \union DOMAIN r.chunk
  /\ r.tried \intersect r.remaining = {}
  /\ DOMAIN r.chunk \intersect (r.tried \union r.remaining) = {}
  /\ r.delivered <= Cardinality(Served(r.tried))
  /\ \A u \in DOMAIN r.chunk : r.chunk[u] \in {"preview", "fulfilled"} => messages[u] > 0
  /\ r.pc = "sent" => r.remaining = {} /\ DOMAIN r.chunk = {}

\* The send r may yet write to u.
Awaits(r, u) ==
  \/ r.pc = "audience"
  \/ /\ r.pc \in {"deliver", "sent"}
     /\ u \in r.remaining \/ (u \in DOMAIN r.chunk /\ r.chunk[u] \in {"upsert", "create"})

Pending(u) == {p \in Procs : Awaits(req[p], u)}

IInv ==
  /\ TypeOK /\ CountIsHonest
  /\ req \in [Procs -> Short \union Long]
  /\ \A p \in Procs : req[p] \in Long => Book(req[p])
  /\ \A u \in Customers : messages[u] + Cardinality(Pending(u)) <= sends

-----------------------------------------------------------------------------
(* Counting. *)

LEMMA PendingFinite ==
  \A u : IsFiniteSet(Pending(u)) /\ Cardinality(Pending(u)) \in Nat
<1> SUFFICES ASSUME NEW u PROVE IsFiniteSet(Pending(u)) /\ Cardinality(Pending(u)) \in Nat
  OBVIOUS
<1>1. Pending(u) \subseteq Procs
  BY DEF Pending
<1>2. QED
  BY <1>1, FS_Subset, FS_CardinalityType, BroadcastAssumption

LEMMA ServedFinite ==
  ASSUME NEW S \in SUBSET Customers
  PROVE  /\ IsFiniteSet(S) /\ Cardinality(S) \in Nat
         /\ IsFiniteSet(Served(S)) /\ Cardinality(Served(S)) \in Nat
         /\ Cardinality(Served(S)) <= Cardinality(S)
         /\ Cardinality(Served(S)) <= Cardinality(Served(Customers))
         /\ Cardinality(S) <= Cardinality(Customers)
<1>1. Served(S) \subseteq S /\ Served(S) \subseteq Served(Customers) /\ Served(Customers) \subseteq Customers
  BY DEF Served
<1>2. QED
  BY <1>1, FS_Subset, FS_CardinalityType, BroadcastAssumption

\* Messages are only ever added: whoever has been served stays so.
LEMMA ServedGrows ==
  ASSUME TypeOK, \A u \in Customers : messages'[u] \in Nat /\ messages'[u] >= messages[u],
         NEW S \in SUBSET Customers
  PROVE  Cardinality(Served(S)) <= Cardinality(Served(S)')
<1>1. Served(S) \subseteq Served(S)'
  BY DEF Served, TypeOK
<1>2. Served(S)' \subseteq Customers
  BY DEF Served
<1>3. IsFiniteSet(Served(S)')
  BY <1>2, FS_Subset, BroadcastAssumption
<1>4. QED
  BY <1>1, <1>3, FS_Subset

LEMMA BookStays ==
  ASSUME TypeOK, \A u \in Customers : messages'[u] \in Nat /\ messages'[u] >= messages[u],
         NEW r \in Long, Book(r)
  PROVE  Book(r)'
<1>1. r.tried \in SUBSET Customers /\ DOMAIN r.chunk \subseteq Customers /\ r.delivered \in Nat
  BY DEF Long
<1>2. Cardinality(Served(r.tried)) <= Cardinality(Served(r.tried)')
  BY <1>1, ServedGrows
<1>3. Cardinality(Served(r.tried)) \in Nat
  BY <1>1, ServedFinite
<1>4. Served(r.tried)' \subseteq Customers
  BY <1>1 DEF Served
<1>5. Cardinality(Served(r.tried)') \in Nat
  BY <1>4, FS_Subset, FS_CardinalityType, BroadcastAssumption
<1>6. r.delivered <= Cardinality(Served(r.tried)')
  BY <1>1, <1>2, <1>3, <1>5 DEF Book
<1>7. \A u \in DOMAIN r.chunk : r.chunk[u] \in {"preview", "fulfilled"} => messages'[u] > 0
  BY <1>1 DEF Book, TypeOK
<1>8. QED
  BY <1>6, <1>7 DEF Book

-----------------------------------------------------------------------------
(* The head of the chunk loop. *)

LEMMA HeadBook ==
  ASSUME NEW r \in Long, r.pc = "deliver", r.audience = r.tried \union r.remaining,
         r.tried \intersect r.remaining = {},
         r.delivered <= Cardinality(Served(r.tried)),
         NEW s \in LoopHead(r)
  PROVE  /\ s \in Long /\ Book(s)
         /\ \A u \in Customers : Awaits(s, u) => u \in r.remaining
<1>1. CASE r.remaining = {}
  <2>1. s = [r EXCEPT !.pc = "sent", !.chunk = <<>>]
    BY <1>1 DEF LoopHead
  <2>2. DOMAIN <<>> = {} /\ <<>> \in [{} -> States]
    OBVIOUS
  <2>3. <<>> \in UNION {[C -> States] : C \in SUBSET Customers}
    BY <2>2
  <2>4. /\ s \in Long /\ s.pc = "sent" /\ s.chunk = <<>>
        /\ s.audience = r.audience /\ s.remaining = r.remaining
        /\ s.tried = r.tried /\ s.delivered = r.delivered
    BY <2>1, <2>3 DEF Long
  <2>5. QED
    BY <1>1, <2>2, <2>4 DEF Book, Awaits
<1>2. CASE r.remaining # {}
  <2>1. PICK C \in Chunks(r.remaining) :
          s = [r EXCEPT !.remaining = @ \ C, !.chunk = [u \in C |-> "upsert"]]
    BY <1>2 DEF LoopHead
  <2>2. C \subseteq r.remaining /\ C \subseteq Customers
    BY <2>1 DEF Chunks, Long
  <2>3. [u \in C |-> "upsert"] \in [C -> States]
    BY DEF States
  <2>4. [u \in C |-> "upsert"] \in UNION {[D -> States] : D \in SUBSET Customers}
    BY <2>2, <2>3
  <2>5. /\ s \in Long /\ s.pc = r.pc /\ s.chunk = [u \in C |-> "upsert"]
        /\ s.audience = r.audience /\ s.remaining = r.remaining \ C
        /\ s.tried = r.tried /\ s.delivered = r.delivered
    BY <2>1, <2>4 DEF Long
  <2>6. DOMAIN s.chunk = C /\ \A u \in C : s.chunk[u] = "upsert"
    BY <2>5
  <2>8. s.pc = "deliver"
    BY <2>5
  <2>9. Book(s)
    BY <2>2, <2>5, <2>6, <2>8 DEF Book
  <2>10. \A u \in Customers : Awaits(s, u) => u \in r.remaining
    BY <2>2, <2>5, <2>6, <2>8 DEF Awaits
  <2>11. QED
    BY <2>5, <2>9, <2>10
<1>3. QED
  BY <1>1, <1>2

-----------------------------------------------------------------------------
(* A step of one send. *)

\* The send in slot p becomes s, which waits for no customer p did not wait
\* for; messages are as they were.
LEMMA Became ==
  ASSUME IInv, NEW p \in Procs, NEW s \in Short \union Long, Become(p, s),
         UNCHANGED messages, sends' = sends,
         s \in Long => Book(s),
         \A u \in Customers : Awaits(s, u) => Awaits(req[p], u)
  PROVE  /\ req' \in [Procs -> Short \union Long]
         /\ \A q \in Procs : req'[q] \in Long => Book(req[q])'
         /\ \A u \in Customers : messages'[u] + Cardinality(Pending(u)') <= sends'
         /\ \A q \in Procs : req'[q].pc \in {"idle", "find", "mark", "audience", "deliver", "sent", "catch"}
<1> USE DEF IInv
<1>1. req' = [req EXCEPT ![p] = s] /\ req' \in [Procs -> Short \union Long]
  BY DEF Become
<1>2. \A q \in Procs : req'[q] = IF q = p THEN s ELSE req[q]
  BY <1>1
<1>4. ASSUME NEW q \in Procs, req'[q] \in Long PROVE Book(req[q])'
  <2>1. Book(req'[q])
    BY <1>2, <1>4
  <2>2. Book(req'[q]) <=> Book(req[q])'
    BY DEF Book, Served
  <2>3. QED
    BY <2>1, <2>2
<1>5. ASSUME NEW u \in Customers PROVE messages'[u] + Cardinality(Pending(u)') <= sends'
  <2>1. Pending(u)' \subseteq Pending(u)
    <3>1. \A q \in Procs : Awaits(req'[q], u) => Awaits(req[q], u)
      BY <1>2
    <3>2. Pending(u)' = {q \in Procs : Awaits(req'[q], u)}
      BY DEF Pending, Awaits
    <3>3. QED
      BY <3>1, <3>2 DEF Pending
  <2>2. Cardinality(Pending(u)') <= Cardinality(Pending(u)) /\ Cardinality(Pending(u)') \in Nat
    BY <2>1, PendingFinite, FS_Subset, FS_CardinalityType
  <2>3. messages[u] \in Nat /\ sends \in Nat /\ Cardinality(Pending(u)) \in Nat
    BY PendingFinite, BroadcastAssumption DEF TypeOK
  <2>4. QED
    BY <2>2, <2>3
<1>6. \A q \in Procs : req'[q].pc \in {"idle", "find", "mark", "audience", "deliver", "sent", "catch"}
  BY <1>1 DEF Short, Long
<1>7. QED
  BY <1>1, <1>4, <1>5, <1>6

\* ... and the row is as it was.
LEMMA Advanced ==
  ASSUME IInv, NEW p \in Procs, NEW s \in Short \union Long, Advance(p, s),
         s \in Long => Book(s),
         \A u \in Customers : Awaits(s, u) => Awaits(req[p], u)
  PROVE  IInv'
<1>1. Become(p, s) /\ UNCHANGED <<status, recipientCount, messages, sends>>
  BY DEF Advance
<1>2. /\ req' \in [Procs -> Short \union Long]
      /\ \A q \in Procs : req'[q] \in Long => Book(req[q])'
      /\ \A u \in Customers : messages'[u] + Cardinality(Pending(u)') <= sends'
      /\ \A q \in Procs : req'[q].pc \in {"idle", "find", "mark", "audience", "deliver", "sent", "catch"}
  BY <1>1, Became
<1>3. TypeOK' /\ CountIsHonest'
  BY <1>1, <1>2 DEF IInv, TypeOK, CountIsHonest
<1>4. QED
  BY <1>2, <1>3 DEF IInv

LEMMA ShortStep ==
  ASSUME IInv, NEW p \in Procs, NEW s \in Short, s.pc # "audience", Advance(p, s)
  PROVE  IInv'
<1>1. s \notin Long /\ \A u \in Customers : ~Awaits(s, u)
  BY DEF Short, Long, Awaits
<1>2. QED
  BY <1>1, Advanced

-----------------------------------------------------------------------------

LEMMA InitInv == Init => IInv
<1> SUFFICES ASSUME Init PROVE IInv
  OBVIOUS
<1>1. \A p \in Procs : req[p] = [pc |-> "idle"]
  BY DEF Init, Idle
<1>2. req \in [Procs -> Short \union Long] /\ \A p \in Procs : req[p] \notin Long
  BY <1>1 DEF Init, Idle, Short, Long
<1>3. \A u \in Customers : Pending(u) = {}
  BY <1>1 DEF Pending, Awaits
<1>4. Cardinality({}) = 0
  BY FS_EmptySet
<1>5. TypeOK
  BY <1>1, BroadcastAssumption, FS_CardinalityType DEF Init, TypeOK
<1>6. CountIsHonest
  BY ServedFinite DEF Init, CountIsHonest, Served
<1>7. QED
  BY <1>2, <1>3, <1>4, <1>5, <1>6 DEF IInv, Init

LEMMA MarkSendingInv == ASSUME IInv, NEW p \in Procs, MarkSending(p) PROVE IInv'
<1> USE DEF IInv
<1>1. CASE Advance(p, Idle)
  BY <1>1, ShortStep DEF Idle, Short
<1>2. CASE ~Advance(p, Idle)
  <2>1. /\ req[p].pc = "mark" /\ sends < MaxSends /\ status' = "SENDING"
        /\ sends' = sends + 1 /\ Become(p, [pc |-> "audience"])
        /\ UNCHANGED <<recipientCount, messages>>
    BY <1>2 DEF MarkSending, At
  <2>2. req' = [req EXCEPT ![p] = [pc |-> "audience"]]
    BY <2>1 DEF Become
  <2>3. req' \in [Procs -> Short \union Long] /\ [pc |-> "audience"] \notin Long
    BY <2>2 DEF Short, Long
  <2>4. \A q \in Procs : req'[q] = IF q = p THEN [pc |-> "audience"] ELSE req[q]
    BY <2>2
  <2>5. ASSUME NEW q \in Procs, req'[q] \in Long PROVE Book(req[q])'
    <3>1. Book(req'[q])
      BY <2>3, <2>4, <2>5
    <3>2. Book(req'[q]) <=> Book(req[q])'
      BY <2>1 DEF Book, Served
    <3>3. QED
      BY <3>1, <3>2
  <2>6. ASSUME NEW u \in Customers PROVE messages'[u] + Cardinality(Pending(u)') <= sends'
    <3>1. Pending(u)' = {q \in Procs : Awaits(req'[q], u)}
      BY DEF Pending, Awaits
    <3>2. p \notin Pending(u) /\ Pending(u)' = Pending(u) \union {p}
      BY <2>1, <2>4, <3>1 DEF Pending, Awaits
    <3>3. Cardinality(Pending(u)') = Cardinality(Pending(u)) + 1
      BY <3>2, PendingFinite, FS_AddElement
    <3>4. messages[u] \in Nat /\ sends \in Nat /\ Cardinality(Pending(u)) \in Nat
      BY PendingFinite, BroadcastAssumption DEF TypeOK
    <3>5. QED
      BY <2>1, <3>3, <3>4
  <2>7. TypeOK' /\ CountIsHonest'
    <3>1. \A q \in Procs : req'[q].pc \in {"idle", "find", "mark", "audience", "deliver", "sent", "catch"}
      BY <2>3 DEF Short, Long
    <3>2. sends' \in 0..MaxSends
      BY <2>1, BroadcastAssumption DEF TypeOK
    <3>3. QED
      BY <2>1, <3>1, <3>2 DEF TypeOK, CountIsHonest
  <2>8. QED
    BY <2>3, <2>5, <2>6, <2>7
<1>3. QED
  BY <1>1, <1>2

LEMMA ResolveAudienceInv == ASSUME IInv, NEW p \in Procs, ResolveAudience(p) PROVE IInv'
<1>1. CASE Advance(p, [pc |-> "catch"])
  BY <1>1, ShortStep DEF Short
<1>2. CASE ~Advance(p, [pc |-> "catch"])
  <2> DEFINE r(A) == [pc |-> "deliver", audience |-> A, remaining |-> A,
                      tried |-> {}, chunk |-> <<>>, delivered |-> 0]
  <2>1. PICK A \in SUBSET Customers : \E s \in LoopHead(r(A)) : Advance(p, s)
    BY <1>2 DEF ResolveAudience
  <2>2. PICK s \in LoopHead(r(A)) : Advance(p, s)
    BY <2>1
  <2>3. <<>> \in UNION {[C -> States] : C \in SUBSET Customers}
    <3>1. <<>> \in [{} -> States]
      OBVIOUS
    <3>2. QED
      BY <3>1
  <2>4. r(A) \in Long
    BY <2>3 DEF Long
  <2>5. 0 <= Cardinality(Served({}))
    BY ServedFinite
  <2>6. /\ r(A).pc = "deliver" /\ r(A).audience = A /\ r(A).remaining = A /\ r(A).tried = {} /\ r(A).delivered = 0
    OBVIOUS
  <2> HIDE DEF r
  <2>7. s \in Long /\ Book(s)
    BY <2>2, <2>4, <2>5, <2>6, HeadBook
  <2>8. \A u \in Customers : Awaits(req[p], u)
    BY <1>2 DEF ResolveAudience, At, Awaits
  <2>9. QED
    BY <2>2, <2>7, <2>8, Advanced
<1>3. QED
  BY <1>1, <1>2

\* The record of a send after one statement for the recipient u.
LEMMA ChunkStep ==
  ASSUME NEW r \in Long, NEW u \in DOMAIN r.chunk, NEW x \in States, NEW s,
         s = [r EXCEPT !.chunk[u] = x]
  PROVE  /\ s \in Long /\ s.pc = r.pc /\ s.audience = r.audience /\ s.remaining = r.remaining
         /\ s.tried = r.tried /\ s.delivered = r.delivered
         /\ DOMAIN s.chunk = DOMAIN r.chunk
         /\ \A v \in DOMAIN r.chunk : s.chunk[v] = IF v = u THEN x ELSE r.chunk[v]
         /\ u \in Customers
<1>1. PICK C \in SUBSET Customers : r.chunk \in [C -> States]
  BY DEF Long
<1>2. [r.chunk EXCEPT ![u] = x] \in [C -> States]
  BY <1>1
<1>3. s = [r EXCEPT !.chunk = [r.chunk EXCEPT ![u] = x]]
  BY DEF Long
<1>4. [r.chunk EXCEPT ![u] = x] \in UNION {[D -> States] : D \in SUBSET Customers}
  BY <1>2
<1>5. s.chunk = [r.chunk EXCEPT ![u] = x]
  BY <1>3 DEF Long
<1>6. /\ s \in Long /\ s.pc = r.pc /\ s.audience = r.audience /\ s.remaining = r.remaining
      /\ s.tried = r.tried /\ s.delivered = r.delivered
  BY <1>3, <1>4 DEF Long
<1>7. QED
  BY <1>1, <1>5, <1>6

LEMMA DeliverInv == ASSUME IInv, NEW p \in Procs, NEW u \in Customers, Deliver(p, u) PROVE IInv'
<1> USE DEF IInv
<1>1. /\ req[p].pc = "deliver" /\ u \in DOMAIN req[p].chunk
      /\ UNCHANGED <<status, recipientCount, sends>>
  BY DEF Deliver, At
<1>2. PICK r : r = req[p] /\ r \in Long /\ Book(r) /\ r.pc = "deliver"
  BY <1>1 DEF Short
<1>3. CASE /\ messages' = messages
           /\ \E x \in {"create", "fulfilled", "rejected"} :
                /\ Become(p, [r EXCEPT !.chunk[u] = x])
                /\ x = "create" => r.chunk[u] = "upsert"
                /\ x = "fulfilled" => r.chunk[u] = "preview"
  <2>1. PICK x \in {"create", "fulfilled", "rejected"} :
          /\ Become(p, [r EXCEPT !.chunk[u] = x])
          /\ x = "create" => r.chunk[u] = "upsert"
          /\ x = "fulfilled" => r.chunk[u] = "preview"
    BY <1>3
  <2>2. PICK s : s = [r EXCEPT !.chunk[u] = x]
    OBVIOUS
  <2>3. /\ s \in Long /\ s.pc = r.pc /\ s.audience = r.audience /\ s.remaining = r.remaining
        /\ s.tried = r.tried /\ s.delivered = r.delivered
        /\ DOMAIN s.chunk = DOMAIN r.chunk
        /\ \A v \in DOMAIN r.chunk : s.chunk[v] = IF v = u THEN x ELSE r.chunk[v]
    BY <1>1, <1>2, <2>2, ChunkStep DEF States
  <2>4. Book(s)
    BY <1>1, <1>2, <2>1, <2>3 DEF Book
  <2>5. \A v \in Customers : Awaits(s, v) => Awaits(r, v)
    BY <1>1, <1>2, <2>1, <2>3 DEF Awaits
  <2>6. Advance(p, s)
    BY <1>1, <1>3, <2>1, <2>2 DEF Advance
  <2>7. QED
    BY <1>2, <2>3, <2>4, <2>5, <2>6, Advanced
<1>4. CASE /\ r.chunk[u] = "create" /\ Become(p, [r EXCEPT !.chunk[u] = "preview"])
           /\ messages' = [messages EXCEPT ![u] = @ + 1]
  <2>2. PICK s : s = [r EXCEPT !.chunk[u] = "preview"]
    OBVIOUS
  <2>3. /\ s \in Long /\ s.pc = r.pc /\ s.audience = r.audience /\ s.remaining = r.remaining
        /\ s.tried = r.tried /\ s.delivered = r.delivered
        /\ DOMAIN s.chunk = DOMAIN r.chunk
        /\ \A v \in DOMAIN r.chunk : s.chunk[v] = IF v = u THEN "preview" ELSE r.chunk[v]
    BY <1>1, <1>2, <2>2, ChunkStep DEF States
  <2>4. \A v \in Customers : /\ messages[v] \in Nat
                             /\ messages'[v] = IF v = u THEN messages[v] + 1 ELSE messages[v]
    BY <1>4 DEF TypeOK
  <2>5. \A v \in Customers : messages'[v] \in Nat /\ messages'[v] >= messages[v]
    BY <2>4
  <2>6. Book(r)'
    BY <1>2, <2>5, BookStays
  <2>7. Book(s)'
    <3>1. /\ s.audience = s.tried \union s.remaining \union DOMAIN s.chunk
          /\ s.tried \intersect s.remaining = {}
          /\ DOMAIN s.chunk \intersect (s.tried \union s.remaining) = {}
          /\ s.pc # "sent"
      BY <1>2, <2>3 DEF Book
    <3>2. s.delivered <= Cardinality(Served(s.tried)')
      BY <2>3, <2>6 DEF Book
    <3>3. \A v \in DOMAIN s.chunk : s.chunk[v] \in {"preview", "fulfilled"} => messages'[v] > 0
      BY <1>2, <2>3, <2>4, <2>6 DEF Book
    <3>4. QED
      BY <3>1, <3>2, <3>3 DEF Book
  <2>8. req' = [req EXCEPT ![p] = s] /\ req' \in [Procs -> Short \union Long]
    BY <1>4, <2>2, <2>3 DEF Become
  <2>9. ASSUME NEW q \in Procs, req'[q] \in Long PROVE Book(req[q])'
    <3>1. CASE q = p
      <4>1. Book(s)' <=> Book(req[q])'
        BY <2>8, <3>1 DEF Book, Served
      <4>2. QED
        BY <2>7, <4>1
    <3>2. CASE q # p
      <4>1. PICK t : t = req[q]
        OBVIOUS
      <4>2. t = req'[q] /\ t \in Long /\ Book(t)
        BY <2>8, <2>9, <3>2, <4>1
      <4>3. Book(t)'
        BY <2>5, <4>2, BookStays
      <4>4. QED
        BY <4>2, <4>3 DEF Book, Served
    <3>3. QED
      BY <3>1, <3>2
  <2>10. ASSUME NEW v \in Customers PROVE messages'[v] + Cardinality(Pending(v)') <= sends'
    <3>1. Pending(v)' = {q \in Procs : Awaits(req'[q], v)}
      BY DEF Pending, Awaits
    <3>2. \A q \in Procs : req'[q] = IF q = p THEN s ELSE req[q]
      BY <2>8
    <3>3. Awaits(s, v) => Awaits(r, v)
      BY <1>2, <2>3 DEF Awaits
    <3>4. messages[v] \in Nat /\ sends \in Nat /\ Cardinality(Pending(v)) \in Nat
      BY PendingFinite, BroadcastAssumption DEF TypeOK
    <3>5. CASE v = u
      <4>1. Awaits(r, v) /\ ~Awaits(s, v)
        BY <1>1, <1>2, <1>4, <2>3, <3>5 DEF Awaits, Book
      <4>2. p \in Pending(v) /\ Pending(v)' = Pending(v) \ {p}
        BY <1>2, <3>1, <3>2, <4>1 DEF Pending
      <4>3. Cardinality(Pending(v)') = Cardinality(Pending(v)) - 1
        BY <4>2, PendingFinite, FS_RemoveElement
      <4>4. QED
        BY <1>1, <2>4, <3>4, <3>5, <4>3
    <3>6. CASE v # u
      <4>1. Pending(v)' \subseteq Pending(v)
        BY <1>2, <3>1, <3>2, <3>3 DEF Pending
      <4>2. Cardinality(Pending(v)') <= Cardinality(Pending(v)) /\ Cardinality(Pending(v)') \in Nat
        BY <4>1, PendingFinite, FS_Subset, FS_CardinalityType
      <4>3. QED
        BY <1>1, <2>4, <3>4, <3>6, <4>2
    <3>7. QED
      BY <3>5, <3>6
  <2>11. TypeOK'
    <3>1. \A q \in Procs : req'[q].pc \in {"idle", "find", "mark", "audience", "deliver", "sent", "catch"}
      BY <2>8 DEF Short, Long
    <3>2. messages' \in [Customers -> Nat]
      BY <1>4 DEF TypeOK
    <3>3. QED
      BY <1>1, <3>1, <3>2 DEF TypeOK
  <2>12. CountIsHonest'
    <3>1. Cardinality(Served(Customers)) <= Cardinality(Served(Customers)')
      BY <2>5, ServedGrows
    <3>2. Cardinality(Served(Customers)) \in Nat /\ Cardinality(Served(Customers)') \in Nat
      <4>1. Served(Customers)' \subseteq Customers
        BY DEF Served
      <4>2. QED
        BY <4>1, ServedFinite, FS_Subset, FS_CardinalityType, BroadcastAssumption
    <3>3. recipientCount <= Cardinality(Served(Customers)) /\ recipientCount \in Int
      BY FS_CardinalityType, BroadcastAssumption DEF CountIsHonest, Served, TypeOK
    <3>4. recipientCount' <= Cardinality(Served(Customers)')
      BY <1>1, <3>1, <3>2, <3>3
    <3>5. QED
      BY <3>4 DEF CountIsHonest, Served
  <2>13. QED
    BY <2>8, <2>9, <2>10, <2>11, <2>12
<1>5. QED
  BY <1>2, <1>3, <1>4 DEF Deliver

LEMMA EndChunkInv == ASSUME IInv, NEW p \in Procs, EndChunk(p) PROVE IInv'
<1> USE DEF IInv
<1>1. PICK r : r = req[p] /\ r \in Long /\ Book(r) /\ r.pc = "deliver" /\ Settled(r)
  BY DEF EndChunk, At, Short
<1>2. PICK t : t = [r EXCEPT !.delivered = @ + Cardinality(Fulfilled(r)),
                             !.tried = @ \union DOMAIN r.chunk]
  OBVIOUS
<1>3. PICK s \in LoopHead(t) : Advance(p, s)
  BY <1>1, <1>2 DEF EndChunk
<1>4. DOMAIN r.chunk \subseteq Customers /\ Fulfilled(r) \subseteq DOMAIN r.chunk
  BY <1>1 DEF Long, Fulfilled
<1>5. IsFiniteSet(Fulfilled(r)) /\ Cardinality(Fulfilled(r)) \in Nat
  BY <1>4, ServedFinite
<1>6. /\ t \in Long /\ t.pc = r.pc /\ t.remaining = r.remaining /\ t.audience = r.audience
      /\ t.tried = r.tried \union DOMAIN r.chunk
      /\ t.delivered = r.delivered + Cardinality(Fulfilled(r))
  <2>1. PICK n \in Nat : n = r.delivered + Cardinality(Fulfilled(r))
    BY <1>1, <1>5 DEF Long
  <2>2. PICK T \in SUBSET Customers : T = r.tried \union DOMAIN r.chunk
    BY <1>1, <1>4 DEF Long
  <2>3. t = [r EXCEPT !.delivered = n, !.tried = T]
    BY <1>1, <1>2, <2>1, <2>2 DEF Long
  <2>4. QED
    BY <1>1, <2>1, <2>2, <2>3 DEF Long
<1>7. t.delivered <= Cardinality(Served(t.tried))
  <2>1. Served(r.tried) \union Fulfilled(r) \subseteq Served(t.tried)
    BY <1>1, <1>6 DEF Served, Fulfilled, Book
  <2>2. Served(r.tried) \intersect Fulfilled(r) = {}
    BY <1>1, <1>4 DEF Served, Book
  <2>3. /\ IsFiniteSet(Served(r.tried)) /\ Cardinality(Served(r.tried)) \in Nat
        /\ IsFiniteSet(Served(t.tried)) /\ Cardinality(Served(t.tried)) \in Nat
    BY <1>1, <1>6, ServedFinite DEF Long
  <2>4. Cardinality(Served(r.tried) \union Fulfilled(r))
          = Cardinality(Served(r.tried)) + Cardinality(Fulfilled(r))
    <3>1. Cardinality({}) = 0
      BY FS_EmptySet
    <3>2. Cardinality(Served(r.tried) \union Fulfilled(r))
            = Cardinality(Served(r.tried)) + Cardinality(Fulfilled(r))
              - Cardinality(Served(r.tried) \intersect Fulfilled(r))
      BY <1>5, <2>3, FS_Union
    <3>3. Cardinality(Served(r.tried) \intersect Fulfilled(r)) = 0
      BY <2>2, <3>1
    <3>4. QED
      BY <1>5, <2>3, <3>2, <3>3
  <2>5. Cardinality(Served(r.tried) \union Fulfilled(r)) <= Cardinality(Served(t.tried))
    BY <2>1, <2>3, FS_Subset
  <2>6. r.delivered <= Cardinality(Served(r.tried)) /\ r.delivered \in Nat
    BY <1>1 DEF Book, Long
  <2>7. QED
    BY <1>5, <1>6, <2>3, <2>4, <2>5, <2>6
<1>8. t.audience = t.tried \union t.remaining /\ t.tried \intersect t.remaining = {}
  BY <1>1, <1>6 DEF Book
<1>9. s \in Long /\ Book(s) /\ \A u \in Customers : Awaits(s, u) => u \in t.remaining
  BY <1>1, <1>3, <1>6, <1>7, <1>8, HeadBook
<1>10. \A u \in Customers : Awaits(s, u) => Awaits(req[p], u)
  BY <1>1, <1>6, <1>9 DEF Awaits
<1>11. QED
  BY <1>3, <1>9, <1>10, Advanced

\* The row alone is written, and the send is over.
LEMMA RowInv ==
  ASSUME IInv, NEW p \in Procs, Become(p, Idle), UNCHANGED <<messages, sends>>,
         status' \in {"SENT", "FAILED"},
         \/ recipientCount' = recipientCount
         \/ req[p].pc = "sent" /\ recipientCount' = req[p].delivered
  PROVE  IInv'
<1> USE DEF IInv
<1>1. Idle \in Short /\ Idle \notin Long /\ \A u \in Customers : ~Awaits(Idle, u)
  BY DEF Idle, Short, Long, Awaits
<1>2. /\ req' \in [Procs -> Short \union Long]
      /\ \A q \in Procs : req'[q] \in Long => Book(req[q])'
      /\ \A u \in Customers : messages'[u] + Cardinality(Pending(u)') <= sends'
      /\ \A q \in Procs : req'[q].pc \in {"idle", "find", "mark", "audience", "deliver", "sent", "catch"}
  BY <1>1, Became
<1>3. /\ recipientCount' \in 0..Cardinality(Customers)
      /\ recipientCount' <= Cardinality(Served(Customers))
  <2>1. CASE recipientCount' = recipientCount
    BY <2>1 DEF TypeOK, CountIsHonest, Served
  <2>2. CASE req[p].pc = "sent" /\ recipientCount' = req[p].delivered
    <3>1. PICK r : r = req[p] /\ r \in Long /\ Book(r)
      BY <2>2 DEF Short
    <3>2. r.tried \in SUBSET Customers /\ r.delivered \in Nat
          /\ r.delivered <= Cardinality(Served(r.tried))
      BY <3>1 DEF Long, Book
    <3>3. /\ Cardinality(Served(r.tried)) \in Nat /\ Cardinality(r.tried) \in Nat
          /\ Cardinality(Served(r.tried)) <= Cardinality(Served(Customers))
          /\ Cardinality(Served(r.tried)) <= Cardinality(r.tried)
          /\ Cardinality(r.tried) <= Cardinality(Customers)
      BY <3>2, ServedFinite
    <3>4. Cardinality(Customers) \in Nat /\ Cardinality(Served(Customers)) \in Nat
      BY ServedFinite
    <3>5. QED
      BY <2>2, <3>1, <3>2, <3>3, <3>4
  <2>3. QED
    BY <2>1, <2>2
<1>4. TypeOK' /\ CountIsHonest'
  BY <1>2, <1>3 DEF TypeOK, CountIsHonest, Served
<1>5. QED
  BY <1>2, <1>4

LEMMA StepInv == IInv /\ [Next]_vars => IInv'
<1> SUFFICES ASSUME IInv, [Next]_vars PROVE IInv'
  OBVIOUS
<1>1. ASSUME NEW p \in Procs, send(p) PROVE IInv'
  BY <1>1, ShortStep DEF send, Short
<1>2. ASSUME NEW p \in Procs, FindBroadcast(p) PROVE IInv'
  BY <1>2, ShortStep DEF FindBroadcast, Idle, Short
<1>3. ASSUME NEW p \in Procs, MarkSent(p) PROVE IInv'
  <2>1. CASE Advance(p, [pc |-> "catch"])
    BY <2>1, ShortStep DEF Short
  <2>2. CASE ~Advance(p, [pc |-> "catch"])
    BY <1>3, <2>2, RowInv DEF MarkSent, At
  <2>3. QED
    BY <2>1, <2>2
<1>4. ASSUME NEW p \in Procs, MarkFailed(p) PROVE IInv'
  <2>1. CASE Advance(p, Idle)
    BY <2>1, ShortStep DEF Idle, Short
  <2>2. CASE ~Advance(p, Idle)
    BY <1>4, <2>2, RowInv DEF MarkFailed
  <2>3. QED
    BY <2>1, <2>2
<1>5. CASE remove
  <2>1. status' = "DELETED" /\ UNCHANGED <<recipientCount, messages, sends, req>>
    BY <1>5 DEF remove
  <2>2. \A r : Book(r) <=> Book(r)'
    BY <2>1 DEF Book, Served
  <2>3. QED
    BY <2>1 DEF IInv, TypeOK, CountIsHonest, Book, Served, Pending, Awaits
<1>6. CASE Crash
  <2>1. /\ \A p \in Procs : req'[p] = [pc |-> "idle"]
        /\ req' = [p \in Procs |-> Idle]
        /\ UNCHANGED <<status, recipientCount, messages, sends>>
    BY <1>6 DEF Crash, Idle
  <2>2. req' \in [Procs -> Short \union Long] /\ \A p \in Procs : req'[p] \notin Long
    BY <2>1 DEF Idle, Short, Long
  <2>3. ASSUME NEW u \in Customers PROVE messages'[u] + Cardinality(Pending(u)') <= sends'
    <3>1. Pending(u)' = {}
      BY <2>1 DEF Pending, Awaits
    <3>2. Cardinality({}) = 0
      BY FS_EmptySet
    <3>3. messages[u] \in Nat /\ sends \in Nat /\ Cardinality(Pending(u)) \in Nat
      BY PendingFinite, BroadcastAssumption DEF IInv, TypeOK
    <3>4. QED
      BY <2>1, <3>1, <3>2, <3>3 DEF IInv
  <2>4. TypeOK' /\ CountIsHonest'
    BY <2>1 DEF IInv, TypeOK, CountIsHonest
  <2>5. QED
    BY <2>2, <2>3, <2>4 DEF IInv
<1>7. CASE UNCHANGED vars
  BY <1>7 DEF vars, IInv, TypeOK, CountIsHonest, Book, Served, Pending, Awaits
<1>8. QED
  BY <1>1, <1>2, <1>3, <1>4, <1>5, <1>6, <1>7, MarkSendingInv, ResolveAudienceInv, DeliverInv,
     EndChunkInv DEF Next, Step

\* In every reachable state, with any customers, sends and chunk size: the
\* accounts of the customers and of the sends hold.
THEOREM Invariance == Spec => []IInv
<1>1. QED
  BY InitInv, StepInv, PTL DEF Spec

\* No send writes to a customer twice, and one that completes has tried every
\* customer of its audience, whatever overlaps, fails or dies.
THEOREM EveryoneIsServedOnce == Spec => []EveryoneOnce
<1>1. IInv => EveryoneOnce
  <2> SUFFICES ASSUME IInv PROVE EveryoneOnce
    OBVIOUS
  <2>1. OncePerSend
    <3> SUFFICES ASSUME NEW u \in Customers PROVE messages[u] <= sends
      BY DEF OncePerSend
    <3>1. messages[u] \in Nat /\ sends \in Nat /\ Cardinality(Pending(u)) \in Nat
      BY PendingFinite, BroadcastAssumption DEF IInv, TypeOK
    <3>2. QED
      BY <3>1 DEF IInv
  <2>2. NobodySkipped
    <3> SUFFICES ASSUME NEW p \in Procs, req[p].pc = "sent" PROVE req[p].tried = req[p].audience
      BY DEF NobodySkipped, At
    <3>1. Book(req[p])
      BY DEF IInv, Short
    <3>2. QED
      BY <3>1 DEF Book
  <2>3. QED
    BY <2>1, <2>2 DEF EveryoneOnce
<1>2. QED
  BY <1>1, Invariance, PTL

\* recipientCount never claims more customers than have the message.
THEOREM CountNeverLies == Spec => []CountIsHonest
<1>1. IInv => CountIsHonest
  BY DEF IInv
<1>2. QED
  BY <1>1, Invariance, PTL

=============================================================================
