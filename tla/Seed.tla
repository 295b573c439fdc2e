-------------------------------- MODULE Seed ---------------------------------
(***************************************************************************)
(* prisma/seed.ts: the script that fills the database, "safe to run        *)
(* repeatedly [...] on every deploy".  A run goes through its sections in  *)
(* order, a statement at a time, may die anywhere and is simply run again; *)
(* two deploys may overlap; and admins change the same tables meanwhile.   *)
(* One row stands for the rows of a section: each has a key of its own.    *)
(***************************************************************************)
EXTENDS Integers, Sequences, FiniteSets

CONSTANTS
  Runners,  \* runs there may be at one time
  Emails,   \* values of SEED_ADMIN_EMAIL the deploys may have
  NoEmail,  \* no admin yet
  MaxEdits  \* bound on what admins change

\* Sections that follow one another and work alike are one: "catalogue" is the
\* categories, badges, achievements and games, "store" the daily ladder and the
\* store, "links" the quick links and the announcement, and "pages" the legal
\* pages, their SEO and the hero.  Of the three tournaments each is its own.
Script == <<"admin", "catalogue", "retire", "wheel", "store", "cup", "masters", "speedRun",
            "faqs", "links", "pages", "tags", "signIns">>

Upserted == {"catalogue", "store", "tags"}

\* Looked for by a key the database holds unique, and by one it does not.
Keyed == {"cup", "masters", "speedRun", "pages"}
Unkeyed == {"wheel", "faqs", "links", "signIns"}

Sections == Upserted \cup Keyed \cup Unkeyed

\* The Blackjack Masters are IN_PROGRESS, which no TournamentStatus is.
Refused == {"masters"}

\* What admins may delete, or rename; and what they may write under the same
\* unique key themselves.
Removable == Sections \ {"signIns"}
Writable == Upserted \cup Keyed

VARIABLES
  rows,   \* how many rows each section's key has
  admin,  \* the address of the account named nexplay_admin
  other,  \* a game that is not in the official catalogue
  real,   \* whether somebody has signed in
  run,    \* the section each run is at, 0 for none, and what it found there
  alone,  \* history: no two runs have overlapped so far
  edits

vars == <<rows, admin, other, real, run, alone, edits>>

Idle == [at |-> 0, pc |-> "idle"]

Init ==
  /\ rows = [k \in Sections |-> 0]
  /\ admin = NoEmail
  /\ other = "none"
  /\ real = FALSE
  /\ run = [p \in Runners |-> Idle]
  /\ alone = TRUE
  /\ edits = 0

Is(p, pc) == run[p].pc = pc
Section(p) == Script[run[p].at]
Become(p, r) == run' = [run EXCEPT ![p] = r]

\* The script exits with 1.
Fail(p) == Become(p, [run[p] EXCEPT !.pc = "failed"])

Advance(p) ==
  Become(p, IF run[p].at = Len(Script) THEN Idle ELSE [at |-> run[p].at + 1, pc |-> "start"])

Start(p) ==
  /\ Is(p, "idle")
  /\ Become(p, [at |-> 1, pc |-> "start"])
  /\ alone' = (alone /\ \A q \in Runners : Is(q, "idle"))
  /\ UNCHANGED <<rows, admin, other, real, edits>>

\* The upsert is by address, and what it creates has a username that is unique:
\* under another address than the first it fails, and with it the run.
seedAdmin(p, e) ==
  /\ Is(p, "start") /\ Section(p) = "admin"
  /\ \/ admin \in {NoEmail, e} /\ admin' = e /\ Advance(p)
     \/ admin \notin {NoEmail, e} /\ Fail(p) /\ UNCHANGED admin
  /\ UNCHANGED <<rows, other, real, alone, edits>>

Upsert(p) ==
  /\ Is(p, "start") /\ Section(p) \in Upserted
  /\ rows' = [rows EXCEPT ![Section(p)] = 1]
  /\ Advance(p)
  /\ UNCHANGED <<admin, other, real, alone, edits>>

\* Every game that is not in the official catalogue is archived.
RetireOthers(p) ==
  /\ Is(p, "start") /\ Section(p) = "retire"
  /\ other' = IF other = "live" THEN "archived" ELSE other
  /\ Advance(p)
  /\ UNCHANGED <<rows, admin, real, alone, edits>>

Found(k) == rows[k] > 0 \/ (k = "signIns" /\ real)

\* Seeded fault: what has no unique key is created without looking for it.
Fault_Find_Unlooked(p) ==
  /\ Is(p, "start") /\ Section(p) \in Keyed \cup Unkeyed
  /\ IF Section(p) \in Keyed /\ Found(Section(p))
     THEN Advance(p) ELSE Become(p, [run[p] EXCEPT !.pc = "create"])
  /\ UNCHANGED <<rows, admin, other, real, alone, edits>>

\* What is there stays as it is; but of a question its answer is written again.
Find(p) ==
  /\ Is(p, "start") /\ Section(p) \in Keyed \cup Unkeyed
  /\ IF Found(Section(p)) THEN Advance(p) ELSE Become(p, [run[p] EXCEPT !.pc = "create"])
  /\ UNCHANGED <<rows, admin, other, real, alone, edits>>

\* A second row under a unique key fails the run, and so does one that Prisma
\* does not take.
Create(p) ==
  LET k == Section(p) IN
  /\ Is(p, "create")
  /\ IF k \in Refused \/ (k \in Keyed /\ rows[k] > 0)
     THEN Fail(p) /\ UNCHANGED rows
     ELSE Advance(p) /\ rows' = [rows EXCEPT ![k] = @ + 1]
  /\ UNCHANGED <<admin, other, real, alone, edits>>

\* Sign-ins are made up for two accounts at least.
TooFewAccounts(p) ==
  /\ Is(p, "create") /\ Section(p) = "signIns"
  /\ Advance(p)
  /\ UNCHANGED <<rows, admin, other, real, alone, edits>>

\* What has failed ends, and so may any run: the deploy is stopped.
Die(p) == ~Is(p, "idle") /\ Become(p, Idle) /\ UNCHANGED <<rows, admin, other, real, alone, edits>>

-----------------------------------------------------------------------------

AdminRemoves(k) ==
  /\ rows[k] > 0 /\ edits < MaxEdits
  /\ rows' = [rows EXCEPT ![k] = @ - 1]
  /\ edits' = edits + 1
  /\ UNCHANGED <<admin, other, real, run, alone>>

AdminWrites(k) ==
  /\ rows[k] = 0 /\ edits < MaxEdits
  /\ rows' = [rows EXCEPT ![k] = 1]
  /\ edits' = edits + 1
  /\ UNCHANGED <<admin, other, real, run, alone>>

\* createGame, or restoreGame.
AdminPublishes ==
  /\ other # "live" /\ edits < MaxEdits
  /\ other' = "live"
  /\ edits' = edits + 1
  /\ UNCHANGED <<rows, admin, real, run, alone>>

SignIn == ~real /\ real' = TRUE /\ UNCHANGED <<rows, admin, other, run, alone, edits>>

Next ==
  \/ \E p \in Runners :
       \/ \E e \in Emails : seedAdmin(p, e)
       \/ Start(p) \/ Upsert(p) \/ RetireOthers(p)
       \/ Find(p) \/ Create(p) \/ TooFewAccounts(p) \/ Die(p)
  \/ \E k \in Removable : AdminRemoves(k)
  \/ \E k \in Writable : AdminWrites(k)
  \/ AdminPublishes \/ SignIn

Spec == Init /\ [][Next]_vars

-----------------------------------------------------------------------------

\* "without duplicating data": as long as no two runs overlap, however many
\* there are, wherever they die and whatever admins remove in between, nothing
\* is there twice; and runs that overlap double at most what each was about to
\* create, so that deploys do not pile it up.
SeededOnce ==
  \A k \in Sections :
    rows[k] + Cardinality({p \in Runners : Is(p, "create") /\ Section(p) = k /\ k \in Unkeyed})
      <= IF k \in Unkeyed /\ ~alone THEN Cardinality(Runners) ELSE 1

\* README.md: "idempotent - safe to re-run. It creates a SUPER_ADMIN user [...]
\* and FAQs": a run that no other overlaps, and that has the address of the
\* first, is never stopped by a statement of its own.
RunsThrough == \A p \in Runners : Is(p, "failed") => ~alone \/ Section(p) = "admin"

(* Why it holds.                                                           *)

SeedAssumption == IsFiniteSet(Runners) /\ Runners # {}

TypeOK ==
  /\ rows \in [Sections -> Nat]
  /\ run \in [Runners -> [at : Nat, pc : {"idle", "start", "create", "failed"}]]
  /\ alone \in BOOLEAN

\* While no two have overlapped, one runs at a time.
OneRuns == alone => \A p, q \in Runners : ~Is(p, "idle") /\ ~Is(q, "idle") => p = q

\* Rows are created one by one of what is looked for.
CreatesWhatItSought == \A p \in Runners : Is(p, "create") => Section(p) \in Keyed \cup Unkeyed

IInv == TypeOK /\ OneRuns /\ CreatesWhatItSought /\ SeededOnce

=============================================================================
