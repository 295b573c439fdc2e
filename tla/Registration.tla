----------------------------- MODULE Registration -----------------------------
(***************************************************************************)
(* New accounts and the verification of their e-mail address               *)
(* (services/auth.service.ts: register, sendVerificationEmail, verifyEmail *)
(* and resendVerification).  Each statement is on its own, and the mail is *)
(* sent in between; the scheduler deletes rows of links that have expired. *)
(***************************************************************************)
EXTENDS FiniteSets

CONSTANTS
  Procs,   \* requests in flight at one time
  Emails,  \* in lower case
  Names,   \* usernames
  Links,   \* rows of verification links there may be at one time
  NoLink

VARIABLES
  accounts, \* the rows of users
  verified, \* the addresses marked as verified
  link,     \* each row of a link
  mailed,   \* links that were sent to the address they are for
  opened,   \* history: addresses whose link was opened in time
  welcome,  \* history: who was told they are registered
  req       \* the request in each slot

vars == <<accounts, verified, link, mailed, opened, welcome, req>>

NoRow == [is |-> "none", to |-> {}, used |-> FALSE]
Idle == [pc |-> "idle", who |-> {}, link |-> NoLink, new |-> FALSE]

Init ==
  /\ accounts = {} /\ verified = {}
  /\ link = [l \in Links |-> NoRow]
  /\ mailed = {} /\ opened = {} /\ welcome = {}
  /\ req = [p \in Procs |-> Idle]

At(p, pc) == req[p].pc = pc
Become(p, r) == req' = [req EXCEPT ![p] = r]
Goto(p, pc) == Become(p, [req[p] EXCEPT !.pc = pc])
Advance(p, r) == Become(p, r) /\ UNCHANGED <<accounts, verified, link, mailed, opened, welcome>>

-----------------------------------------------------------------------------
(* Registering.                                                            *)

\* findByEmailOrUsername: the address or the name is taken.
Taken(a) == \E b \in accounts : b.email = a.email \/ b.name = a.name

register(p) ==
  /\ At(p, "idle")
  /\ \E e \in Emails, n \in Names :
       LET a == [email |-> e, name |-> n] IN
       Advance(p, IF Taken(a) THEN Idle ELSE [Idle EXCEPT !.pc = "create", !.who = {a}, !.new = TRUE])

\* Seeded fault: nothing but the check before it keeps a second one out.
Fault_create_ByCheck(p) ==
  /\ At(p, "create")
  /\ accounts' = accounts \cup req[p].who
  /\ Goto(p, "token")
  /\ UNCHANGED <<verified, link, mailed, opened, welcome>>

\* After the slow hash.  The indexes on both columns refuse what came meanwhile.
create(p) ==
  /\ At(p, "create")
  /\ IF \E a \in req[p].who : Taken(a)
     THEN Become(p, Idle) /\ UNCHANGED accounts
     ELSE accounts' = accounts \cup req[p].who /\ Goto(p, "token")
  /\ UNCHANGED <<verified, link, mailed, opened, welcome>>

\* Who has an account that is not verified may ask for another link.
resendVerification(p) ==
  /\ At(p, "idle")
  /\ \E a \in accounts :
       a.email \notin verified /\ Advance(p, [Idle EXCEPT !.pc = "token", !.who = {a}])

EmailOf(p) == {a.email : a \in req[p].who}

\* Its id is nobody else's.
createEmailVerificationToken(p) ==
  /\ At(p, "token")
  /\ \E l \in Links :
       /\ link[l] = NoRow /\ \A q \in Procs : req[q].link # l
       /\ link' = [link EXCEPT ![l] = [NoRow EXCEPT !.is = "live", !.to = EmailOf(p)]]
       /\ Become(p, [req[p] EXCEPT !.pc = "mail", !.link = l])
  /\ UNCHANGED <<accounts, verified, mailed, opened, welcome>>

\* A mail that cannot be sent is logged, and the request goes on.
sendVerificationEmail(p) ==
  /\ At(p, "mail")
  /\ mailed' \in {mailed, mailed \cup {req[p].link}}
  /\ welcome' = IF req[p].new THEN welcome \cup req[p].who ELSE welcome
  /\ Become(p, Idle)
  /\ UNCHANGED <<accounts, verified, link, opened>>

-----------------------------------------------------------------------------
(* Verifying.                                                              *)

verifyEmail(p) ==
  /\ At(p, "idle")
  /\ \E l \in mailed :
       /\ link[l].is = "live" /\ ~link[l].used
       /\ opened' = opened \cup link[l].to
       /\ Become(p, [Idle EXCEPT !.pc = "verify", !.link = l,
                                 !.who = {a \in accounts : a.email \in link[l].to}])
  /\ UNCHANGED <<accounts, verified, link, mailed, welcome>>

\* By the id that was found, whatever became of the link meanwhile.
markEmailVerified(p) ==
  /\ At(p, "verify")
  /\ verified' = verified \cup EmailOf(p)
  /\ Goto(p, "used")
  /\ UNCHANGED <<accounts, link, mailed, opened, welcome>>

\* The update fails if the row was swept; then the verified user sees an error.
markEmailVerificationTokenUsed(p) ==
  /\ At(p, "used")
  /\ LET l == req[p].link IN
     link' = IF link[l].is = "none" THEN link ELSE [link EXCEPT ![l].used = TRUE]
  /\ Become(p, Idle)
  /\ UNCHANGED <<accounts, verified, mailed, opened, welcome>>

-----------------------------------------------------------------------------

Expire(l) ==
  /\ link[l].is = "live" /\ link' = [link EXCEPT ![l].is = "expired"]
  /\ UNCHANGED <<accounts, verified, mailed, opened, welcome, req>>

\* The scheduler's.
Sweep(l) ==
  /\ link[l].is = "expired"
  /\ link' = [link EXCEPT ![l] = NoRow] /\ mailed' = mailed \ {l}
  /\ UNCHANGED <<accounts, verified, opened, welcome, req>>

\* A statement fails, or the process ends: what was done stays.
Abort(p) == ~At(p, "idle") /\ Advance(p, Idle)

Next ==
  \/ \E p \in Procs :
       \/ register(p) \/ create(p) \/ resendVerification(p)
       \/ createEmailVerificationToken(p) \/ sendVerificationEmail(p)
       \/ verifyEmail(p) \/ markEmailVerified(p) \/ markEmailVerificationTokenUsed(p)
       \/ Abort(p)
  \/ \E l \in Links : Expire(l) \/ Sweep(l)

Spec == Init /\ [][Next]_vars

-----------------------------------------------------------------------------

\* Through double clicks, failed mails and requests that died half way: an
\* address and a name are one account's; nobody is verified whose own link was
\* not opened in time; and who was welcomed has the account.
RegisteredSound ==
  /\ \A a, b \in accounts : a.email = b.email \/ a.name = b.name => a = b
  /\ verified \subseteq opened
  /\ verified \subseteq {a.email : a \in accounts}
  /\ welcome \subseteq accounts

(* Why it holds.                                                           *)

Accounts == [email : Emails, name : Names]

TypeOK ==
  /\ accounts \subseteq Accounts
  /\ link \in [Links -> [is : {"none", "live", "expired"}, to : SUBSET Emails, used : BOOLEAN]]
  /\ mailed \subseteq Links
  /\ req \in [Procs -> [pc : {"idle", "create", "token", "mail", "verify", "used"},
                       who : SUBSET Accounts, link : Links \cup {NoLink}, new : BOOLEAN]]

\* A request creates one account, works for accounts there are, and verifies
\* no address whose link was not opened.
Known ==
  \A p \in Procs :
    /\ At(p, "create") => \E a \in Accounts : req[p].who = {a}
    /\ req[p].pc \in {"token", "mail", "verify", "used"} => req[p].who \subseteq accounts
    /\ At(p, "mail") => req[p].link \in Links
    /\ At(p, "verify") => EmailOf(p) \subseteq opened

IInv == TypeOK /\ Known /\ RegisteredSound

\* Nobody is welcomed without having been sent a link.
WelcomedWithLink == \A a \in welcome : a.email \in verified \/ \E l \in mailed : a.email \in link[l].to

=============================================================================
