------------------------------- MODULE Uploads -------------------------------
(***************************************************************************)
(* Files: what middlewares/upload.middleware.ts lets in, what the services *)
(* for attachments, images and the media library do with it, and where     *)
(* storage.service.ts keeps it: with a durable service, or on a local disk *)
(* that goes with the instance.  A file is stored first, and a row made    *)
(* for it by a later statement or a later request.  Which types are images *)
(* and so on is a table; kinds stand for it.  Nothing deletes a file.      *)
(***************************************************************************)
EXTENDS Integers

CONSTANTS
  Files,      \* uploads to the chat or the library
  Procs,      \* uploads of one user's avatar in flight at one time
  Sizes,      \* in MB
  MaxAvatars  \* bound on the avatars uploaded

VARIABLES
  durable,  \* Cloudinary is configured
  file,     \* what became of each upload
  wiped,    \* history: the files that went with an instance
  object,   \* the version stored of the user's avatar; 0 is none
  avatar,   \* the version avatarUrl names
  req       \* the avatar uploads in flight

vars == <<durable, file, wiped, object, avatar, req>>

Kinds == {"IMAGE", "DOCUMENT", "VOICE", "other"}
Ways == {"files", "attachments", "library"}

BANNER_MAX_SIZE == 8
LimitFor == [IMAGE |-> 8, DOCUMENT |-> 15, VOICE |-> 10]

\* long: a duration was given with the file, and it is over
\* VOICE_MAX_DURATION_SECONDS.  stored: in the storage.  catalogued: the library
\* has a row with its URL.  sent: messages for it have the URL that was answered,
\* or another.
NoFile == [pc |-> "none", way |-> "files", kind |-> "other", size |-> 0, long |-> FALSE,
           stored |-> FALSE, sent |-> {}, catalogued |-> FALSE]
Idle == [pc |-> "idle", version |-> 0]

Init ==
  /\ durable \in BOOLEAN
  /\ file = [f \in Files |-> NoFile]
  /\ wiped = {}
  /\ object = 0 /\ avatar = 0
  /\ req = [p \in Procs |-> Idle]

At(f, pc) == file[f].pc = pc
Become(f, r) == file' = [file EXCEPT ![f] = r] /\ UNCHANGED <<durable, wiped, object, avatar, req>>
Goto(f, pc) == Become(f, [file[f] EXCEPT !.pc = pc])

-----------------------------------------------------------------------------
(* Chat files and the media library.                                       *)

\* The gate of each route, by type and size.
LetIn(way, kind, size) ==
  IF way = "files" THEN kind # "other" /\ size <= LimitFor.DOCUMENT
  ELSE kind = "IMAGE" /\ size <= BANNER_MAX_SIZE

multer(f) ==
  /\ At(f, "none")
  /\ \E w \in Ways, k \in Kinds, s \in Sizes, l \in BOOLEAN :
       Become(f, [file[f] EXCEPT !.way = w, !.kind = k, !.size = s, !.long = l,
                                 !.pc = IF LetIn(w, k, s) THEN "check" ELSE "refused"])

\* What a chat file may be: within the limit of its kind, and not a voice note
\* that is said to be too long.
Fits(r) ==
  /\ r.kind # "other" /\ r.size <= LimitFor[r.kind]
  /\ ~(r.kind = "VOICE" /\ r.long)

\* Chat files: by kind.  Images elsewhere: only where Cloudinary is.
check(f) ==
  /\ At(f, "check")
  /\ Goto(f, IF IF file[f].way = "files" THEN Fits(file[f]) ELSE durable
             THEN "store" ELSE "refused")

\* Seeded fault: the URL is answered whether or not the file was stored.
Fault_store_Unwaited(f) ==
  /\ At(f, "store")
  /\ \E ok \in BOOLEAN :
       Become(f, [file[f] EXCEPT !.pc = IF file[f].way = "files" THEN "answered" ELSE "catalog",
                                 !.stored = ok])

\* Under a name nobody chose.  The URL is known when it is stored.
store(f) ==
  /\ At(f, "store")
  /\ \/ Become(f, [file[f] EXCEPT !.stored = TRUE,
                                  !.pc = IF file[f].way = "files" THEN "answered" ELSE "catalog"])
     \/ Goto(f, "failed")

\* The row of the library.  Without it the file stays, unknown to anybody.
catalog(f) ==
  /\ At(f, "catalog")
  /\ \/ Become(f, [file[f] EXCEPT !.catalogued = TRUE, !.pc = "answered"])
     \/ Goto(f, "failed")

\* The client sends a message with the URL it was answered, or with any other
\* string: the schema accepts both, and a message is never taken back.
sendMessage(f) ==
  \E url \in {"answered", "made up"} :
    /\ url = "answered" => At(f, "answered")
    /\ Become(f, [file[f] EXCEPT !.sent = @ \cup {url}])

\* The row of the library, not the file, and not the messages with its URL.
remove(f) ==
  /\ file[f].catalogued
  /\ Become(f, [file[f] EXCEPT !.catalogued = FALSE])

-----------------------------------------------------------------------------
(* The avatar: one name for each user, overwritten.                        *)

uploadAvatar(p) ==
  /\ req[p].pc = "idle" /\ durable /\ object < MaxAvatars
  /\ req' = [req EXCEPT ![p].pc = "image"]
  /\ UNCHANGED <<durable, file, wiped, object, avatar>>

uploadImage(p) ==
  /\ req[p].pc = "image" /\ object < MaxAvatars
  /\ \/ object' = object + 1 /\ req' = [req EXCEPT ![p] = [pc |-> "row", version |-> object + 1]]
     \/ UNCHANGED object /\ req' = [req EXCEPT ![p] = Idle]
  /\ UNCHANGED <<durable, file, wiped, avatar>>

updateAvatar(p) ==
  /\ req[p].pc = "row"
  /\ avatar' \in {req[p].version, avatar}
  /\ req' = [req EXCEPT ![p] = Idle]
  /\ UNCHANGED <<durable, file, wiped, object>>

-----------------------------------------------------------------------------

InFlight == {"check", "store", "catalog"}

\* Requests end with the instance, and so does a local disk.
Restart ==
  /\ file' = [f \in Files |->
       [file[f] EXCEPT !.pc = IF @ \in InFlight THEN "failed" ELSE @,
                       !.stored = durable /\ @]]
  /\ wiped' = IF durable THEN wiped ELSE wiped \cup {f \in Files : file[f].stored}
  /\ req' = [p \in Procs |-> Idle]
  /\ UNCHANGED <<durable, object, avatar>>

Next ==
  \/ \E f \in Files :
       multer(f) \/ check(f) \/ store(f) \/ catalog(f) \/ sendMessage(f) \/ remove(f)
  \/ \E p \in Procs : uploadAvatar(p) \/ uploadImage(p) \/ updateAvatar(p)
  \/ Restart

Spec == Init /\ [][Next]_vars

-----------------------------------------------------------------------------

\* "an orphaned upload can't leave a dangling row": whatever fails between the
\* storage and the rows, and in whatever order, every URL that an upload answered
\* and a message, the library or a profile has is of something stored - until an
\* instance goes that kept its files on its own disk.  Of a URL in a message that
\* no upload answered nothing is promised, although it is "only accepted because
\* it was minted by our own uploader": no schema tells it from one that was.
NothingDangles ==
  /\ \A f \in Files :
       "answered" \in file[f].sent \/ file[f].catalogued => file[f].stored \/ f \in wiped
  /\ durable => wiped = {}
  /\ avatar <= object

\* What is stored fits its kind, and what was refused for the chat did not, by
\* its type, its size or its length: "so multer doesn't reject a valid document".
StoredFits ==
  \A f \in Files :
    /\ file[f].stored => Fits(file[f])
    /\ At(f, "refused") /\ file[f].way = "files" => ~Fits(file[f])

UploadsSound == NothingDangles /\ StoredFits

\* The profile shows the avatar that is stored, once no upload is under way.
AvatarCurrent == (\A p \in Procs : req[p] = Idle) => avatar = object

-----------------------------------------------------------------------------
(* Why it holds.                                                           *)

UploadsAssumption == Sizes \subseteq Nat /\ MaxAvatars \in Nat

TypeOK ==
  /\ durable \in BOOLEAN
  /\ file \in [Files -> [pc : InFlight \cup {"none", "refused", "answered", "failed"},
                        way : Ways, kind : Kinds, size : Nat, long : BOOLEAN,
                        stored : BOOLEAN, sent : SUBSET {"answered", "made up"},
                        catalogued : BOOLEAN]]
  /\ wiped \subseteq Files
  /\ object \in Nat /\ avatar \in Nat
  /\ req \in [Procs -> [pc : {"idle", "image", "row"}, version : Nat]]

\* What has passed the checks fits, and an URL is known only of what was stored.
StoredFirst ==
  /\ \A f \in Files :
       /\ At(f, "none") => ~file[f].stored
       /\ At(f, "check") => LetIn(file[f].way, file[f].kind, file[f].size)
       /\ At(f, "store") => Fits(file[f])
       /\ At(f, "catalog") \/ At(f, "answered") => file[f].stored \/ f \in wiped
  /\ \A p \in Procs : req[p].version <= object

IInv == TypeOK /\ StoredFirst /\ UploadsSound

=============================================================================
