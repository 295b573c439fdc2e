\* Three jobs, two names, retries, a missing handler and restarts; two users with three
\* sockets; an announcement and the rows that expire; a file beside two uploads of an avatar.
\* No deadlock check is needed: a restart is always possible.
SPECIFICATION EitherSpec
CONSTANTS
  j1 = j1  j2 = j2  j3 = j3  mail = mail  sweep = sweep
  ann = ann  bob = bob  s1 = s1  s2 = s2  s3 = s3
  NoJob = NoJob
  Jobs = {j1, j2, j3}
  Names = {mail, sweep}
  NameOf <- NamesOfJobs
  MaxAttempts <- Limits
  Users = {ann, bob}
  Sockets = {s1, s2, s3}
  Owner <- OwnerOfSockets
  Threads = {c1}
  Sources = {news}
  Refreshes = {token1}
  Verifications = {code1}
  Files = {f1}
  Procs = {u1, u2}
  Sizes = {8, 10, 15, 16}
  MaxAvatars = 2
INVARIANTS JobsTended PresenceTold UploadsSound
PROPERTIES KeepsPromise JobsSettle HouseKept
