------------------------------ MODULE R2Upload ------------------------------
(***************************************************************************)
(* A film on its way to R2 and back: the job of the host's tab             *)
(* (src/lib/r2-upload-job.ts), the upload in two workers that stage chunks *)
(* and commit parts (src/lib/r2-client.ts), the routes and the store they  *)
(* write (src/app/api/r2, src/lib/r2-server.ts), the page that shows the   *)
(* film (src/components/watch/WatchRoom.tsx) and the end of the room, whose *)
(* purge does not wait for an upload.                                      *)
(*                                                                         *)
(* One room, one tab of its host.  Bytes are counted in chunks.  Any       *)
(* request may fail before it takes effect, or lose its answer after it.   *)
(***************************************************************************)
EXTENDS Naturals, Sequences, FiniteSets, SequencesExt

CONSTANTS
  MaxUploads,   \* bound: films the host picks
  Parts,        \* parts of a large film, the last of them one chunk long
  Worker,       \* PARALLEL_PARTS
  MaxRange,     \* chunks that one answer of /file may hold
  MaxFaults     \* bound: requests that fail

ASSUME UploadAssumption ==
  /\ MaxUploads \in Nat /\ Parts \in Nat \ {0} /\ MaxRange \in Nat \ {0} /\ MaxFaults \in Nat
  /\ Worker # {} /\ IsFiniteSet(Worker)

Upload == 1..MaxUploads
None == 0
Part == 1..Parts

Chunks(p) == IF p = Parts THEN <<<<p, 0>>>> ELSE <<<<p, 0>>, <<p, 1>>>>
Whole == FlattenSeq([p \in Part |-> Chunks(p)])

\* The keys under rooms/{code}/
Marker == <<"alive">>
FilmKey(u) == <<"film", u>>
ChunkKey(u, c) == <<"chunk", u, c>>

VARIABLES
  page,       \* the tab shows the lobby, the room, or the end of the room
  current,    \* the upload whose job is in the map of jobs
  status,     \* the job of each upload
  step,       \* where uploadFileToR2 is
  cursor, completed,   \* its locals
  worker,     \* its workers: what each does with which part, and the bytes a commit has read
  mp,         \* the multipart upload at R2
  part,       \* its parts
  objects,    \* the keys of the bucket
  film,       \* what the film's object holds
  keyFlag, upFlag,     \* partmov:r2Key and r2Uploading in sessionStorage
  shown,      \* the film on the stage (appliedR2KeyRef)
  purge,      \* the host's purge: the keys it has listed
  seen,       \* what the player has read of the film on the stage
  faults

jobVars   == <<current, status, step, cursor, completed, worker>>
storeVars == <<mp, part, objects, film>>
pageVars  == <<page, keyFlag, upFlag, shown, purge, seen>>
vars      == <<jobVars, storeVars, pageVars, faults>>

Active == {"uploading", "finalizing"}
Idle == [at |-> "idle", part |-> None, chunk |-> 0, body |-> <<>>]
Gone == [Idle EXCEPT !.at = "gone"]

\* Types; the cursor passes the last part once for each worker that finds nothing left.
TypeOK ==
  /\ page \in {"lobby", "room", "ended"}
  /\ current \in {None} \cup Upload /\ keyFlag \in {None} \cup Upload
  /\ shown \in {None} \cup Upload
  /\ status \in [Upload -> {"none", "uploading", "finalizing", "done", "error"}]
  /\ step \in [Upload -> {"new", "init", "put", "parts", "complete", "abort", "over"}]
  /\ cursor \in [Upload -> 0..(Parts + Cardinality(Worker))]
  /\ completed \in [Upload -> SUBSET Part]
  /\ \A u \in Upload, k \in Worker :
       /\ worker[u][k].at \in {"idle", "stage", "read", "send", "back", "gone"}
       /\ worker[u][k].part \in {None} \cup Part
  /\ mp \in [Upload -> {"none", "open", "done", "aborted"}]
  /\ part \in [Upload -> [Part -> Seq(Part \X {0, 1})]]
  /\ film \in [Upload -> Seq(Part \X {0, 1})]
  /\ upFlag \in BOOLEAN /\ seen \in Seq(Part \X {0, 1}) /\ faults \in 0..MaxFaults

-----------------------------------------------------------------------------
(* Requests. *)

Fails == faults < MaxFaults /\ faults' = faults + 1
Works == UNCHANGED faults

\* job.pub of an upload; the job need no longer be in the map.
Shows(u, s) == status' = [status EXCEPT ![u] = s]

Ended(u, s) == step' = [step EXCEPT ![u] = "over"] /\ Shows(u, s)

\* The last lines of the job when the upload has returned.
Done(u) ==
  /\ Ended(u, "done")
  /\ keyFlag' = u /\ upFlag' = FALSE

\* A worker that throws ends the wait for all of them, once.
Throws(u, k) ==
  /\ worker' = [worker EXCEPT ![u][k] = Gone]
  /\ step' = [step EXCEPT ![u] = IF @ = "parts" THEN "abort" ELSE @]

-----------------------------------------------------------------------------
(* What the routes do to the store. *)

OpenRoom           == objects' = objects \cup {Marker}
PutObject(u)       == objects' = objects \cup {FilmKey(u)} /\ film' = [film EXCEPT ![u] = Whole]
CreateMultipart(u) == mp' = [mp EXCEPT ![u] = "open"]
PutChunk(u, c)     == objects' = objects \cup {ChunkKey(u, c)}
UploadPart(u, p, body) == mp[u] = "open" /\ part' = [part EXCEPT ![u][p] = body]

\* R2 joins the parts that the client names, in their order.
JoinParts(u) ==
  LET named == [p \in Part |-> IF p \in completed[u] THEN part[u][p] ELSE <<>>] IN
  /\ mp[u] = "open" /\ mp' = [mp EXCEPT ![u] = "done"]
  /\ objects' = objects \cup {FilmKey(u)}
  /\ film' = [film EXCEPT ![u] = FlattenSeq(named)]

-----------------------------------------------------------------------------
(* The job and the upload. *)

\* startR2UploadJob, from the lobby, which opens the room, or from the room: not while a job of
\* the room is active.  The first line of uploadFileToR2 reports progress.
Start(u) ==
  /\ step[u] = "new" /\ \A v \in Upload : v < u => step[v] # "new"
  /\ page \in {"lobby", "room"} /\ (current # None => status[current] \notin Active)
  /\ page' = "room"
  /\ IF page = "lobby" THEN OpenRoom ELSE UNCHANGED objects
  /\ current' = u /\ upFlag' = TRUE
  /\ Shows(u, "uploading")
  /\ step' = [step EXCEPT ![u] = "init"]
  /\ UNCHANGED <<cursor, completed, worker, mp, part, film, keyFlag, shown, purge, seen, faults>>

\* POST upload/init: a small film is put at once, a large one in parts.  The store may be full.
InitUpload(u) ==
  /\ step[u] = "init"
  /\ \/ /\ step' = [step EXCEPT ![u] = "put"] /\ UNCHANGED <<status, mp, worker>>
     \/ /\ step' = [step EXCEPT ![u] = "parts"] /\ CreateMultipart(u)
        /\ worker' = [worker EXCEPT ![u] = [k \in Worker |-> Idle]] /\ UNCHANGED status
     \/ /\ Ended(u, "error") /\ UNCHANGED <<mp, worker>>
  /\ UNCHANGED <<current, cursor, completed, part, objects, film, pageVars, faults>>

\* PUT upload/put
Put(u) ==
  /\ step[u] = "put"
  /\ \/ PutObject(u) /\ Works /\ Done(u)
     \/ /\ Fails /\ Ended(u, "error") /\ UNCHANGED <<keyFlag, upFlag>>
        /\ PutObject(u) \/ UNCHANGED <<objects, film>>
  /\ UNCHANGED <<current, cursor, completed, worker, mp, part, page, shown, purge, seen>>

At(u, k, where) == worker[u][k].at = where

\* Mutant: a worker that finds nothing left asks again.
PickEndless(u, k) ==
  /\ At(u, k, "idle")
  /\ cursor' = [cursor EXCEPT ![u] = @ + 1]
  /\ worker' = [worker EXCEPT ![u][k] =
       IF cursor[u] < Parts THEN [@ EXCEPT !.at = "stage", !.part = cursor[u] + 1] ELSE @]
  /\ UNCHANGED <<current, status, step, completed, storeVars, pageVars, faults>>

\* A worker takes the next part, or finds none left.
Pick(u, k) ==
  /\ At(u, k, "idle")
  /\ cursor' = [cursor EXCEPT ![u] = @ + 1]
  /\ worker' = [worker EXCEPT ![u][k] =
       IF cursor[u] < Parts THEN [@ EXCEPT !.at = "stage", !.part = cursor[u] + 1]
       ELSE [@ EXCEPT !.at = "back"]]
  /\ UNCHANGED <<current, status, step, completed, storeVars, pageVars, faults>>

\* PUT upload/stage: an object of its own, whatever has become of the upload.
Stage(u, k) ==
  LET w == worker[u][k]
      c == Chunks(w.part)[w.chunk + 1]
      last == w.chunk + 1 = Len(Chunks(w.part)) IN
  /\ At(u, k, "stage")
  /\ \/ /\ PutChunk(u, c) /\ Works
        /\ Shows(u, "uploading")
        /\ worker' = [worker EXCEPT ![u][k] =
             [w EXCEPT !.at = IF last THEN "read" ELSE "stage",
                       !.chunk = IF last THEN 0 ELSE w.chunk + 1]]
        /\ UNCHANGED step
     \/ Fails /\ Throws(u, k) /\ UNCHANGED <<objects, status>>
  /\ UNCHANGED <<current, cursor, completed, mp, part, film, pageVars>>

Staged(u, p) == SelectSeq(Chunks(p), LAMBDA c : ChunkKey(u, c) \in objects)

\* Mutant: a chunk that is not there is skipped.
CommitReadAny(u, k) ==
  /\ At(u, k, "read")
  /\ worker' = [worker EXCEPT ![u][k] =
       [@ EXCEPT !.at = "send", !.body = Staged(u, worker[u][k].part)]]
  /\ UNCHANGED <<current, status, step, cursor, completed, storeVars, pageVars, faults>>

\* POST upload/commit-part reads the chunks of the part; all must be there.
CommitRead(u, k) ==
  LET p == worker[u][k].part IN
  /\ At(u, k, "read")
  /\ IF Staged(u, p) = Chunks(p)
       THEN /\ worker' = [worker EXCEPT ![u][k] = [@ EXCEPT !.at = "send", !.body = Staged(u, p)]]
            /\ UNCHANGED step
       ELSE Throws(u, k)
  /\ UNCHANGED <<current, status, cursor, completed, storeVars, pageVars, faults>>

\* ... sends them as one part and then, if it can, deletes them.
CommitSend(u, k) ==
  LET w == worker[u][k]
      staged == {ChunkKey(u, c) : c \in ToSet(Chunks(w.part))}
      sent == UploadPart(u, w.part, w.body) IN
  /\ At(u, k, "send")
  /\ \/ /\ sent /\ objects' = objects \ staged /\ Works
        /\ completed' = [completed EXCEPT ![u] = @ \cup {w.part}]
        /\ worker' = [worker EXCEPT ![u][k] = Idle] /\ UNCHANGED step
     \/ /\ sent /\ Fails                \* the deletion fails, or the answer is lost
        /\ \/ /\ completed' = [completed EXCEPT ![u] = @ \cup {w.part}]
              /\ worker' = [worker EXCEPT ![u][k] = Idle] /\ UNCHANGED <<step, objects>>
           \/ objects' = objects \ staged /\ Throws(u, k) /\ UNCHANGED completed
     \/ mp[u] # "open" /\ Works /\ Throws(u, k) /\ UNCHANGED <<part, objects, completed>>
     \/ Fails /\ Throws(u, k) /\ UNCHANGED <<part, objects, completed>>
  /\ UNCHANGED <<current, status, cursor, mp, film, pageVars>>

\* Mutant: the first worker that comes back is enough.
AnyBack(u) ==
  /\ step[u] = "parts" /\ \E k \in Worker : worker[u][k].at = "back"
  /\ step' = [step EXCEPT ![u] = "complete"] /\ Shows(u, "finalizing")
  /\ UNCHANGED <<current, cursor, completed, worker, storeVars, pageVars, faults>>

AllBack(u) ==
  /\ step[u] = "parts" /\ \A k \in Worker : worker[u][k].at = "back"
  /\ step' = [step EXCEPT ![u] = "complete"] /\ Shows(u, "finalizing")
  /\ UNCHANGED <<current, cursor, completed, worker, storeVars, pageVars, faults>>

\* POST upload/complete
Complete(u) ==
  /\ step[u] = "complete"
  /\ \/ JoinParts(u) /\ Works /\ Done(u)
     \/ /\ JoinParts(u) \/ UNCHANGED <<mp, objects, film>>
        /\ Fails /\ step' = [step EXCEPT ![u] = "abort"] /\ UNCHANGED <<status, keyFlag, upFlag>>
  /\ UNCHANGED <<current, cursor, completed, worker, part, page, shown, purge, seen>>

\* Mutant: an abort that fails is not caught.
AbortOrHang(u) ==
  /\ step[u] = "abort" /\ mp[u] = "open" /\ Works
  /\ mp' = [mp EXCEPT ![u] = "aborted"] /\ Ended(u, "error")
  /\ UNCHANGED <<current, cursor, completed, worker, part, objects, film, pageVars>>

\* POST upload/abort, and the error of the job: the other worker is not told.
Abort(u) ==
  /\ step[u] = "abort" /\ Ended(u, "error")
  /\ \/ mp[u] = "open" /\ mp' = [mp EXCEPT ![u] = "aborted"] /\ Works
     \/ mp[u] # "open" /\ UNCHANGED mp /\ Works
     \/ mp[u] = "open" /\ UNCHANGED mp /\ Fails
  /\ UNCHANGED <<current, cursor, completed, worker, part, objects, film, pageVars>>

-----------------------------------------------------------------------------
(* The page. *)

\* The effect that waits for the job: the film is shown, and its job leaves the map.
Apply ==
  /\ page = "room" /\ current # None /\ status[current] = "done"
  /\ shown' = current /\ seen' = (IF shown = current THEN seen ELSE <<>>)
  /\ current' = None
  /\ UNCHANGED <<status, step, cursor, completed, worker, storeVars,
                 page, keyFlag, upFlag, purge, faults>>

\* The host reloads the room: jobs and uploads are gone, and the key that sessionStorage keeps
\* is shown again.
Reload ==
  /\ page = "room" /\ Fails
  /\ current' = None /\ seen' = <<>> /\ shown' = keyFlag
  /\ step' = [u \in Upload |-> IF step[u] = "new" THEN "new" ELSE "over"]
  /\ status' = [u \in Upload |-> "none"]
  /\ worker' = [u \in Upload |-> [k \in Worker |-> Gone]]
  /\ UNCHANGED <<cursor, completed, storeVars, page, keyFlag, upFlag, purge>>

\* finishSession
EndSession ==
  /\ page = "room"
  /\ page' = "ended" /\ shown' = None /\ seen' = <<>>
  /\ \/ purge' = [at |-> "asked", keys |-> {}] /\ Works
     \/ Fails /\ UNCHANGED purge
  /\ UNCHANGED <<jobVars, storeVars, keyFlag, upFlag>>

\* purgeRoomPrefix lists the keys of the room and deletes what it has listed.
PurgeList ==
  /\ purge.at = "asked"
  /\ purge' = [at |-> "listed", keys |-> objects]
  /\ UNCHANGED <<jobVars, storeVars, page, keyFlag, upFlag, shown, seen, faults>>

PurgeDelete ==
  /\ purge.at = "listed"
  /\ purge' = [at |-> "done", keys |-> {}]
  /\ objects' = objects \ purge.keys
  /\ UNCHANGED <<jobVars, mp, part, film, page, keyFlag, upFlag, shown, seen, faults>>

\* Mutant: an open end is taken from the start of the object.
FileRangeFromStart(total, from, to) ==
  LET asked == IF to = None THEN MaxRange - 1 ELSE to
      end == CHOOSE e \in {asked, total - 1} : e <= asked /\ e <= total - 1 IN
  [from |-> IF end < from THEN end ELSE from, to |-> end]

\* GET /file: bytes from-to of an object of that size, to = None when the header names no end.
FileRange(total, from, to) ==
  LET asked == IF to = None THEN from + MaxRange - 1 ELSE to
      end == CHOOSE e \in {asked, total - 1, from + MaxRange - 1} :
               \A x \in {asked, total - 1, from + MaxRange - 1} : e <= x IN
  [from |-> from, to |-> IF end < from THEN from ELSE end]

\* The player asks for what follows what it has, with an end or without.
Play ==
  /\ page = "room" /\ shown # None /\ FilmKey(shown) \in objects
  /\ Len(seen) < Len(film[shown])
  /\ \E to \in {None} \cup Len(seen)..Len(Whole) :
       LET r == FileRange(Len(film[shown]), Len(seen), to) IN
       seen' = seen \o SubSeq(film[shown], r.from + 1, r.to + 1)
  /\ UNCHANGED <<jobVars, storeVars, page, keyFlag, upFlag, shown, purge, faults>>

-----------------------------------------------------------------------------
Init ==
  /\ page = "lobby" /\ current = None
  /\ status = [u \in Upload |-> "none"] /\ step = [u \in Upload |-> "new"]
  /\ cursor = [u \in Upload |-> 0] /\ completed = [u \in Upload |-> {}]
  /\ worker = [u \in Upload |-> [k \in Worker |-> Gone]]
  /\ mp = [u \in Upload |-> "none"] /\ part = [u \in Upload |-> [p \in Part |-> <<>>]]
  /\ objects = {} /\ film = [u \in Upload |-> <<>>]
  /\ keyFlag = None /\ upFlag = FALSE /\ shown = None /\ seen = <<>>
  /\ purge = [at |-> "none", keys |-> {}] /\ faults = 0

Uploads(u) ==
  \/ InitUpload(u) \/ Put(u) \/ AllBack(u) \/ Complete(u) \/ Abort(u)
  \/ \E k \in Worker : Pick(u, k) \/ Stage(u, k) \/ CommitRead(u, k) \/ CommitSend(u, k)

Next ==
  \/ \E u \in Upload : Start(u) \/ Uploads(u)
  \/ Apply \/ Reload \/ EndSession \/ PurgeList \/ PurgeDelete \/ Play

\* Requests are answered and effects run; what the user does need not happen.
Fairness == (\A u \in Upload : WF_vars(Uploads(u))) /\ WF_vars(Apply) /\ WF_vars(Play)

Spec == Init /\ [][Next]_vars /\ Fairness

-----------------------------------------------------------------------------
\* A part at R2 is made of all the chunks of that part, in order, whatever a purge or a failure
\* has taken between their staging and their commit.
WholeParts == \A u \in Upload, p \in Part : part[u][p] \in {<<>>, Chunks(p)}

\* The film on the host's stage is in the bucket, whole, although its workers ran side by side
\* and some of their requests failed.
ShownIsWhole == shown # None => FilmKey(shown) \in objects /\ film[shown] = Whole

\* A film on the stage can be played to its end, although every answer is cut to MaxRange.
PlayedWhole == \A u \in Upload : shown = u ~> seen = Whole \/ shown # u

\* Every upload ends, whichever of its requests fail.
UploadEnds == \A u \in Upload : step[u] = "init" ~> step[u] = "over"

=============================================================================
