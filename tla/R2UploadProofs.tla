--------------------------- MODULE R2UploadProofs ---------------------------
(***************************************************************************)
(* A film on the host's stage is whole, for any number of uploads, parts,  *)
(* workers and failing requests; and what "whole" says of the bytes.       *)
(***************************************************************************)
EXTENDS R2Upload, FiniteSetTheorems, WellFoundedInduction, TLAPS

-----------------------------------------------------------------------------
(* The invariant. *)

Bytes == Seq(Part \X {0, 1})

WorkerState == [at : {"idle", "stage", "read", "send", "back", "gone"},
                part : {None} \cup Part, chunk : Nat, body : Bytes]

Types ==
  /\ page \in {"lobby", "room", "ended"}
  /\ status \in [Upload -> {"none", "uploading", "finalizing", "done", "error"}]
  /\ step \in [Upload -> {"new", "init", "put", "parts", "complete", "abort", "over"}]
  /\ cursor \in [Upload -> Nat]
  /\ completed \in [Upload -> SUBSET Part]
  /\ worker \in [Upload -> [Worker -> WorkerState]]
  /\ part \in [Upload -> [Part -> Bytes]]
  /\ film = [u \in Upload |-> film[u]]

Busy(u, k) == worker[u][k].at \in {"stage", "read", "send"}

\* A commit sends what it has read, which is all of its part.
Bodies ==
  \A u \in Upload, k \in Worker :
    /\ Busy(u, k) => worker[u][k].part \in Part
    /\ worker[u][k].at = "send" => worker[u][k].body = Chunks(worker[u][k].part)

\* What the client counts as completed is at R2, whole.
Stored ==
  /\ WholeParts
  /\ \A u \in Upload : \A p \in completed[u] : part[u][p] = Chunks(p)

\* While no worker has thrown, each part that was taken is completed or in the hands of a
\* worker; a worker comes back only when all were taken.
Taken ==
  \A u \in Upload :
    /\ step[u] \in {"new", "init", "put"} =>
         cursor[u] = 0 /\ \A k \in Worker : worker[u][k].at = "gone"
    /\ step[u] = "parts" =>
         /\ \A p \in Part : p <= cursor[u] =>
              p \in completed[u] \/ \E k \in Worker : Busy(u, k) /\ worker[u][k].part = p
         /\ \A k \in Worker : worker[u][k].at = "back" => cursor[u] >= Parts
    /\ step[u] = "complete" => completed[u] = Part

\* Until the session ends, a film that is done, remembered or shown is in the bucket.
InBucket(u) == FilmKey(u) \in objects /\ film[u] = Whole

Kept ==
  /\ \A u \in Upload : page # "ended" /\ (status[u] = "done" \/ keyFlag = u) => InBucket(u)
  /\ shown # None => shown \in Upload /\ page = "room" /\ InBucket(shown)
  /\ keyFlag \in {None} \cup Upload /\ current \in {None} \cup Upload
  /\ purge.at # "none" => page = "ended"

Inv == Types /\ Bodies /\ Stored /\ Taken /\ Kept

-----------------------------------------------------------------------------
(* Lemmas. *)

LEMMA ChunksTypes == ASSUME Parts \in Nat \ {0}, NEW p \in Part PROVE Chunks(p) \in Bytes
<1> DEFINE C == Part \X {0, 1}
<1>1. <<p, 0>> \in C /\ <<p, 1>> \in C
  OBVIOUS
<1> HIDE DEF C
<1>2. \A c, d \in C : <<c>> \in Seq(C) /\ <<c, d>> \in Seq(C)
  OBVIOUS
<1>3. <<<<p, 0>>>> \in Seq(C) /\ <<<<p, 0>>, <<p, 1>>>> \in Seq(C)
  BY <1>1, <1>2
<1>4. QED
  BY <1>3 DEF Chunks, Bytes, C

LEMMA IdleTypes == Idle \in WorkerState /\ Gone \in WorkerState /\ Idle.at = "idle" /\ Gone.at = "gone"
<1>1. <<>> \in Bytes
  BY DEF Bytes
<1>2. QED
  BY <1>1 DEF Idle, Gone, WorkerState, None

LEMMA WorkerSet ==
  ASSUME worker \in [Upload -> [Worker -> WorkerState]], NEW u \in Upload, NEW k \in Worker,
         NEW w \in WorkerState, worker' = [worker EXCEPT ![u][k] = w]
  PROVE  /\ worker' \in [Upload -> [Worker -> WorkerState]]
         /\ worker'[u][k] = w
         /\ \A v \in Upload, j \in Worker : v # u \/ j # k => worker'[v][j] = worker[v][j]
<1>1. worker' = [worker EXCEPT ![u] = [worker[u] EXCEPT ![k] = w]]
  OBVIOUS
<1>2. [worker[u] EXCEPT ![k] = w] \in [Worker -> WorkerState]
  OBVIOUS
<1>3. QED
  BY <1>1, <1>2

\* The keys of films, chunks and rooms differ.
LEMMA KeysDiffer ==
  \A u, v, c : FilmKey(u) # ChunkKey(v, c) /\ FilmKey(u) # Marker
BY DEF FilmKey, ChunkKey, Marker

\* A step that takes no film away keeps what is in the bucket there.
LEMMA KeptSame ==
  ASSUME Kept, UNCHANGED <<page, keyFlag, shown, purge, film, current>>,
         \A u \in Upload : FilmKey(u) \in objects => FilmKey(u) \in objects',
         \A u \in Upload : status'[u] = "done" => status[u] = "done"
  PROVE  Kept'
BY DEF Kept, InBucket

\* A worker throws: nothing that it did not do counts as taken.
LEMMA ThrowsTaken ==
  ASSUME Types, Taken, Bodies, NEW u \in Upload, NEW k \in Worker, Throws(u, k), Busy(u, k),
         UNCHANGED cursor,
         \A v \in Upload : completed[v] \subseteq completed'[v], completed' \in [Upload -> SUBSET Part],
         \A v \in Upload : v # u => completed'[v] = completed[v]
  PROVE  /\ Taken' /\ Bodies'
         /\ worker' \in [Upload -> [Worker -> WorkerState]]
         /\ step' \in [Upload -> {"new", "init", "put", "parts", "complete", "abort", "over"}]
<1>1. /\ worker' = [worker EXCEPT ![u][k] = Gone]
      /\ step' = [step EXCEPT ![u] = IF step[u] = "parts" THEN "abort" ELSE step[u]]
  BY DEF Throws
<1>2. /\ worker' \in [Upload -> [Worker -> WorkerState]]
      /\ worker'[u][k] = Gone
      /\ \A v \in Upload, j \in Worker : v # u \/ j # k => worker'[v][j] = worker[v][j]
  BY <1>1, IdleTypes, WorkerSet DEF Types
<1>3. /\ step' \in [Upload -> {"new", "init", "put", "parts", "complete", "abort", "over"}]
      /\ step'[u] # "parts" /\ (step'[u] = step[u] \/ step'[u] = "abort")
      /\ \A v \in Upload : v # u => step'[v] = step[v]
  BY <1>1 DEF Types
<1>4. Bodies'
  BY <1>2, IdleTypes DEF Bodies, Busy
<1>5. Taken'
  <2>1. SUFFICES ASSUME NEW v \in Upload
                 PROVE  /\ step'[v] \in {"new", "init", "put"} =>
                             cursor'[v] = 0 /\ \A j \in Worker : worker'[v][j].at = "gone"
                        /\ step'[v] = "parts" =>
                             /\ \A p \in Part : p <= cursor'[v] =>
                                  p \in completed'[v]
                                  \/ \E j \in Worker : Busy(v, j)' /\ worker'[v][j].part = p
                             /\ \A j \in Worker : worker'[v][j].at = "back" => cursor'[v] >= Parts
                        /\ step'[v] = "complete" => completed'[v] = Part
    BY DEF Taken
  <2>2. CASE v = u
    <3>1. step'[u] \notin {"new", "init", "put"}
      BY <1>3 DEF Taken, Busy
    <3>2. step'[u] = "complete" => completed'[u] = Part
      <4>1. HAVE step'[u] = "complete"
      <4>2. completed[u] = Part
        BY <1>3, <4>1 DEF Taken
      <4>3. completed[u] \subseteq completed'[u] /\ completed'[u] \subseteq Part
        OBVIOUS
      <4>4. QED
        BY <4>2, <4>3
    <3>3. QED
      BY <1>3, <2>2, <3>1, <3>2
  <2>3. CASE v # u
    <3>1. \A j \in Worker : worker'[v][j] = worker[v][j]
      BY <1>2, <2>3
    <3>2. cursor'[v] = cursor[v] /\ completed'[v] = completed[v] /\ step'[v] = step[v]
      BY <1>3, <2>3
    <3>3. QED
      BY <3>1, <3>2 DEF Taken, Busy
  <2>4. QED
    BY <2>2, <2>3
<1>6. QED
  BY <1>2, <1>3, <1>4, <1>5

\* A worker goes on with its part, or lays it down completed.
LEMMA WorksTaken ==
  ASSUME Types, Taken, Bodies, NEW u \in Upload, NEW k \in Worker, Busy(u, k),
         NEW w \in WorkerState, worker' = [worker EXCEPT ![u][k] = w],
         \/ w.at \in {"stage", "read", "send"} /\ w.part = worker[u][k].part
         \/ w.at = "idle" /\ worker[u][k].part \in completed'[u],
         w.at = "send" => w.body = Chunks(w.part),
         UNCHANGED <<cursor, step>>, completed' \in [Upload -> SUBSET Part],
         \A v \in Upload : completed[v] \subseteq completed'[v]
  PROVE  Taken' /\ Bodies' /\ worker' \in [Upload -> [Worker -> WorkerState]]
<1>1. /\ worker' \in [Upload -> [Worker -> WorkerState]]
      /\ worker'[u][k] = w
      /\ \A v \in Upload, j \in Worker : v # u \/ j # k => worker'[v][j] = worker[v][j]
  BY WorkerSet DEF Types
<1>2. worker[u][k].part \in Part
  BY DEF Bodies
<1>3. Bodies'
  BY <1>1, <1>2 DEF Bodies, Busy
<1>4. Taken'
  <2>1. SUFFICES ASSUME NEW v \in Upload
                 PROVE  /\ step[v] \in {"new", "init", "put"} =>
                             cursor[v] = 0 /\ \A j \in Worker : worker'[v][j].at = "gone"
                        /\ step[v] = "parts" =>
                             /\ \A p \in Part : p <= cursor[v] =>
                                  p \in completed'[v]
                                  \/ \E j \in Worker : Busy(v, j)' /\ worker'[v][j].part = p
                             /\ \A j \in Worker : worker'[v][j].at = "back" => cursor[v] >= Parts
                        /\ step[v] = "complete" => completed'[v] = Part
    BY DEF Taken
  <2>2. step[v] \in {"new", "init", "put"} =>
          cursor[v] = 0 /\ \A j \in Worker : worker'[v][j].at = "gone"
    BY <1>1 DEF Taken, Busy
  <2>3. ASSUME step[v] = "parts", NEW p \in Part, p <= cursor[v]
        PROVE  p \in completed'[v] \/ \E j \in Worker : Busy(v, j)' /\ worker'[v][j].part = p
    <3>1. CASE p \in completed[v]
      BY <3>1
    <3>2. CASE \E j \in Worker : Busy(v, j) /\ worker[v][j].part = p
      <4>1. PICK j \in Worker : Busy(v, j) /\ worker[v][j].part = p
        BY <3>2
      <4>2. CASE v # u \/ j # k
        BY <1>1, <4>1, <4>2 DEF Busy
      <4>3. CASE v = u /\ j = k
        BY <1>1, <4>1, <4>3 DEF Busy
      <4>4. QED
        BY <4>2, <4>3
    <3>3. QED
      BY <2>3, <3>1, <3>2 DEF Taken
  <2>4. step[v] = "parts" => \A j \in Worker : worker'[v][j].at = "back" => cursor[v] >= Parts
    BY <1>1 DEF Taken
  <2>5. step[v] = "complete" => completed'[v] = Part
    <3>1. HAVE step[v] = "complete"
    <3>2. completed[v] = Part
      BY <3>1 DEF Taken
    <3>3. completed[v] \subseteq completed'[v] /\ completed'[v] \subseteq Part
      OBVIOUS
    <3>4. QED
      BY <3>2, <3>3
  <2>6. QED
    BY <2>2, <2>3, <2>4, <2>5
<1>5. QED
  BY <1>1, <1>3, <1>4

\* A step of another upload's state, or one that only leaves the workers and moves step on.
LEMMA StepTaken ==
  ASSUME Types, Taken, NEW u \in Upload, NEW s, step' = [step EXCEPT ![u] = s],
         s \notin {"new", "parts"}, s \in {"init", "put"} => step[u] \in {"new", "init", "put"},
         s = "complete" => completed[u] = Part,
         UNCHANGED <<cursor, completed, worker>>
  PROVE  Taken'
<1>1. step'[u] = s /\ \A v \in Upload : v # u => step'[v] = step[v]
  BY DEF Types
<1>2. SUFFICES ASSUME NEW v \in Upload
               PROVE  /\ step'[v] \in {"new", "init", "put"} =>
                           cursor[v] = 0 /\ \A j \in Worker : worker[v][j].at = "gone"
                      /\ step'[v] = "parts" =>
                           /\ \A p \in Part : p <= cursor[v] =>
                                p \in completed[v]
                                \/ \E j \in Worker : Busy(v, j) /\ worker[v][j].part = p
                           /\ \A j \in Worker : worker[v][j].at = "back" => cursor[v] >= Parts
                      /\ step'[v] = "complete" => completed[v] = Part
  BY DEF Taken, Busy
<1>3. CASE v = u
  BY <1>1, <1>3 DEF Taken
<1>4. CASE v # u
  BY <1>1, <1>4 DEF Taken
<1>5. QED
  BY <1>3, <1>4

\* The status of a job that is not done says nothing about the bucket.
LEMMA ShowsKept ==
  ASSUME Types, NEW u \in Upload, NEW s \in {"uploading", "finalizing", "error"}, Shows(u, s)
  PROVE  /\ status' \in [Upload -> {"none", "uploading", "finalizing", "done", "error"}]
         /\ \A v \in Upload : status'[v] = "done" => status[v] = "done"
BY DEF Shows, Types

LEMMA DoneKept ==
  ASSUME Types, Kept, NEW u \in Upload, Done(u), UNCHANGED <<page, shown, purge, current>>,
         \A v \in Upload : FilmKey(v) \in objects => FilmKey(v) \in objects',
         FilmKey(u) \in objects', film' = [film EXCEPT ![u] = Whole]
  PROVE  /\ Kept'
         /\ status' \in [Upload -> {"none", "uploading", "finalizing", "done", "error"}]
         /\ step' = [step EXCEPT ![u] = "over"]
         /\ step' \in [Upload -> {"new", "init", "put", "parts", "complete", "abort", "over"}]
         /\ film' = [v \in Upload |-> film'[v]]
<1>1. /\ step' = [step EXCEPT ![u] = "over"] /\ status' = [status EXCEPT ![u] = "done"]
      /\ keyFlag' = u
  BY DEF Done, Ended, Shows
<1>2. /\ film'[u] = Whole /\ \A v \in Upload : v # u => film'[v] = film[v]
      /\ film' = [v \in Upload |-> film'[v]]
  BY DEF Types
<1>3. \A v \in Upload : InBucket(v) => InBucket(v)'
  BY <1>2 DEF InBucket, FilmKey, Whole, Chunks, Part
<1>4. InBucket(u)'
  BY <1>2 DEF InBucket, FilmKey, Whole, Chunks, Part
<1>5. \A v \in Upload : v # u => status'[v] = status[v]
  BY <1>1 DEF Types
<1>6. Kept'
  <2>1. \A v \in Upload : page' # "ended" /\ (status'[v] = "done" \/ keyFlag' = v) => InBucket(v)'
    BY <1>1, <1>3, <1>4, <1>5 DEF Kept
  <2>2. shown' # None => shown' \in Upload /\ page' = "room" /\ InBucket(shown)'
    <3>1. HAVE shown' # None
    <3>2. shown \in Upload /\ page = "room" /\ InBucket(shown) /\ shown' = shown
      BY <3>1 DEF Kept
    <3>3. QED
      BY <1>2, <3>2 DEF InBucket, FilmKey
  <2>3. QED
    BY <2>1, <2>2, <1>1 DEF Kept
<1>7. QED
  BY <1>1, <1>2, <1>6 DEF Types

\* A film put into the bucket, by an upload whose page has not heard of it yet.
LEMMA PutKept ==
  ASSUME Types, Kept, NEW u \in Upload, UNCHANGED <<page, keyFlag, shown, purge, current>>,
         \A v \in Upload : FilmKey(v) \in objects => FilmKey(v) \in objects',
         film' = [film EXCEPT ![u] = Whole] \/ film' = film,
         \A v \in Upload : status'[v] = "done" => status[v] = "done"
  PROVE  Kept' /\ film' = [v \in Upload |-> film'[v]]
<1>1. \A v \in Upload : film'[v] = film[v] \/ film'[v] = Whole
  BY DEF Types
<1>2. \A v \in Upload : InBucket(v) => InBucket(v)'
  BY <1>1 DEF InBucket, FilmKey
<1>3. shown' # None => shown' \in Upload /\ page' = "room" /\ InBucket(shown)'
  <2>1. HAVE shown' # None
  <2>2. shown \in Upload /\ page = "room" /\ InBucket(shown) /\ shown' = shown
    BY <2>1 DEF Kept
  <2>3. QED
    BY <1>1, <2>2 DEF InBucket, FilmKey
<1>4. Kept'
  BY <1>2, <1>3 DEF Kept
<1>5. QED
  BY <1>4 DEF Types

-----------------------------------------------------------------------------
(* The upload, action by action. *)

LEMMA StartInv ==
  ASSUME UploadAssumption, Inv, NEW u \in Upload, Start(u) PROVE Inv'
<1>1. /\ step[u] = "new" /\ page' = "room" /\ page \in {"lobby", "room"} /\ current' = u
      /\ step' = [step EXCEPT ![u] = "init"] /\ Shows(u, "uploading")
      /\ UNCHANGED <<cursor, completed, worker, part, film, keyFlag, shown, purge>>
  BY DEF Start
<1>2. \A v \in Upload : FilmKey(v) \in objects => FilmKey(v) \in objects'
  BY DEF Start, OpenRoom
<1>3. /\ status' \in [Upload -> {"none", "uploading", "finalizing", "done", "error"}]
      /\ \A v \in Upload : status'[v] = "done" => status[v] = "done"
  BY <1>1, ShowsKept DEF Inv
<1>4. Types'
  BY <1>1, <1>3 DEF Inv, Types
<1>5. Bodies' /\ Stored'
  BY <1>1 DEF Inv, Bodies, Busy, Stored, WholeParts
<1>6. Taken'
  BY ZenonT(60), <1>1, StepTaken DEF Inv
<1>7. Kept'
  BY <1>1, <1>2, <1>3 DEF Inv, Kept, InBucket
<1>8. QED
  BY <1>4, <1>5, <1>6, <1>7 DEF Inv

LEMMA InitUploadInv ==
  ASSUME UploadAssumption, Inv, NEW u \in Upload, InitUpload(u) PROVE Inv'
<1>1. /\ step[u] = "init"
      /\ UNCHANGED <<current, cursor, completed, part, objects, film, page, keyFlag, shown, purge>>
  BY DEF InitUpload, pageVars
<1>2. Stored'
  BY <1>1 DEF Inv, Stored, WholeParts
<1>3. CASE step' = [step EXCEPT ![u] = "put"] /\ UNCHANGED <<status, worker>>
  <2>1. Taken'
    BY <1>1, <1>3, StepTaken DEF Inv
  <2>2. Types' /\ Bodies' /\ Kept'
    BY <1>1, <1>3 DEF Inv, Types, Bodies, Busy, Kept, InBucket
  <2>3. QED
    BY <1>2, <2>1, <2>2 DEF Inv
<1>4. CASE /\ step' = [step EXCEPT ![u] = "parts"] /\ UNCHANGED status
           /\ worker' = [worker EXCEPT ![u] = [k \in Worker |-> Idle]]
  <2>1. worker' \in [Upload -> [Worker -> WorkerState]]
    BY <1>4, IdleTypes DEF Inv, Types
  <2>2. /\ \A k \in Worker : worker'[u][k] = Idle
        /\ \A v \in Upload : v # u => worker'[v] = worker[v] /\ step'[v] = step[v]
        /\ step'[u] = "parts"
    BY <1>4 DEF Inv, Types
  <2>3. Bodies'
    BY <2>2, IdleTypes DEF Inv, Bodies, Busy
  <2>4. Taken'
    <3>1. cursor[u] = 0
      BY <1>1 DEF Inv, Taken
    <3>2. \A p \in Part : ~(p <= cursor[u])
      BY <3>1 DEF Part
    <3>3. \A v \in Upload : v # u =>
            /\ step'[v] \in {"new", "init", "put"} =>
                 cursor'[v] = 0 /\ \A j \in Worker : worker'[v][j].at = "gone"
            /\ step'[v] = "parts" =>
                 /\ \A p \in Part : p <= cursor'[v] =>
                      p \in completed'[v]
                      \/ \E j \in Worker : Busy(v, j)' /\ worker'[v][j].part = p
                 /\ \A j \in Worker : worker'[v][j].at = "back" => cursor'[v] >= Parts
            /\ step'[v] = "complete" => completed'[v] = Part
      BY <1>1, <2>2 DEF Inv, Taken, Busy
    <3>4. QED
      BY <1>1, <2>2, <3>2, <3>3, IdleTypes DEF Taken
  <2>5. Types'
    BY <1>1, <1>4, <2>1 DEF Inv, Types
  <2>6. Kept'
    BY <1>1, <1>4 DEF Inv, Kept, InBucket
  <2>7. QED
    BY <1>2, <2>3, <2>4, <2>5, <2>6 DEF Inv
<1>5. CASE Ended(u, "error") /\ UNCHANGED worker
  <2>1. step' = [step EXCEPT ![u] = "over"] /\ Shows(u, "error")
    BY <1>5 DEF Ended
  <2>2. /\ status' \in [Upload -> {"none", "uploading", "finalizing", "done", "error"}]
        /\ \A v \in Upload : status'[v] = "done" => status[v] = "done"
    BY <2>1, ShowsKept DEF Inv
  <2>3. Taken'
    BY <1>1, <1>5, <2>1, StepTaken DEF Inv
  <2>4. Types' /\ Bodies'
    BY <1>1, <1>5, <2>1, <2>2 DEF Inv, Types, Bodies, Busy
  <2>5. Kept'
    BY <1>1, <2>2, KeptSame DEF Inv
  <2>6. QED
    BY <1>2, <2>3, <2>4, <2>5 DEF Inv
<1>6. QED
  BY <1>3, <1>4, <1>5 DEF InitUpload

LEMMA PutInv ==
  ASSUME UploadAssumption, Inv, NEW u \in Upload, Put(u) PROVE Inv'
<1>1. UNCHANGED <<current, cursor, completed, worker, part, page, shown, purge>> /\ step[u] = "put"
  BY DEF Put
<1>2. Stored' /\ Bodies'
  BY <1>1 DEF Inv, Stored, WholeParts, Bodies, Busy
<1>3. CASE PutObject(u) /\ Done(u)
  <2>1. /\ film' = [film EXCEPT ![u] = Whole] /\ FilmKey(u) \in objects'
        /\ \A v \in Upload : FilmKey(v) \in objects => FilmKey(v) \in objects'
    BY <1>3 DEF PutObject
  <2>2. /\ Kept' /\ step' = [step EXCEPT ![u] = "over"]
        /\ status' \in [Upload -> {"none", "uploading", "finalizing", "done", "error"}]
        /\ step' \in [Upload -> {"new", "init", "put", "parts", "complete", "abort", "over"}]
        /\ film' = [v \in Upload |-> film'[v]]
    BY <1>1, <1>3, <2>1, DoneKept DEF Inv
  <2>3. Taken'
    BY <1>1, <2>2, StepTaken DEF Inv
  <2>4. Types'
    BY <1>1, <2>2 DEF Inv, Types
  <2>5. QED
    BY <1>2, <2>2, <2>3, <2>4 DEF Inv
<1>4. CASE Ended(u, "error") /\ UNCHANGED keyFlag /\ (PutObject(u) \/ UNCHANGED <<objects, film>>)
  <2>1. step' = [step EXCEPT ![u] = "over"] /\ Shows(u, "error")
    BY <1>4 DEF Ended
  <2>2. /\ status' \in [Upload -> {"none", "uploading", "finalizing", "done", "error"}]
        /\ \A v \in Upload : status'[v] = "done" => status[v] = "done"
    BY <2>1, ShowsKept DEF Inv
  <2>3. /\ \A v \in Upload : FilmKey(v) \in objects => FilmKey(v) \in objects'
        /\ film' = [film EXCEPT ![u] = Whole] \/ film' = film
    BY <1>4 DEF PutObject
  <2>4. Kept' /\ film' = [v \in Upload |-> film'[v]]
    BY <1>1, <1>4, <2>2, <2>3, PutKept DEF Inv
  <2>5. Taken'
    BY <1>1, <2>1, StepTaken DEF Inv
  <2>6. Types'
    BY <1>1, <2>1, <2>2, <2>4 DEF Inv, Types
  <2>7. QED
    BY <1>2, <2>4, <2>5, <2>6 DEF Inv
<1>5. QED
  BY <1>3, <1>4 DEF Put

LEMMA PickInv ==
  ASSUME UploadAssumption, Inv, NEW u \in Upload, NEW k \in Worker, Pick(u, k) PROVE Inv'
<1> DEFINE w == IF cursor[u] < Parts
                  THEN [worker[u][k] EXCEPT !.at = "stage", !.part = cursor[u] + 1]
                  ELSE [worker[u][k] EXCEPT !.at = "back"]
<1>1. /\ worker[u][k].at = "idle" /\ cursor' = [cursor EXCEPT ![u] = cursor[u] + 1]
      /\ worker' = [worker EXCEPT ![u][k] = w]
      /\ UNCHANGED <<current, status, step, completed, part, objects, film,
                     page, keyFlag, shown, purge>>
  BY DEF Pick, At, storeVars, pageVars
<1>2. worker[u][k] \in WorkerState /\ cursor[u] \in Nat /\ Parts \in Nat
  BY DEF Inv, Types, UploadAssumption
<1>3. /\ w \in WorkerState
      /\ cursor[u] < Parts => w.at = "stage" /\ w.part = cursor[u] + 1 /\ w.part \in Part
      /\ ~(cursor[u] < Parts) => w.at = "back"
  <2>1. CASE cursor[u] < Parts
    <3>1. cursor[u] + 1 \in Part /\ cursor[u] + 1 \in {None} \cup Part
      BY <1>2, <2>1 DEF Part
    <3>2. w = [worker[u][k] EXCEPT !.at = "stage", !.part = cursor[u] + 1]
      BY <2>1
    <3>3. w \in WorkerState /\ w.at = "stage" /\ w.part = cursor[u] + 1
      BY <1>2, <3>1, <3>2 DEF WorkerState
    <3>4. QED
      BY <2>1, <3>1, <3>3
  <2>2. CASE ~(cursor[u] < Parts)
    BY <1>2, <2>2 DEF WorkerState
  <2>3. QED
    BY <2>1, <2>2
<1> HIDE DEF w
<1>4. /\ worker' \in [Upload -> [Worker -> WorkerState]]
      /\ worker'[u][k] = w
      /\ \A v \in Upload, j \in Worker : v # u \/ j # k => worker'[v][j] = worker[v][j]
  BY <1>1, <1>3, WorkerSet DEF Inv, Types
<1>5. /\ cursor'[u] = cursor[u] + 1 /\ cursor' \in [Upload -> Nat]
      /\ \A v \in Upload : v # u => cursor'[v] = cursor[v]
  BY <1>1, <1>2 DEF Inv, Types
<1>6. Bodies'
  BY <1>2, <1>3, <1>4 DEF Inv, Bodies, Busy
<1>7. Stored' /\ Kept'
  BY <1>1 DEF Inv, Stored, WholeParts, Kept, InBucket
<1>8. Types'
  BY <1>1, <1>4, <1>5 DEF Inv, Types
<1>9. Taken'
  <2>1. step[u] \notin {"new", "init", "put"}
    BY <1>1 DEF Inv, Taken
  <2>2. ASSUME step[u] = "parts", NEW p \in Part, p <= cursor'[u]
        PROVE  p \in completed[u] \/ \E j \in Worker : Busy(u, j)' /\ worker'[u][j].part = p
    <3>1. CASE p <= cursor[u]
      <4>1. p \in completed[u] \/ \E j \in Worker : Busy(u, j) /\ worker[u][j].part = p
        BY <2>2, <3>1 DEF Inv, Taken
      <4>2. ~Busy(u, k)
        BY <1>1 DEF Busy
      <4>3. QED
        BY <1>4, <4>1, <4>2 DEF Busy
    <3>2. CASE ~(p <= cursor[u])
      <4>1. p = cursor[u] + 1 /\ cursor[u] < Parts
        BY <1>2, <1>5, <2>2, <3>2 DEF Part
      <4>2. QED
        BY <1>3, <1>4, <4>1 DEF Busy
    <3>3. QED
      BY <3>1, <3>2
  <2>3. step[u] = "parts" => \A j \in Worker : worker'[u][j].at = "back" => cursor'[u] >= Parts
    <3>1. ASSUME step[u] = "parts", NEW j \in Worker, worker'[u][j].at = "back"
          PROVE  cursor[u] >= Parts
      <4>1. CASE j = k
        BY <1>2, <1>3, <1>4, <3>1, <4>1
      <4>2. CASE j # k
        BY <1>4, <3>1, <4>2 DEF Inv, Taken
      <4>3. QED
        BY <4>1, <4>2
    <3>2. QED
      BY <1>2, <1>5, <3>1
  <2>4. \A v \in Upload : v # u =>
            /\ step'[v] \in {"new", "init", "put"} =>
                 cursor'[v] = 0 /\ \A j \in Worker : worker'[v][j].at = "gone"
            /\ step'[v] = "parts" =>
                 /\ \A p \in Part : p <= cursor'[v] =>
                      p \in completed'[v]
                      \/ \E j \in Worker : Busy(v, j)' /\ worker'[v][j].part = p
                 /\ \A j \in Worker : worker'[v][j].at = "back" => cursor'[v] >= Parts
            /\ step'[v] = "complete" => completed'[v] = Part
    BY <1>1, <1>4, <1>5 DEF Inv, Taken, Busy
  <2>5. step[u] = "complete" => completed[u] = Part
    BY DEF Inv, Taken
  <2>6. QED
    BY <1>1, <2>1, <2>2, <2>3, <2>4, <2>5 DEF Taken
<1>10. QED
  BY <1>6, <1>7, <1>8, <1>9 DEF Inv

\* A request of a worker that fails.
LEMMA ThrowsInv ==
  ASSUME UploadAssumption, Inv, NEW u \in Upload, NEW k \in Worker, Throws(u, k), Busy(u, k),
         UNCHANGED <<current, cursor, completed, film, page, keyFlag, shown, purge, status>>,
         \A v \in Upload : FilmKey(v) \in objects => FilmKey(v) \in objects',
         Stored', part' \in [Upload -> [Part -> Bytes]]
  PROVE  Inv'
<1>1. /\ Taken' /\ Bodies'
      /\ worker' \in [Upload -> [Worker -> WorkerState]]
      /\ step' \in [Upload -> {"new", "init", "put", "parts", "complete", "abort", "over"}]
  <2>1. /\ \A v \in Upload : completed[v] \subseteq completed'[v]
        /\ completed' \in [Upload -> SUBSET Part]
        /\ \A v \in Upload : v # u => completed'[v] = completed[v]
    BY DEF Inv, Types
  <2>2. QED
    BY <2>1, ThrowsTaken DEF Inv
<1>2. Types'
  BY <1>1 DEF Inv, Types
<1>3. Kept'
  BY KeptSame DEF Inv
<1>4. QED
  BY <1>1, <1>2, <1>3 DEF Inv

LEMMA StageInv ==
  ASSUME UploadAssumption, Inv, NEW u \in Upload, NEW k \in Worker, Stage(u, k) PROVE Inv'
<1> DEFINE w == worker[u][k]
           c == Chunks(w.part)[w.chunk + 1]
           last == w.chunk + 1 = Len(Chunks(w.part))
           n == [w EXCEPT !.at = IF last THEN "read" ELSE "stage",
                          !.chunk = IF last THEN 0 ELSE w.chunk + 1]
<1>1. /\ w.at = "stage" /\ UNCHANGED <<current, cursor, completed, part, film, page, keyFlag, shown, purge>>
      /\ \/ /\ PutChunk(u, c) /\ Shows(u, "uploading")
            /\ worker' = [worker EXCEPT ![u][k] = n] /\ UNCHANGED step
         \/ Throws(u, k) /\ UNCHANGED <<objects, status>>
  <2>1. w.at = "stage" /\ UNCHANGED <<current, cursor, completed, part, film, page, keyFlag, shown, purge>>
    BY DEF Stage, At, pageVars
  <2>2. \/ /\ PutChunk(u, c) /\ Shows(u, "uploading")
           /\ worker' = [worker EXCEPT ![u][k] = n] /\ UNCHANGED step
        \/ Throws(u, k) /\ UNCHANGED <<objects, status>>
    BY Zenon DEF Stage
  <2>3. QED
    BY <2>1, <2>2
<1>2. w \in WorkerState /\ Busy(u, k)
  BY <1>1 DEF Inv, Types, Busy
<1>3. Stored' /\ part' \in [Upload -> [Part -> Bytes]]
  BY <1>1 DEF Inv, Types, Stored, WholeParts
<1>4. CASE /\ PutChunk(u, c) /\ Shows(u, "uploading")
           /\ worker' = [worker EXCEPT ![u][k] = n] /\ UNCHANGED step
  <2>1. n \in WorkerState /\ n.at \in {"stage", "read"} /\ n.part = w.part
    <3>1. w.chunk \in Nat
      BY <1>2 DEF WorkerState
    <3> DEFINE a == IF last THEN "read" ELSE "stage"
               i == IF last THEN 0 ELSE w.chunk + 1
    <3>2. a \in {"stage", "read"} /\ i \in Nat
      BY <3>1
    <3>3. n = [w EXCEPT !.at = a, !.chunk = i]
      OBVIOUS
    <3> HIDE DEF a, i, n, w
    <3>4. QED
      BY <1>2, <3>2, <3>3 DEF WorkerState
  <2> HIDE DEF n, c, last
  <2>2. Taken' /\ Bodies' /\ worker' \in [Upload -> [Worker -> WorkerState]]
    <3>1. /\ \A v \in Upload : completed[v] \subseteq completed'[v]
          /\ completed' \in [Upload -> SUBSET Part]
      BY <1>1 DEF Inv, Types
    <3>2. UNCHANGED <<cursor, step>> /\ n.at # "send"
      BY <1>1, <1>4, <2>1
    <3>3. QED
      BY <1>2, <1>4, <2>1, <3>1, <3>2, WorksTaken DEF Inv
  <2>3. /\ status' \in [Upload -> {"none", "uploading", "finalizing", "done", "error"}]
        /\ \A v \in Upload : status'[v] = "done" => status[v] = "done"
    BY <1>4, ShowsKept DEF Inv
  <2>4. Types'
    BY <1>1, <1>4, <2>2, <2>3 DEF Inv, Types
  <2>5. \A v \in Upload : FilmKey(v) \in objects => FilmKey(v) \in objects'
    BY <1>4 DEF PutChunk
  <2>6. Kept'
    BY <1>1, <2>3, <2>5, KeptSame DEF Inv
  <2>7. QED
    BY <1>3, <2>2, <2>4, <2>6 DEF Inv
<1>5. CASE Throws(u, k) /\ UNCHANGED <<objects, status>>
  BY <1>1, <1>2, <1>3, <1>5, ThrowsInv
<1>6. QED
  BY <1>1, <1>4, <1>5

LEMMA CommitReadInv ==
  ASSUME UploadAssumption, Inv, NEW u \in Upload, NEW k \in Worker, CommitRead(u, k) PROVE Inv'
<1> DEFINE w == worker[u][k]
           n == [w EXCEPT !.at = "send", !.body = Chunks(w.part)]
<1>1. /\ w.at = "read"
      /\ UNCHANGED <<current, status, cursor, completed, part, objects, film, page, keyFlag,
                     shown, purge>>
      /\ (worker' = [worker EXCEPT ![u][k] = n] /\ UNCHANGED step) \/ Throws(u, k)
  BY DEF CommitRead, At, storeVars, pageVars
<1>2. w \in WorkerState /\ Busy(u, k) /\ w.part \in Part
  BY <1>1 DEF Inv, Types, Bodies, Busy
<1>3. Stored' /\ part' \in [Upload -> [Part -> Bytes]]
  BY <1>1 DEF Inv, Types, Stored, WholeParts
<1>4. CASE worker' = [worker EXCEPT ![u][k] = n] /\ UNCHANGED step
  <2>1. Chunks(w.part) \in Bytes
    BY <1>2, ChunksTypes DEF UploadAssumption
  <2>2. n \in WorkerState /\ n.at = "send" /\ n.part = w.part /\ n.body = Chunks(n.part)
    <3> DEFINE b == Chunks(w.part)
    <3>1. n = [w EXCEPT !.at = "send", !.body = b] /\ b \in Bytes
      BY <2>1
    <3> HIDE DEF b, n, w
    <3>2. n \in WorkerState /\ n.at = "send" /\ n.part = w.part /\ n.body = b
      BY <1>2, <3>1 DEF WorkerState
    <3>3. QED
      BY <3>2 DEF b
  <2> HIDE DEF n
  <2>3. /\ \A v \in Upload : completed[v] \subseteq completed'[v]
        /\ completed' \in [Upload -> SUBSET Part]
    BY <1>1 DEF Inv, Types
  <2>4. Taken' /\ Bodies' /\ worker' \in [Upload -> [Worker -> WorkerState]]
    BY <1>1, <1>2, <1>4, <2>2, <2>3, WorksTaken DEF Inv
  <2>5. Types' /\ Kept'
    BY <1>1, <1>4, <2>4 DEF Inv, Types, Kept, InBucket
  <2>6. QED
    BY <1>3, <2>4, <2>5 DEF Inv
<1>5. CASE Throws(u, k)
  BY <1>1, <1>2, <1>3, <1>5, ThrowsInv
<1>6. QED
  BY <1>1, <1>4, <1>5

LEMMA CommitSendInv ==
  ASSUME UploadAssumption, Inv, NEW u \in Upload, NEW k \in Worker, CommitSend(u, k) PROVE Inv'
<1> DEFINE w == worker[u][k]
           staged == {ChunkKey(u, c) : c \in ToSet(Chunks(w.part))}
           sent == part' = [part EXCEPT ![u][w.part] = w.body]
           counted == completed' = [completed EXCEPT ![u] = @ \cup {w.part}]
<1>1. /\ w.at = "send"
      /\ UNCHANGED <<current, status, cursor, film, page, keyFlag, shown, purge>>
      /\ objects' = objects \/ objects' = objects \ staged
      /\ \/ sent /\ counted /\ worker' = [worker EXCEPT ![u][k] = Idle] /\ UNCHANGED step
         \/ sent /\ Throws(u, k) /\ UNCHANGED completed
         \/ UNCHANGED part /\ Throws(u, k) /\ UNCHANGED completed
  BY DEF CommitSend, At, UploadPart, pageVars
<1>2. w \in WorkerState /\ Busy(u, k) /\ w.part \in Part /\ w.body = Chunks(w.part)
  BY <1>1 DEF Inv, Types, Bodies, Busy
<1>3. \A v \in Upload : FilmKey(v) \in objects => FilmKey(v) \in objects'
  BY <1>1, KeysDiffer
<1>4. w.body \in Bytes
  BY <1>2 DEF WorkerState
<1>5. ASSUME sent
      PROVE  /\ part' \in [Upload -> [Part -> Bytes]]
             /\ part'[u][w.part] = Chunks(w.part)
             /\ \A v \in Upload, p \in Part : v # u \/ p # w.part => part'[v][p] = part[v][p]
  <2>1. part' = [part EXCEPT ![u] = [part[u] EXCEPT ![w.part] = w.body]]
    BY <1>5
  <2>2. part[u] \in [Part -> Bytes] /\ part \in [Upload -> [Part -> Bytes]]
    BY DEF Inv, Types
  <2>3. [part[u] EXCEPT ![w.part] = w.body] \in [Part -> Bytes]
    BY <1>4, <2>2
  <2>4. QED
    BY <1>2, <2>1, <2>2, <2>3
<1> HIDE DEF sent, staged
<1>6. ASSUME sent, UNCHANGED completed PROVE Stored'
  <2>1. WholeParts'
    BY ZenonT(60), <1>5, <1>6 DEF Inv, Stored, WholeParts, Chunks, Part
  <2>2. \A v \in Upload : \A p \in completed[v] : part'[v][p] = Chunks(p)
    BY ZenonT(60), <1>5, <1>6 DEF Inv, Stored, Types
  <2>3. QED
    BY <1>6, <2>1, <2>2 DEF Stored, Chunks
<1>7. CASE sent /\ counted /\ worker' = [worker EXCEPT ![u][k] = Idle] /\ UNCHANGED step
  <2>1. /\ completed' \in [Upload -> SUBSET Part]
        /\ completed'[u] = completed[u] \cup {w.part}
        /\ \A v \in Upload : v # u => completed'[v] = completed[v]
        /\ \A v \in Upload : completed[v] \subseteq completed'[v]
    BY <1>2, <1>7 DEF Inv, Types
  <2>2. WholeParts'
    BY ZenonT(60), <1>5, <1>7 DEF Inv, Stored, WholeParts, Chunks, Part
  <2>3. \A v \in Upload : \A p \in completed'[v] : part'[v][p] = Chunks(p)
    BY <1>5, <1>7, <2>1 DEF Inv, Stored, Types
  <2>4. Stored'
    BY <2>2, <2>3 DEF Stored, Chunks
  <2>5. Taken' /\ Bodies' /\ worker' \in [Upload -> [Worker -> WorkerState]]
    <3>1. w.part \in completed'[u] /\ Idle.at # "send" /\ UNCHANGED <<cursor, step>>
      BY <1>1, <1>7, <2>1, IdleTypes
    <3>2. QED
      BY <1>2, <1>7, <2>1, <3>1, IdleTypes, WorksTaken DEF Inv
  <2>6. Types'
    BY <1>1, <1>5, <1>7, <2>1, <2>5 DEF Inv, Types
  <2>7. Kept'
    BY <1>1, <1>3, KeptSame DEF Inv
  <2>8. QED
    BY <2>4, <2>5, <2>6, <2>7 DEF Inv
<1>8. CASE sent /\ Throws(u, k) /\ UNCHANGED completed
  BY <1>1, <1>2, <1>3, <1>5, <1>6, <1>8, ThrowsInv
<1>9. CASE UNCHANGED part /\ Throws(u, k) /\ UNCHANGED completed
  <2>1. Stored' /\ part' \in [Upload -> [Part -> Bytes]]
    BY <1>9 DEF Inv, Types, Stored, WholeParts
  <2>2. QED
    BY <1>1, <1>2, <1>3, <1>9, <2>1, ThrowsInv
<1>10. QED
  BY <1>1, <1>7, <1>8, <1>9

\* When all workers are back, every part has been taken and none is in anybody's hands.
LEMMA AllBackInv ==
  ASSUME UploadAssumption, Inv, NEW u \in Upload, AllBack(u) PROVE Inv'
<1>1. /\ step[u] = "parts" /\ \A k \in Worker : worker[u][k].at = "back"
      /\ step' = [step EXCEPT ![u] = "complete"] /\ Shows(u, "finalizing")
      /\ UNCHANGED <<current, cursor, completed, worker, part, objects, film,
                     page, keyFlag, shown, purge>>
  BY DEF AllBack, storeVars, pageVars
<1>2. completed[u] = Part
  <2>1. cursor[u] >= Parts
    BY <1>1 DEF Inv, Taken, UploadAssumption
  <2>2. ASSUME NEW p \in Part PROVE p \in completed[u]
    <3>1. p <= cursor[u]
      BY <2>1 DEF Part, Inv, Types, UploadAssumption
    <3>2. p \in completed[u] \/ \E j \in Worker : Busy(u, j) /\ worker[u][j].part = p
      BY <1>1, <3>1 DEF Inv, Taken
    <3>3. QED
      BY <1>1, <3>2 DEF Busy
  <2>3. completed[u] \subseteq Part
    BY DEF Inv, Types
  <2>4. QED
    BY <2>2, <2>3
<1>3. Taken'
  BY ZenonT(60), <1>1, <1>2, StepTaken DEF Inv
<1>4. /\ status' \in [Upload -> {"none", "uploading", "finalizing", "done", "error"}]
      /\ \A v \in Upload : status'[v] = "done" => status[v] = "done"
  BY <1>1, ShowsKept DEF Inv
<1>5. Types' /\ Bodies' /\ Stored'
  BY <1>1, <1>4 DEF Inv, Types, Bodies, Busy, Stored, WholeParts
<1>6. Kept'
  BY <1>1, <1>4, KeptSame DEF Inv
<1>7. QED
  BY <1>3, <1>5, <1>6 DEF Inv

\* R2 joins all parts, each of them whole.
LEMMA JoinsWhole ==
  ASSUME Stored, Types, NEW u \in Upload, completed[u] = Part, JoinParts(u)
  PROVE  /\ film' = [film EXCEPT ![u] = Whole] /\ FilmKey(u) \in objects'
         /\ \A v \in Upload : FilmKey(v) \in objects => FilmKey(v) \in objects'
<1> DEFINE named == [p \in Part |-> IF p \in completed[u] THEN part[u][p] ELSE <<>>]
<1>1. \A p \in Part : named[p] = Chunks(p)
  BY DEF Stored
<1>2. named = [p \in Part |-> Chunks(p)]
  BY <1>1
<1>3. film' = [film EXCEPT ![u] = FlattenSeq(named)]
  BY DEF JoinParts
<1> HIDE DEF named
<1>4. film' = [film EXCEPT ![u] = Whole]
  BY <1>2, <1>3 DEF Whole
<1>5. QED
  BY <1>4 DEF JoinParts

LEMMA CompleteInv ==
  ASSUME UploadAssumption, Inv, NEW u \in Upload, Complete(u) PROVE Inv'
<1>1. /\ step[u] = "complete"
      /\ UNCHANGED <<current, cursor, completed, worker, part, page, shown, purge>>
  BY DEF Complete
<1>2. completed[u] = Part
  BY <1>1 DEF Inv, Taken
<1>3. Bodies' /\ Stored'
  BY <1>1 DEF Inv, Bodies, Busy, Stored, WholeParts
<1>4. CASE JoinParts(u) /\ Done(u)
  <2>1. /\ film' = [film EXCEPT ![u] = Whole] /\ FilmKey(u) \in objects'
        /\ \A v \in Upload : FilmKey(v) \in objects => FilmKey(v) \in objects'
    BY <1>2, <1>4, JoinsWhole DEF Inv
  <2>2. /\ Kept' /\ step' = [step EXCEPT ![u] = "over"]
        /\ status' \in [Upload -> {"none", "uploading", "finalizing", "done", "error"}]
        /\ step' \in [Upload -> {"new", "init", "put", "parts", "complete", "abort", "over"}]
        /\ film' = [v \in Upload |-> film'[v]]
    BY <1>1, <1>4, <2>1, DoneKept DEF Inv
  <2>3. Taken'
    BY <1>1, <2>2, StepTaken DEF Inv
  <2>4. Types'
    BY <1>1, <2>2 DEF Inv, Types
  <2>5. QED
    BY <1>3, <2>2, <2>3, <2>4 DEF Inv
<1>5. CASE /\ JoinParts(u) \/ UNCHANGED <<mp, objects, film>>
           /\ step' = [step EXCEPT ![u] = "abort"] /\ UNCHANGED <<status, keyFlag>>
  <2>1. /\ film' = [film EXCEPT ![u] = Whole] \/ film' = film
        /\ \A v \in Upload : FilmKey(v) \in objects => FilmKey(v) \in objects'
    BY <1>2, <1>5, JoinsWhole DEF Inv
  <2>2. Kept' /\ film' = [v \in Upload |-> film'[v]]
    BY <1>1, <1>5, <2>1, PutKept DEF Inv
  <2>3. Taken'
    <3>1. step' = [step EXCEPT ![u] = "abort"] /\ UNCHANGED <<cursor, completed, worker>>
      BY <1>1, <1>5
    <3>2. QED
      BY <3>1, StepTaken DEF Inv
  <2>4. Types'
    BY <1>1, <1>5, <2>2 DEF Inv, Types
  <2>5. QED
    BY <1>3, <2>2, <2>3, <2>4 DEF Inv
<1>6. QED
  BY <1>4, <1>5 DEF Complete

LEMMA AbortInv ==
  ASSUME UploadAssumption, Inv, NEW u \in Upload, Abort(u) PROVE Inv'
<1>1. /\ step' = [step EXCEPT ![u] = "over"] /\ Shows(u, "error")
      /\ UNCHANGED <<current, cursor, completed, worker, part, objects, film,
                     page, keyFlag, shown, purge>>
  BY DEF Abort, Ended, pageVars
<1>2. Taken'
  BY <1>1, StepTaken DEF Inv
<1>3. /\ status' \in [Upload -> {"none", "uploading", "finalizing", "done", "error"}]
      /\ \A v \in Upload : status'[v] = "done" => status[v] = "done"
  BY <1>1, ShowsKept DEF Inv
<1>4. Types' /\ Bodies' /\ Stored'
  BY ZenonT(60), <1>1, <1>3 DEF Inv, Types, Bodies, Busy, Stored, WholeParts
<1>5. Kept'
  BY <1>1, <1>3, KeptSame DEF Inv
<1>6. QED
  BY <1>2, <1>4, <1>5 DEF Inv

-----------------------------------------------------------------------------
(* The page, action by action. *)

\* Steps that leave the job and the store alone.
LEMMA PageInv ==
  ASSUME Inv, UNCHANGED <<status, step, cursor, completed, worker, part, film>>, Kept',
         page' \in {"lobby", "room", "ended"}
  PROVE  Inv'
BY DEF Inv, Types, Bodies, Busy, Stored, WholeParts, Taken

LEMMA ApplyInv == ASSUME Inv, Apply PROVE Inv'
<1>1. /\ page = "room" /\ current # None /\ status[current] = "done" /\ shown' = current
      /\ current' = None
      /\ UNCHANGED <<status, step, cursor, completed, worker, part, film, objects,
                     page, keyFlag, purge>>
  BY DEF Apply, storeVars
<1>2. current \in Upload /\ InBucket(current)
  BY <1>1 DEF Inv, Kept
<1>3. Kept'
  BY <1>1, <1>2 DEF Inv, Kept, InBucket, FilmKey
<1>4. QED
  BY <1>1, <1>3, PageInv DEF Inv, Types

LEMMA ReloadInv == ASSUME UploadAssumption, Inv, Reload PROVE Inv'
<1>1. /\ page = "room" /\ current' = None /\ shown' = keyFlag
      /\ step' = [u \in Upload |-> IF step[u] = "new" THEN "new" ELSE "over"]
      /\ status' = [u \in Upload |-> "none"]
      /\ worker' = [u \in Upload |-> [k \in Worker |-> Gone]]
      /\ UNCHANGED <<cursor, completed, part, film, objects, page, keyFlag, purge>>
  BY DEF Reload, storeVars
<1>2. worker' \in [Upload -> [Worker -> WorkerState]]
  BY <1>1, IdleTypes
<1>3. Types'
  BY <1>1, <1>2 DEF Inv, Types
<1>4. Bodies' /\ Stored'
  BY <1>1, IdleTypes DEF Inv, Bodies, Busy, Stored, WholeParts
<1>5. Taken'
  BY <1>1, IdleTypes DEF Inv, Taken
<1>6. Kept'
  <2>1. keyFlag # None => keyFlag \in Upload /\ InBucket(keyFlag)
    BY <1>1 DEF Inv, Kept
  <2>2. \A u \in Upload : InBucket(u) => InBucket(u)'
    BY <1>1 DEF InBucket
  <2>3. \A u \in Upload : status'[u] # "done"
    BY <1>1
  <2>4. \A u \in Upload : page' # "ended" /\ (status'[u] = "done" \/ keyFlag' = u) => InBucket(u)'
    BY <1>1, <2>2, <2>3 DEF Inv, Kept
  <2>5. shown' # None => shown' \in Upload /\ page' = "room" /\ InBucket(shown)'
    BY <1>1, <2>1 DEF InBucket, FilmKey
  <2>6. QED
    BY <1>1, <2>4, <2>5 DEF Inv, Kept
<1>7. QED
  BY <1>3, <1>4, <1>5, <1>6 DEF Inv

LEMMA EndSessionInv == ASSUME Inv, EndSession PROVE Inv'
<1>1. /\ page' = "ended" /\ shown' = None
      /\ UNCHANGED <<current, status, step, cursor, completed, worker, part, film, objects, keyFlag>>
  BY DEF EndSession, jobVars, storeVars
<1>2. Kept'
  BY <1>1 DEF Inv, Kept
<1>3. QED
  BY <1>1, <1>2, PageInv

LEMMA PurgeInv == ASSUME Inv, PurgeList \/ PurgeDelete PROVE Inv'
<1>1. /\ purge.at # "none"
      /\ UNCHANGED <<current, status, step, cursor, completed, worker, part, film,
                     page, keyFlag, shown>>
  BY DEF PurgeList, PurgeDelete, jobVars, storeVars
<1>2. page = "ended"
  BY <1>1 DEF Inv, Kept
<1>3. shown = None
  BY <1>2 DEF Inv, Kept
<1>4. Kept'
  BY <1>1, <1>2, <1>3 DEF Inv, Kept
<1>5. QED
  BY <1>1, <1>4, PageInv DEF Inv, Types

LEMMA PlayInv == ASSUME Inv, Play PROVE Inv'
<1>1. UNCHANGED <<jobVars, storeVars, page, keyFlag, shown, purge>>
  BY DEF Play
<1>2. Kept'
  BY <1>1 DEF Inv, Kept, InBucket, jobVars, storeVars
<1>3. QED
  BY <1>1, <1>2, PageInv DEF Inv, Types, jobVars, storeVars

-----------------------------------------------------------------------------
(* The theorems. *)

LEMMA InvInit == ASSUME UploadAssumption, Init PROVE Inv
<1>1. <<>> \in Bytes
  BY DEF Bytes
<1>2. Types
  BY <1>1, IdleTypes DEF Init, Types, UploadAssumption
<1>3. Bodies
  BY IdleTypes DEF Init, Bodies, Busy
<1>4. Stored
  BY DEF Init, Stored, WholeParts
<1>5. Taken
  BY IdleTypes DEF Init, Taken
<1>6. Kept
  BY DEF Init, Kept, None, Upload
<1>7. QED
  BY <1>2, <1>3, <1>4, <1>5, <1>6 DEF Inv

LEMMA InvStep == ASSUME UploadAssumption, Inv, [Next]_vars PROVE Inv'
<1>1. ASSUME NEW u \in Upload, Start(u) PROVE Inv'
  BY <1>1, StartInv
<1>2. ASSUME NEW u \in Upload, Uploads(u) PROVE Inv'
  <2>1. CASE InitUpload(u)
    BY <2>1, InitUploadInv
  <2>2. CASE Put(u)
    BY <2>2, PutInv
  <2>3. CASE AllBack(u)
    BY <2>3, AllBackInv
  <2>4. CASE Complete(u)
    BY <2>4, CompleteInv
  <2>5. CASE Abort(u)
    BY <2>5, AbortInv
  <2>6. ASSUME NEW k \in Worker, Pick(u, k) \/ Stage(u, k) \/ CommitRead(u, k) \/ CommitSend(u, k)
        PROVE  Inv'
    BY <2>6, PickInv, StageInv, CommitReadInv, CommitSendInv
  <2>7. QED
    BY <1>2, <2>1, <2>2, <2>3, <2>4, <2>5, <2>6 DEF Uploads
<1>3. CASE Apply
  BY <1>3, ApplyInv
<1>4. CASE Reload
  BY <1>4, ReloadInv
<1>5. CASE EndSession
  BY <1>5, EndSessionInv
<1>6. CASE PurgeList \/ PurgeDelete
  BY <1>6, PurgeInv
<1>7. CASE Play
  BY <1>7, PlayInv
<1>8. CASE UNCHANGED vars
  <2>1. UNCHANGED <<jobVars, storeVars, pageVars>>
    BY <1>8 DEF vars
  <2>2. UNCHANGED <<current, status, step, cursor, completed, worker, part, film, objects,
                    page, keyFlag, shown, purge>>
    BY <2>1 DEF jobVars, storeVars, pageVars
  <2>3. Kept'
    BY <2>2 DEF Inv, Kept, InBucket
  <2>4. QED
    BY <2>2, <2>3, PageInv DEF Inv, Types
<1>9. QED
  BY <1>1, <1>2, <1>3, <1>4, <1>5, <1>6, <1>7, <1>8 DEF Next

\* Every part at R2 is made of all its chunks or not there, and what the client counts as
\* completed is there (commit-part reads all chunks of a part before it sends any).
THEOREM PartsAreWhole == Spec => []WholeParts
<1>1. Inv => WholeParts
  BY DEF Inv, Stored
<1>2. QED
  BY <1>1, InvInit, InvStep, UploadAssumption, PTL DEF Spec

\* The film on the host's stage is in the bucket and whole, however its workers raced, whatever
\* failed and however often the room was reloaded (uploadFileToR2 waits for all its workers).
THEOREM StageIsWhole == Spec => []ShownIsWhole
<1>1. Inv => ShownIsWhole
  BY DEF Inv, Kept, InBucket, ShownIsWhole
<1>2. QED
  BY <1>1, InvInit, InvStep, UploadAssumption, PTL DEF Spec

-----------------------------------------------------------------------------
(* Induction over the parts.  The induction theorems of the library take    *)
(* the property as an operator; here it is a set, and that the set is Nat   *)
(* follows because the intervals 0..n are well founded.                     *)

LEMMA InductiveSet ==
  ASSUME NEW S \in SUBSET Nat, 0 \in S, \A n \in S : n + 1 \in S
  PROVE  S = Nat
<1> SUFFICES ASSUME Nat \ S # {} PROVE FALSE
  OBVIOUS
<1> DEFINE T == {0..n : n \in Nat \ S}
<1>1. T # {}
  OBVIOUS
<1>2. T \subseteq FiniteSubsetsOf(Nat)
  <2>1. \A n \in Nat : IsFiniteSet(0..n) /\ 0..n \subseteq Nat
    BY FS_Interval
  <2>2. QED
    BY <2>1 DEF FiniteSubsetsOf
<1>3. PICK x \in T : \A y \in T : ~(<<y, x>> \in StrictSubsetOrdering(Nat))
  <2> HIDE DEF T
  <2>1. QED
    BY <1>1, <1>2, FS_StrictSubsetOrderingWellFounded, WFMin
<1>4. PICK n \in Nat \ S : x = 0..n
  OBVIOUS
<1>5. n - 1 \in Nat /\ (n - 1) + 1 = n
  <2>1. n # 0
    OBVIOUS
  <2>2. QED
    BY <2>1
<1>6. n - 1 \in Nat \ S
  BY <1>5
<1>7. 0..(n - 1) \in T
  BY <1>6
<1>8. /\ 0..(n - 1) \subseteq Nat /\ 0..n \subseteq Nat
      /\ 0..(n - 1) \subseteq 0..n /\ 0..(n - 1) # 0..n
  <2>1. n \in 0..n /\ n \notin 0..(n - 1)
    OBVIOUS
  <2>2. QED
    BY <2>1
<1>9. <<0..(n - 1), 0..n>> \in StrictSubsetOrdering(Nat)
  BY <1>8 DEF StrictSubsetOrdering
<1>10. QED
  BY <1>3, <1>4, <1>7, <1>9

\* g joins the first i of the sequences in s, for each i up to n.
Joins(g, s, n) == g = [i \in 1..n |-> IF i = 1 THEN s[i] ELSE g[i - 1] \o s[i]]

LEMMA JoinsExists == ASSUME NEW s, NEW n \in Nat PROVE \E g : Joins(g, s, n)
<1> DEFINE S == {m \in Nat : \E g : Joins(g, s, m)}
<1>1. 0 \in S
  <2>1. [i \in 1..0 |-> 0] = [i \in 1..0 |-> IF i = 1 THEN s[i] ELSE [j \in 1..0 |-> 0][i - 1] \o s[i]]
    OBVIOUS
  <2>2. QED
    BY <2>1 DEF Joins
<1>2. ASSUME NEW m \in S PROVE m + 1 \in S
  <2>1. PICK g : Joins(g, s, m)
    OBVIOUS
  <2> DEFINE e == IF m = 0 THEN s[1] ELSE g[m] \o s[m + 1]
             h == [i \in 1..(m + 1) |-> IF i = m + 1 THEN e ELSE g[i]]
  <2>2. ASSUME NEW i \in 1..(m + 1) PROVE h[i] = IF i = 1 THEN s[i] ELSE h[i - 1] \o s[i]
    <3>1. CASE i = m + 1 /\ m = 0
      BY <3>1
    <3>2. CASE i = m + 1 /\ m # 0
      <4>1. m \in 1..(m + 1) /\ m # m + 1 /\ i # 1 /\ i - 1 = m
        BY <3>2
      <4>2. h[m] = g[m] /\ h[i] = g[m] \o s[m + 1]
        BY <3>2, <4>1
      <4> HIDE DEF h, e
      <4>3. QED
        BY <3>2, <4>1, <4>2
    <3>3. CASE i # m + 1
      <4>1. i \in 1..m /\ h[i] = g[i]
        BY <3>3
      <4>2. g[i] = IF i = 1 THEN s[i] ELSE g[i - 1] \o s[i]
        BY <2>1, <4>1 DEF Joins
      <4>3. i # 1 => h[i - 1] = g[i - 1]
        BY <4>1
      <4> HIDE DEF h, e
      <4>4. QED
        BY <4>1, <4>2, <4>3
    <3>4. QED
      BY <3>1, <3>2, <3>3
  <2>3. h = [i \in 1..(m + 1) |-> h[i]]
    OBVIOUS
  <2> HIDE DEF h, e
  <2>4. Joins(h, s, m + 1)
    BY <2>2, <2>3 DEF Joins
  <2>5. QED
    BY <2>4
<1>3. S \in SUBSET Nat
  OBVIOUS
<1> HIDE DEF S
<1>4. n \in S
  BY <1>1, <1>2, <1>3, InductiveSet
<1>5. QED
  BY <1>4 DEF S

\* FlattenSeq joins them one after the other.
LEMMA FlattenJoins ==
  ASSUME NEW s, NEW n \in Nat \ {0}, Len(s) = n
  PROVE  \E g : Joins(g, s, n) /\ FlattenSeq(s) = g[n]
<1> DEFINE flatten[i \in 1..Len(s)] == IF i = 1 THEN s[i] ELSE flatten[i - 1] \o s[i]
<1>1. FlattenSeq(s) = flatten[Len(s)]
  BY DEF FlattenSeq
<1>2. \E g : Joins(g, s, Len(s))
  BY JoinsExists
<1>3. \E g : g = [i \in 1..Len(s) |-> IF i = 1 THEN s[i] ELSE g[i - 1] \o s[i]]
  BY <1>2 DEF Joins
<1>4. flatten = [i \in 1..Len(s) |-> IF i = 1 THEN s[i] ELSE flatten[i - 1] \o s[i]]
  BY <1>3, Zenon
<1> HIDE DEF flatten
<1>5. Joins(flatten, s, n)
  BY <1>4 DEF Joins
<1>6. QED
  BY <1>1, <1>5

-----------------------------------------------------------------------------
(* The bytes of a film: two chunks to a part, one to the last.               *)

Byte(i) == <<(i + 1) \div 2, (i + 1) % 2>>
First(n) == [i \in 1..n |-> Byte(i)]

LEMMA FirstTypes == ASSUME NEW n \in Nat PROVE First(n) \in Seq(Nat \X {0, 1}) /\ Len(First(n)) = n
<1>1. \A i \in 1..n : (i + 1) \div 2 \in Nat /\ (i + 1) % 2 \in {0, 1}
  OBVIOUS
<1>2. \A i \in 1..n : Byte(i) \in Nat \X {0, 1}
  BY <1>1 DEF Byte
<1>3. QED
  BY <1>2 DEF First

LEMMA FirstOne ==
  ASSUME NEW n \in Nat PROVE First(n) \o <<Byte(n + 1)>> = First(n + 1)
<1>1. Byte(n + 1) \in Nat \X {0, 1}
  <2>1. (n + 1 + 1) \div 2 \in Nat /\ (n + 1 + 1) % 2 \in {0, 1}
    OBVIOUS
  <2>2. QED
    BY <2>1 DEF Byte
<1>2. PICK b \in Nat \X {0, 1} : b = Byte(n + 1)
  BY <1>1
<1>3. First(n) \in Seq(Nat \X {0, 1}) /\ Len(First(n)) = n
      /\ First(n + 1) \in Seq(Nat \X {0, 1}) /\ Len(First(n + 1)) = n + 1
  <2>1. \A k \in Nat : First(k) \in Seq(Nat \X {0, 1}) /\ Len(First(k)) = k
    BY FirstTypes
  <2>2. n + 1 \in Nat
    OBVIOUS
  <2>3. QED
    BY <2>1, <2>2
<1>4. \A i \in 1..n : First(n)[i] = First(n + 1)[i]
  BY DEF First
<1>5. First(n + 1)[n + 1] = b
  BY <1>2 DEF First
<1>6. QED
  BY SMTT(30), <1>2, <1>3, <1>4, <1>5

LEMMA ConcatTwo ==
  ASSUME NEW S, NEW q \in Seq(S), NEW x \in S, NEW y \in S
  PROVE  q \o <<x, y>> = (q \o <<x>>) \o <<y>>
<1>1. <<x>> \in Seq(S) /\ <<y>> \in Seq(S) /\ <<x, y>> \in Seq(S)
  OBVIOUS
<1>2. q \o <<x, y>> \in Seq(S) /\ (q \o <<x>>) \o <<y>> \in Seq(S)
  BY <1>1
<1>3. Len(q \o <<x, y>>) = Len(q) + 2 /\ Len((q \o <<x>>) \o <<y>>) = Len(q) + 2
  BY <1>1
<1>4. \A i \in 1..(Len(q) + 2) : (q \o <<x, y>>)[i] = ((q \o <<x>>) \o <<y>>)[i]
  BY <1>1
<1>5. \A a, b \in Seq(S) : Len(a) = Len(b) /\ (\A i \in 1..Len(a) : a[i] = b[i]) => a = b
  OBVIOUS
<1>6. QED
  BY <1>2, <1>3, <1>4, <1>5

\* What the first m parts hold together.
Upto(m) == IF m = Parts THEN 2 * m - 1 ELSE 2 * m

LEMMA ChunksFollow ==
  ASSUME Parts \in Nat \ {0}, NEW m \in Nat, m < Parts
  PROVE  First(2 * m) \o Chunks(m + 1) = First(Upto(m + 1))
<1>1. Byte(2 * m + 1) = <<m + 1, 0>> /\ Byte(2 * m + 2) = <<m + 1, 1>>
  <2>1. /\ (2 * m + 1 + 1) \div 2 = m + 1 /\ (2 * m + 1 + 1) % 2 = 0
        /\ (2 * m + 2 + 1) \div 2 = m + 1 /\ (2 * m + 2 + 1) % 2 = 1
    OBVIOUS
  <2>2. QED
    BY <2>1 DEF Byte
<1>2. First(2 * m) \o <<<<m + 1, 0>>>> = First(2 * m + 1)
  BY SMTT(30), <1>1, FirstOne
<1>3. CASE m + 1 = Parts
  <2>1. Upto(m + 1) = 2 * m + 1
    BY <1>3 DEF Upto
  <2>2. Chunks(m + 1) = <<<<m + 1, 0>>>>
    BY <1>3 DEF Chunks
  <2>3. QED
    BY <1>2, <2>1, <2>2
<1>4. CASE m + 1 # Parts
  <2>1. First(2 * m + 1) \o <<<<m + 1, 1>>>> = First(2 * m + 2)
    <3>1. \A k \in Nat : First(k) \o <<Byte(k + 1)>> = First(k + 1)
      BY FirstOne
    <3>2. 2 * m + 1 \in Nat /\ (2 * m + 1) + 1 = 2 * m + 2
      OBVIOUS
    <3>3. QED
      BY <1>1, <3>1, <3>2
  <2>2. First(2 * m) \in Seq(Nat \X {0, 1})
    BY FirstTypes
  <2>3. <<m + 1, 0>> \in Nat \X {0, 1} /\ <<m + 1, 1>> \in Nat \X {0, 1}
    OBVIOUS
  <2>4. First(2 * m) \o <<<<m + 1, 0>>, <<m + 1, 1>>>> = First(2 * m + 2)
    <3>1. PICK x \in Nat \X {0, 1}, y \in Nat \X {0, 1} : x = <<m + 1, 0>> /\ y = <<m + 1, 1>>
      BY <2>3
    <3>2. \A T : \A q \in Seq(T), a \in T, b \in T : q \o <<a, b>> = (q \o <<a>>) \o <<b>>
      BY ConcatTwo
    <3> DEFINE F == First(2 * m)
               T == Nat \X {0, 1}
    <3> HIDE DEF F, T
    <3>4. F \in Seq(T) /\ x \in T /\ y \in T
      BY <2>2, <3>1 DEF F, T
    <3>5. F \o <<x, y>> = (F \o <<x>>) \o <<y>>
      BY SMTT(30), <3>2, <3>4
    <3>6. First(2 * m) \o <<x, y>> = (First(2 * m) \o <<x>>) \o <<y>>
      BY <3>5 DEF F
    <3>7. QED
      BY <1>2, <2>1, <3>1, <3>6
  <2>5. Upto(m + 1) = 2 * m + 2 /\ Chunks(m + 1) = <<<<m + 1, 0>>, <<m + 1, 1>>>>
    BY <1>4 DEF Chunks, Upto
  <2>6. QED
    BY <2>4, <2>5
<1>5. QED
  BY <1>3, <1>4

\* A whole film has each of its chunks once, in their order.
THEOREM WholeInOrder == Whole = First(2 * Parts - 1)
<1> DEFINE c == [p \in Part |-> Chunks(p)]
<1>0. Parts \in Nat \ {0}
  BY UploadAssumption
<1>1. Len(c) = Parts /\ \A m \in 1..Parts : c[m] = Chunks(m)
  BY <1>0 DEF Part
<1>2. PICK g : Joins(g, c, Parts) /\ Whole = g[Parts]
  <2>1. \E g : Joins(g, c, Parts) /\ FlattenSeq(c) = g[Parts]
    <3> HIDE DEF c
    <3>1. QED
      BY <1>0, <1>1, FlattenJoins
  <2>2. QED
    BY <2>1 DEF Whole
<1> HIDE DEF c
<1> DEFINE S == {m \in Nat : m \in 1..Parts => g[m] = First(Upto(m))}
<1>3. 0 \in S
  OBVIOUS
<1>4. ASSUME NEW m \in S PROVE m + 1 \in S
  <2>1. SUFFICES ASSUME m + 1 \in 1..Parts PROVE g[m + 1] = First(Upto(m + 1))
    OBVIOUS
  <2>2. m \in Nat /\ m < Parts /\ (m + 1) - 1 = m /\ First(2 * m) \o Chunks(m + 1) = First(Upto(m + 1))
    BY SMTT(30), <1>0, <2>1, ChunksFollow
  <2>3. g[m + 1] = IF m + 1 = 1 THEN c[m + 1] ELSE g[m] \o c[m + 1]
    BY <1>2, <2>1, <2>2 DEF Joins
  <2>4. c[m + 1] = Chunks(m + 1)
    BY <1>1, <2>1
  <2>5. CASE m = 0
    <3>1. First(2 * 0) = <<>> /\ 0 + 1 = 1
      BY DEF First
    <3>2. <<>> \o Chunks(1) = Chunks(1)
      <4>1. 1 \in Part
        BY <1>0 DEF Part
      <4>2. Chunks(1) \in Bytes
        BY <1>0, <4>1, ChunksTypes
      <4>3. PICK C : C = Part \X {0, 1}
        OBVIOUS
      <4>4. QED
        BY <4>2, <4>3 DEF Bytes
    <3>3. g[1] = Chunks(1)
      BY <2>3, <2>4, <2>5, <3>1
    <3>4. First(2 * 0) \o Chunks(1) = First(Upto(1))
      BY <2>2, <2>5, <3>1
    <3>5. QED
      BY <2>5, <3>1, <3>2, <3>3, <3>4
  <2>6. CASE m # 0
    <3>1. m \in 1..Parts /\ m # Parts
      BY <1>0, <2>2, <2>6
    <3>2. g[m] = First(2 * m)
      BY <3>1 DEF Upto
    <3>3. g[m + 1] = First(2 * m) \o Chunks(m + 1)
      BY <2>2, <2>3, <2>4, <2>6, <3>2
    <3>4. QED
      BY <2>2, <3>3
  <2>7. QED
    BY <2>5, <2>6
<1>5. S \in SUBSET Nat
  OBVIOUS
<1> HIDE DEF S
<1>6. Parts \in S
  BY <1>0, <1>3, <1>4, <1>5, InductiveSet
<1>7. g[Parts] = First(Upto(Parts))
  BY <1>0, <1>6 DEF S
<1>8. QED
  BY <1>2, <1>7 DEF Upto

LEMMA WholeTypes == Whole \in Bytes
<1>0. Parts \in Nat \ {0}
  BY UploadAssumption
<1>1. ASSUME NEW i \in 1..(2 * Parts - 1) PROVE Byte(i) \in Part \X {0, 1}
  <2>1. (i + 1) \div 2 \in 1..Parts /\ (i + 1) % 2 \in {0, 1}
    BY <1>0
  <2>2. QED
    BY <2>1 DEF Byte, Part
<1>2. 2 * Parts - 1 \in Nat
  BY <1>0
<1>3. First(2 * Parts - 1) \in Seq(Part \X {0, 1})
  BY <1>1, <1>2 DEF First
<1>4. QED
  BY <1>3, WholeInOrder DEF Bytes

-----------------------------------------------------------------------------
(* The rest of the types, and the cursor: it passes the last part once for  *)
(* each worker that finds nothing left, and none of these picks again.       *)

Rest ==
  /\ mp \in [Upload -> {"none", "open", "done", "aborted"}]
  /\ film \in [Upload -> {<<>>, Whole}]
  /\ upFlag \in BOOLEAN /\ seen \in Bytes /\ faults \in 0..MaxFaults

Left(u) == {k \in Worker : worker[u][k].at \in {"back", "gone"}}

Cursors == \A u \in Upload : cursor[u] <= Parts + Cardinality(Left(u))

LEMMA LeftFinite ==
  ASSUME UploadAssumption, NEW S \in SUBSET Worker
  PROVE  /\ IsFiniteSet(S) /\ Cardinality(S) \in Nat
         /\ \A T \in SUBSET S : Cardinality(T) <= Cardinality(S) /\ Cardinality(T) \in Nat
<1>1. IsFiniteSet(S)
  BY FS_Subset DEF UploadAssumption
<1>2. ASSUME NEW T \in SUBSET S PROVE IsFiniteSet(T) /\ Cardinality(T) <= Cardinality(S)
  BY <1>1, FS_Subset
<1>3. \A T \in SUBSET S : Cardinality(T) \in Nat
  BY <1>2, FS_CardinalityType
<1>4. QED
  BY <1>1, <1>2, <1>3, FS_CardinalityType

\* An upload whose cursor stands still and none of whose workers takes up work again.
LEMMA CursorSame ==
  ASSUME UploadAssumption, Inv, Cursors, NEW u \in Upload, cursor'[u] = cursor[u],
         \A k \in Worker : worker[u][k].at \in {"back", "gone"} => worker'[u][k].at \in {"back", "gone"}
  PROVE  cursor'[u] <= Parts + Cardinality(Left(u)')
<1>1. Left(u) \in SUBSET Left(u)' /\ Left(u)' \in SUBSET Worker
  BY DEF Left
<1>2. PICK L \in SUBSET Worker : L = Left(u)'
  BY <1>1
<1>3. Cardinality(Left(u)) <= Cardinality(L) /\ Cardinality(L) \in Nat /\ Cardinality(Left(u)) \in Nat
  BY <1>1, <1>2, LeftFinite
<1>4. cursor[u] <= Parts + Cardinality(Left(u)) /\ cursor[u] \in Nat /\ Parts \in Nat
  BY DEF Cursors, Inv, Types, UploadAssumption
<1>5. QED
  BY <1>2, <1>3, <1>4

LEMMA CursorPick ==
  ASSUME UploadAssumption, Inv, Cursors, NEW u \in Upload, NEW k \in Worker, Pick(u, k)
  PROVE  Cursors'
<1> DEFINE w == IF cursor[u] < Parts
                  THEN [worker[u][k] EXCEPT !.at = "stage", !.part = cursor[u] + 1]
                  ELSE [worker[u][k] EXCEPT !.at = "back"]
<1>1. /\ worker[u][k].at = "idle" /\ cursor' = [cursor EXCEPT ![u] = cursor[u] + 1]
      /\ worker' = [worker EXCEPT ![u][k] = w]
  BY DEF Pick, At
<1>2. /\ worker[u][k] \in WorkerState /\ cursor \in [Upload -> Nat] /\ cursor[u] \in Nat
      /\ Parts \in Nat /\ worker \in [Upload -> [Worker -> WorkerState]]
  BY DEF Inv, Types, UploadAssumption
<1>3. ~(cursor[u] < Parts) => w.at = "back"
  BY <1>2 DEF WorkerState
<1> HIDE DEF w
<1>4. /\ worker'[u][k] = w
      /\ \A v \in Upload, j \in Worker : v # u \/ j # k => worker'[v][j] = worker[v][j]
  <2>1. worker' = [worker EXCEPT ![u] = [worker[u] EXCEPT ![k] = w]]
    BY <1>1
  <2>2. QED
    BY <1>2, <2>1
<1>5. ASSUME NEW v \in Upload, v # u PROVE cursor'[v] <= Parts + Cardinality(Left(v)')
  BY <1>1, <1>2, <1>4, <1>5, CursorSame
<1>6. cursor'[u] <= Parts + Cardinality(Left(u)')
  <2>1. cursor'[u] = cursor[u] + 1
    BY <1>1, <1>2
  <2>2. CASE cursor[u] < Parts
    <3>1. PICK L \in SUBSET Worker : L = Left(u)'
      BY DEF Left
    <3>2. Cardinality(L) \in Nat
      BY LeftFinite
    <3>3. QED
      BY <1>2, <2>1, <2>2, <3>1, <3>2
  <2>3. CASE ~(cursor[u] < Parts)
    <3>1. Left(u)' = Left(u) \cup {k} /\ k \notin Left(u)
      BY <1>1, <1>3, <1>4, <2>3 DEF Left
    <3>2. Left(u) \in SUBSET Worker
      BY DEF Left
    <3>3. IsFiniteSet(Left(u)) /\ Cardinality(Left(u)) \in Nat
      BY <3>2, LeftFinite
    <3>4. Cardinality(Left(u) \cup {k}) = Cardinality(Left(u)) + 1
      BY <3>1, <3>3, FS_AddElement
    <3>5. cursor[u] <= Parts + Cardinality(Left(u))
      BY DEF Cursors
    <3>6. QED
      BY <1>2, <2>1, <3>1, <3>3, <3>4, <3>5
  <2>4. QED
    BY <2>2, <2>3
<1>7. QED
  BY <1>5, <1>6 DEF Cursors

\* No other action of an upload moves the cursor or hands a worker back its work.
LEMMA CursorUploads ==
  ASSUME UploadAssumption, Inv, Cursors, NEW u \in Upload, Uploads(u)
  PROVE  Cursors'
<1>0. worker \in [Upload -> [Worker -> WorkerState]]
  BY DEF Inv, Types
<1>1. ASSUME UNCHANGED <<cursor, worker>> PROVE Cursors'
  BY <1>1 DEF Cursors, Left
<1>2. ASSUME NEW k \in Worker, NEW w, worker' = [worker EXCEPT ![u][k] = w],
             ~(worker[u][k].at \in {"back", "gone"}), UNCHANGED cursor
      PROVE  Cursors'
  <2>1. worker' = [worker EXCEPT ![u] = [worker[u] EXCEPT ![k] = w]]
    BY <1>2
  <2>2. \A v \in Upload, j \in Worker : v # u \/ j # k => worker'[v][j] = worker[v][j]
    BY <1>0, <2>1
  <2>3. ASSUME NEW v \in Upload PROVE cursor'[v] <= Parts + Cardinality(Left(v)')
    <3>1. \A j \in Worker : worker[v][j].at \in {"back", "gone"} => worker'[v][j].at \in {"back", "gone"}
      BY <1>2, <2>2
    <3>2. QED
      BY <1>2, <3>1, CursorSame
  <2>4. QED
    BY <2>3 DEF Cursors
<1>3. CASE InitUpload(u)
  <2>1. CASE UNCHANGED worker
    BY <1>1, <1>3, <2>1 DEF InitUpload
  <2>2. CASE worker' = [worker EXCEPT ![u] = [k \in Worker |-> Idle]]
    <3>1. UNCHANGED cursor /\ cursor[u] = 0
      BY <1>3 DEF InitUpload, Inv, Taken
    <3>2. \A v \in Upload : v # u => worker'[v] = worker[v]
      BY <1>0, <2>2
    <3>3. \A v \in Upload : v # u => cursor'[v] <= Parts + Cardinality(Left(v)')
      BY <3>1, <3>2 DEF Cursors, Left
    <3>4. PICK L \in SUBSET Worker : L = Left(u)'
      BY DEF Left
    <3>5. Cardinality(L) \in Nat /\ Parts \in Nat
      BY LeftFinite DEF UploadAssumption
    <3>6. QED
      BY <3>1, <3>3, <3>4, <3>5 DEF Cursors
  <2>3. QED
    BY <1>3, <2>1, <2>2 DEF InitUpload
<1>4. CASE Put(u) \/ AllBack(u) \/ Complete(u) \/ Abort(u)
  <2>1. UNCHANGED <<cursor, worker>>
    BY <1>4 DEF Put, AllBack, Complete, Abort
  <2>2. QED
    BY <1>1, <2>1
<1>5. ASSUME NEW k \in Worker, Stage(u, k) PROVE Cursors'
  <2>1. worker[u][k].at = "stage" /\ UNCHANGED cursor
    BY <1>5 DEF Stage, At
  <2>2. \E w : worker' = [worker EXCEPT ![u][k] = w]
    BY <1>5 DEF Stage, Throws
  <2>3. QED
    BY <1>2, <2>1, <2>2
<1>6. ASSUME NEW k \in Worker, CommitRead(u, k) PROVE Cursors'
  <2>1. worker[u][k].at = "read" /\ UNCHANGED cursor
    BY <1>6 DEF CommitRead, At
  <2>2. \E w : worker' = [worker EXCEPT ![u][k] = w]
    BY <1>6 DEF CommitRead, Throws
  <2>3. QED
    BY <1>2, <2>1, <2>2
<1>7. ASSUME NEW k \in Worker, CommitSend(u, k) PROVE Cursors'
  <2>1. worker[u][k].at = "send" /\ UNCHANGED cursor
    BY <1>7 DEF CommitSend, At
  <2>2. \E w : worker' = [worker EXCEPT ![u][k] = w]
    BY <1>7 DEF CommitSend, Throws
  <2>3. QED
    BY <1>2, <2>1, <2>2
<1>8. QED
  BY <1>3, <1>4, <1>5, <1>6, <1>7, CursorPick DEF Uploads

LEMMA CursorStep ==
  ASSUME UploadAssumption, Inv, Cursors, [Next]_vars
  PROVE  Cursors'
<1>1. ASSUME UNCHANGED <<cursor, worker>> PROVE Cursors'
  BY <1>1 DEF Cursors, Left
<1>2. CASE Reload
  <2>1. UNCHANGED cursor /\ worker' = [u \in Upload |-> [k \in Worker |-> Gone]]
    BY <1>2 DEF Reload
  <2>2. ASSUME NEW u \in Upload PROVE cursor'[u] <= Parts + Cardinality(Left(u)')
    BY <2>1, IdleTypes, CursorSame
  <2>3. QED
    BY <2>2 DEF Cursors
<1>3. CASE \E u \in Upload : Start(u)
  BY <1>1, <1>3 DEF Start
<1>4. CASE Apply \/ EndSession \/ PurgeList \/ PurgeDelete \/ Play
  BY <1>1, <1>4 DEF Apply, EndSession, PurgeList, PurgeDelete, Play, jobVars
<1>5. CASE UNCHANGED vars
  BY <1>1, <1>5 DEF vars, jobVars
<1>6. QED
  BY <1>2, <1>3, <1>4, <1>5, CursorUploads DEF Next

\* An answer never names a byte past the end of the object.
LEMMA RangeEnds ==
  ASSUME UploadAssumption, NEW total \in Nat, NEW from \in Nat, from < total, NEW to \in Nat
  PROVE  LET r == FileRange(total, from, to)
         IN  r.from = from /\ r.to \in Nat /\ r.to < total
<1> DEFINE asked == IF to = None THEN from + MaxRange - 1 ELSE to
           S == {asked, total - 1, from + MaxRange - 1}
           end == CHOOSE e \in S : \A x \in S : e <= x
<1>1. MaxRange \in Nat \ {0}
  BY DEF UploadAssumption
<1>2. asked \in Nat /\ total - 1 \in Nat /\ from + MaxRange - 1 \in Nat
  BY <1>1
<1>3. \E e \in S : \A x \in S : e <= x
  <2> HIDE DEF asked
  <2>1. \A a, b, c \in Nat : \E e \in {a, b, c} : \A x \in {a, b, c} : e <= x
    OBVIOUS
  <2>2. QED
    BY <1>2, <2>1
<1>4. end \in S /\ \A x \in S : end <= x
  BY <1>3
<1> HIDE DEF end, asked
<1>5. end \in Nat /\ end <= total - 1
  BY <1>2, <1>4
<1>6. FileRange(total, from, to) = [from |-> from, to |-> IF end < from THEN from ELSE end]
  BY DEF FileRange, end, asked
<1>7. QED
  BY <1>5, <1>6

LEMMA RestUploads ==
  ASSUME UploadAssumption, Inv, Rest, NEW u \in Upload, Uploads(u)
  PROVE  Rest'
<1>0. /\ mp \in [Upload -> {"none", "open", "done", "aborted"}]
      /\ film \in [Upload -> {<<>>, Whole}]
      /\ upFlag \in BOOLEAN /\ seen \in Bytes /\ faults \in 0..MaxFaults
  BY DEF Rest
<1>1. ASSUME Fails \/ Works \/ UNCHANGED faults PROVE faults' \in 0..MaxFaults
  <2>1. MaxFaults \in Nat
    BY DEF UploadAssumption
  <2>2. QED
    BY <1>0, <1>1, <2>1 DEF Fails, Works
<1>2. CASE InitUpload(u)
  BY <1>0, <1>2 DEF InitUpload, CreateMultipart, pageVars, Rest
<1>3. CASE Put(u)
  <2>1. /\ film' = film \/ film' = [film EXCEPT ![u] = Whole]
        /\ upFlag' = upFlag \/ upFlag' = FALSE
        /\ UNCHANGED <<mp, seen>> /\ (Works \/ Fails)
    BY <1>3 DEF Put, PutObject, Done
  <2>2. film' \in [Upload -> {<<>>, Whole}]
    BY <1>0, <2>1
  <2>3. QED
    BY <1>0, <1>1, <2>1, <2>2 DEF Rest
<1>4. CASE AllBack(u)
  BY <1>0, <1>4 DEF AllBack, storeVars, pageVars, Rest
<1>5. CASE Complete(u)
  <2>1. completed[u] = Part
    BY <1>5 DEF Complete, Inv, Taken
  <2>2. film' = film \/ film' = [film EXCEPT ![u] = Whole]
    BY <1>5, <2>1, JoinsWhole DEF Complete, Inv
  <2>3. /\ mp' = mp \/ mp' = [mp EXCEPT ![u] = "done"]
        /\ upFlag' = upFlag \/ upFlag' = FALSE
        /\ UNCHANGED seen /\ (Works \/ Fails)
    BY <1>5 DEF Complete, JoinParts, Done
  <2>4. film' \in [Upload -> {<<>>, Whole}]
    BY <1>0, <2>2
  <2>5. mp' \in [Upload -> {"none", "open", "done", "aborted"}]
    BY <1>0, <2>3
  <2>6. QED
    BY <1>0, <1>1, <2>3, <2>4, <2>5 DEF Rest
<1>6. CASE Abort(u)
  <2>1. /\ mp' = mp \/ mp' = [mp EXCEPT ![u] = "aborted"]
        /\ UNCHANGED <<film, upFlag, seen>> /\ (Works \/ Fails)
    BY <1>6 DEF Abort, pageVars
  <2>2. mp' \in [Upload -> {"none", "open", "done", "aborted"}]
    BY <1>0, <2>1
  <2>3. QED
    BY <1>0, <1>1, <2>1, <2>2 DEF Rest
<1>7. ASSUME NEW k \in Worker, Pick(u, k) \/ Stage(u, k) \/ CommitRead(u, k) \/ CommitSend(u, k)
      PROVE  Rest'
  <2>1. UNCHANGED <<mp, film, upFlag, seen>> /\ (Works \/ Fails)
    <3>1. CASE Pick(u, k)
      BY <3>1 DEF Pick, storeVars, pageVars, Works
    <3>2. CASE Stage(u, k)
      BY <3>2 DEF Stage, pageVars
    <3>3. CASE CommitRead(u, k)
      BY <3>3 DEF CommitRead, storeVars, pageVars, Works
    <3>4. CASE CommitSend(u, k)
      BY <3>4 DEF CommitSend, pageVars
    <3>5. QED
      BY <1>7, <3>1, <3>2, <3>3, <3>4
  <2>2. QED
    BY <1>0, <1>1, <2>1 DEF Rest
<1>8. QED
  BY <1>2, <1>3, <1>4, <1>5, <1>6, <1>7 DEF Uploads

LEMMA RestStep ==
  ASSUME UploadAssumption, Inv, Rest, [Next]_vars
  PROVE  Rest'
<1>0. /\ <<>> \in Bytes /\ Whole \in Bytes /\ Len(Whole) \in Nat
  <2>1. <<>> \in Bytes
    BY DEF Bytes
  <2>2. QED
    BY <2>1, WholeTypes DEF Bytes
<1>1. ASSUME UNCHANGED <<mp, film, upFlag, faults>>, seen' \in Bytes PROVE Rest'
  BY <1>1 DEF Rest
<1>2. ASSUME NEW u \in Upload, Start(u) PROVE Rest'
  BY <1>2 DEF Start, Rest
<1>3. CASE Apply
  <2>1. seen' \in {seen, <<>>}
    BY <1>3 DEF Apply
  <2>2. QED
    BY <1>0, <1>1, <1>3, <2>1 DEF Apply, storeVars, Rest
<1>4. CASE Reload \/ EndSession
  <2>1. seen' = <<>> /\ UNCHANGED <<mp, film, upFlag>> /\ (Fails \/ Works)
    BY <1>4 DEF Reload, EndSession, storeVars
  <2>2. faults' \in 0..MaxFaults
    <3>1. faults \in 0..MaxFaults /\ MaxFaults \in Nat
      BY DEF Rest, UploadAssumption
    <3>2. QED
      BY <2>1, <3>1 DEF Fails, Works
  <2>3. QED
    BY <1>0, <2>1, <2>2 DEF Rest
<1>5. CASE PurgeList \/ PurgeDelete
  BY <1>5 DEF PurgeList, PurgeDelete, storeVars, Rest
<1>6. CASE Play
  <2> DEFINE f == film[shown]
  <2>1. /\ shown # None /\ Len(seen) < Len(f)
        /\ UNCHANGED <<mp, film, upFlag, faults>>
        /\ \E to \in {None} \cup Len(seen)..Len(Whole) :
             LET r == FileRange(Len(f), Len(seen), to) IN
             seen' = seen \o SubSeq(f, r.from + 1, r.to + 1)
    BY <1>6 DEF Play, storeVars
  <2>2. shown \in Upload
    BY <2>1 DEF Inv, Kept
  <2>3. f \in Bytes /\ seen \in Bytes
    BY <1>0, <2>2 DEF Rest
  <2> HIDE DEF f
  <2>4. Len(f) \in Nat /\ Len(seen) \in Nat
    BY <2>3 DEF Bytes
  <2>5. PICK to \in Nat :
          LET r == FileRange(Len(f), Len(seen), to) IN
          seen' = seen \o SubSeq(f, r.from + 1, r.to + 1)
    <3>1. {None} \cup Len(seen)..Len(Whole) \subseteq Nat
      BY <1>0, <2>4 DEF None
    <3>2. QED
      BY <2>1, <3>1
  <2> DEFINE r == FileRange(Len(f), Len(seen), to)
  <2>6. r.from = Len(seen) /\ r.to \in Nat /\ r.to < Len(f)
    BY <2>1, <2>4, RangeEnds
  <2> HIDE DEF r
  <2>7. \A T : \A q \in Seq(T) : \A a, b \in Nat :
          a >= 1 /\ b <= Len(q) => SubSeq(q, a, b) \in Seq(T)
    OBVIOUS
  <2>8. r.from + 1 \in Nat /\ r.to + 1 \in Nat /\ r.from + 1 >= 1 /\ r.to + 1 <= Len(f)
    BY <2>4, <2>6
  <2>9. SubSeq(f, r.from + 1, r.to + 1) \in Bytes
    BY <2>3, <2>7, <2>8 DEF Bytes
  <2>10. seen' = seen \o SubSeq(f, r.from + 1, r.to + 1)
    BY <2>5 DEF r
  <2>11. \A T : \A a, b \in Seq(T) : a \o b \in Seq(T)
    OBVIOUS
  <2>12. seen' \in Bytes
    BY <2>3, <2>9, <2>10, <2>11 DEF Bytes
  <2>13. QED
    BY <1>1, <2>1, <2>12
<1>7. CASE UNCHANGED vars
  BY <1>7 DEF vars, storeVars, pageVars, Rest
<1>8. QED
  BY <1>2, <1>3, <1>4, <1>5, <1>6, <1>7, RestUploads DEF Next

\* The types of the upload, its store and its page.  The cursor of an upload stays within the
\* parts and one pass for each worker, and a film at R2 is the whole of it or not there: R2 joins
\* only when all parts are completed.
THEOREM TypeCorrect == Spec => []TypeOK
<1>1. Init => Inv /\ Rest /\ Cursors
  <2>1. SUFFICES ASSUME Init PROVE Rest /\ Cursors
    BY InvInit, UploadAssumption
  <2>2. <<>> \in Bytes /\ MaxFaults \in Nat /\ Parts \in Nat
    BY UploadAssumption DEF Bytes, UploadAssumption
  <2>3. Rest
    <3>1. mp = [u \in Upload |-> "none"] /\ film = [u \in Upload |-> <<>>]
      BY <2>1 DEF Init
    <3>2. upFlag = FALSE /\ seen = <<>> /\ faults = 0
      BY <2>1 DEF Init
    <3>3. film \in [Upload -> {<<>>, Whole}]
      BY <3>1
    <3>4. mp \in [Upload -> {"none", "open", "done", "aborted"}]
      BY <3>1
    <3>5. faults \in 0..MaxFaults
      BY <2>2, <3>2
    <3>6. QED
      BY <2>2, <3>2, <3>3, <3>4, <3>5 DEF Rest
  <2>4. ASSUME NEW u \in Upload PROVE cursor[u] <= Parts + Cardinality(Left(u))
    <3>1. PICK L \in SUBSET Worker : L = Left(u)
      BY DEF Left
    <3>2. Cardinality(L) \in Nat
      BY LeftFinite, UploadAssumption
    <3>3. QED
      BY <2>1, <2>2, <3>1, <3>2 DEF Init
  <2>5. QED
    BY <2>3, <2>4 DEF Cursors
<1>2. Inv /\ Rest /\ Cursors /\ [Next]_vars => (Inv /\ Rest /\ Cursors)'
  BY InvStep, RestStep, CursorStep, UploadAssumption
<1>3. Inv /\ Rest /\ Cursors => TypeOK
  <2>1. SUFFICES ASSUME Inv, Rest, Cursors PROVE TypeOK
    OBVIOUS
  <2>2. cursor \in [Upload -> 0..(Parts + Cardinality(Worker))]
    <3>1. ASSUME NEW u \in Upload PROVE cursor[u] \in 0..(Parts + Cardinality(Worker))
      <4>1. Left(u) \in SUBSET Worker /\ Worker \in SUBSET Worker
        BY DEF Left
      <4>2. /\ Cardinality(Left(u)) <= Cardinality(Worker)
            /\ Cardinality(Worker) \in Nat /\ Cardinality(Left(u)) \in Nat
        BY <4>1, LeftFinite, UploadAssumption
      <4>3. cursor[u] <= Parts + Cardinality(Left(u)) /\ cursor[u] \in Nat /\ Parts \in Nat
        BY <2>1, UploadAssumption DEF Cursors, Inv, Types, UploadAssumption
      <4>4. QED
        BY <4>2, <4>3
    <3>2. QED
      BY <2>1, <3>1 DEF Inv, Types
  <2>3. film \in [Upload -> Bytes]
    <3>1. <<>> \in Bytes
      BY DEF Bytes
    <3>2. QED
      BY <2>1, <3>1, WholeTypes DEF Rest
  <2>4. \A u \in Upload, k \in Worker :
          /\ worker[u][k].at \in {"idle", "stage", "read", "send", "back", "gone"}
          /\ worker[u][k].part \in {None} \cup Part
    <3>1. \A u \in Upload, k \in Worker : worker[u][k] \in WorkerState
      BY <2>1 DEF Inv, Types
    <3>2. QED
      BY <3>1 DEF WorkerState
  <2>5. shown \in {None} \cup Upload /\ keyFlag \in {None} \cup Upload /\ current \in {None} \cup Upload
    BY <2>1 DEF Inv, Kept
  <2>6. QED
    BY <2>1, <2>2, <2>3, <2>4, <2>5 DEF TypeOK, Inv, Types, Rest, Bytes
<1>4. QED
  BY <1>1, <1>2, <1>3, PTL DEF Spec
=============================================================================
