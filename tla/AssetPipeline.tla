--------------------------- MODULE AssetPipeline ---------------------------
(***************************************************************************)
(* One film from its upload to its purge: the upload and deletion routes   *)
(* (src/services/api/src/routes/assets.ts), the retention sweep            *)
(* (src/services/api/src/lib/retention.ts) and the three handlers of the   *)
(* worker (src/services/worker/src/index.ts), on the queue of JobQueue,    *)
(* whose steps and variables these are too.                                *)
(*                                                                         *)
(* A handler is cut at every query and every call of the object store, and *)
(* may throw at each of them.  Files are names: what ffmpeg makes of the   *)
(* original is left out, and so are subtitles and audio tracks.  A prefix  *)
(* is listed and deleted in one step (one page of 1000 keys).              *)
(***************************************************************************)
EXTENDS JobQueue   \* MaxJob: the two jobs whose dedupe_key is the asset's, and one purge

CONSTANTS
  File,      \* what a transcode uploads: segments, playlists, pictures
  Overlap    \* whether a lease may run out under a run that still works

ASSUME PipelineAssumption == Overlap \in BOOLEAN

VARIABLES
  kind,    \* column kind of each job
  pc,      \* where the handler of each slot is
  todo,    \* the files that a transcode has still to upload, or to copy
  asset,   \* the row of table assets, its upload session and its variants
  store,   \* the objects: the original, the published prefix, each worker's staging prefix
  put, del, sweep   \* where PUT /uploads/:id, DELETE /assets/:id and the sweep are

pipelineVars == <<row, run, faults, kind, pc, todo, asset, store, put, del, sweep>>

Asset == [status : {"uploading", "queued", "probing", "transcoding", "ready", "failed", "purged"},
          keyed : BOOLEAN,        \* original_key is set
          master : BOOLEAN,       \* master_playlist_key is set
          variants : BOOLEAN,     \* the rows of asset_variants are there
          completed : BOOLEAN, abandoned : BOOLEAN]   \* the stamps of the upload session
Store == [original : BOOLEAN, published : SUBSET File, staged : [Worker -> SUBSET File]]

PipelineTypeOK ==
  /\ TypeOK
  /\ kind \in [Job -> {"none", "probe", "transcode", "purge"}]
  /\ pc \in [Slot -> {"off", "start", "measure", "begin", "download", "stage", "wipe", "list",
                      "copy", "clean", "drop", "insert", "ready",
                      "delete", "prefix", "mark", "end"}]
  /\ todo \in [Slot -> SUBSET File]
  /\ asset \in Asset /\ store \in Store
  /\ put \in {"idle", "checked", "stored", "completed", "queued", "probed"}
  /\ del \in {"idle", "inserted"} /\ sweep \in {"idle", "selected", "deleted"}

-----------------------------------------------------------------------------
(* The API. *)

Inserted(k) == \E j \in Job : kind[j] = k

\* INSERT INTO jobs.  No two requests insert a job of one dedupe_key: there is one PUT at a
\* time, and a completed upload refuses the next.
Insert(k) == \E j \in Job : Enqueue(j) /\ kind' = [kind EXCEPT ![j] = k]

NoInsert == UNCHANGED <<vars, kind>>

\* PUT /uploads/:uploadId, a query or a call of the store at a time.
PutStep(from, to) == put = from /\ put' = to /\ UNCHANGED <<pc, todo, del, sweep>>

PutCheck ==
  /\ PutStep("idle", "checked") /\ ~asset.completed
  /\ NoInsert /\ UNCHANGED <<asset, store>>
PutStore ==
  /\ PutStep("checked", "stored")
  /\ store' = [store EXCEPT !.original = TRUE]
  /\ NoInsert /\ UNCHANGED asset
PutComplete ==
  /\ PutStep("stored", "completed")
  /\ asset' = [asset EXCEPT !.completed = TRUE]
  /\ NoInsert /\ UNCHANGED store
PutQueue ==
  /\ PutStep("completed", "queued")
  /\ asset' = [asset EXCEPT !.status = "queued", !.keyed = TRUE]
  /\ NoInsert /\ UNCHANGED store
PutProbe     == PutStep("queued", "probed") /\ Insert("probe") /\ UNCHANGED <<asset, store>>
PutTranscode == PutStep("probed", "idle") /\ Insert("transcode") /\ UNCHANGED <<asset, store>>

\* The request is cut off, or one of its queries fails.
PutFails ==
  /\ put # "idle" /\ put' = "idle"
  /\ NoInsert /\ UNCHANGED <<pc, todo, asset, store, del, sweep>>

\* Bound: a film is deleted, or its upload abandoned, once.
Unwanted == asset.abandoned \/ Inserted("purge")

\* DELETE /assets/:id: the job, then the status.
Delete ==
  /\ del = "idle" /\ del' = "inserted" /\ ~Unwanted
  /\ Insert("purge")
  /\ UNCHANGED <<pc, todo, asset, store, put, sweep>>
\* Mutant: the status of docs/BLUEPRINT.md:247, which the table's CHECK does not know.
DeleteMarksDeleting ==
  /\ del = "inserted" /\ del' = "idle"
  /\ asset' = [asset EXCEPT !.status = "deleting"]
  /\ NoInsert /\ UNCHANGED <<pc, todo, store, put, sweep>>

DeleteMarks ==
  /\ del = "inserted" /\ del' = "idle"
  /\ asset' = [asset EXCEPT !.status = "purged"]
  /\ NoInsert /\ UNCHANGED <<pc, todo, store, put, sweep>>

\* The sweep: abandon what is a day old, then delete its object and enqueue its purge.
SweepAbandons ==
  /\ sweep = "idle" /\ ~asset.completed /\ ~Unwanted
  /\ asset' = [asset EXCEPT !.abandoned = TRUE]
  /\ sweep' = "selected"
  /\ NoInsert /\ UNCHANGED <<pc, todo, store, put, del>>
SweepDeletes ==
  /\ sweep = "selected" /\ sweep' = "deleted"
  /\ store' = [store EXCEPT !.original = FALSE]
  /\ NoInsert /\ UNCHANGED <<pc, todo, asset, put, del>>
SweepPurges ==
  /\ sweep = "deleted" /\ sweep' = "idle"
  /\ Insert("purge")
  /\ UNCHANGED <<pc, todo, asset, store, put, del>>

-----------------------------------------------------------------------------
(* The handlers. *)

api == <<put, del, sweep>>

Works(s, k, here) == run[s].at = "working" /\ kind[run[s].job] = k /\ pc[s] = here

\* A step of the handler of kind k in slot s.
Step(s, k, here, there) ==
  /\ Works(s, k, here)
  /\ pc' = [pc EXCEPT ![s] = there]
  /\ NoInsert /\ UNCHANGED api

\* The key is the asset's, or the job's own.
ProbeStart(s) ==
  /\ Step(s, "probe", "start", "measure")
  /\ asset' = [asset EXCEPT !.status = "probing"]
  /\ UNCHANGED <<todo, store>>

ProbeMeasure(s) ==
  /\ Step(s, "probe", "measure", "end")
  /\ store.original
  /\ UNCHANGED <<todo, asset, store>>

TranscodeRead(s) ==
  /\ Step(s, "transcode", "start", "begin")
  /\ asset.keyed
  /\ UNCHANGED <<todo, asset, store>>

\* Mutant: the status is left as it is until the film is published.
TranscodeQuietly(s) == Step(s, "transcode", "begin", "download") /\ UNCHANGED <<todo, asset, store>>

TranscodeBegin(s) ==
  /\ Step(s, "transcode", "begin", "download")
  /\ asset' = [asset EXCEPT !.status = "transcoding"]
  /\ UNCHANGED <<todo, store>>

\* Download and encode: all the files are on the local disk.
Encode(s) ==
  /\ Step(s, "transcode", "download", "stage")
  /\ store.original
  /\ todo' = [todo EXCEPT ![s] = File]
  /\ UNCHANGED <<asset, store>>

\* The staging prefix is the worker's: two of its runs share it.
Stage(s) ==
  \E f \in todo[s] :
    /\ Step(s, "transcode", "stage", IF todo[s] = {f} THEN "wipe" ELSE "stage")
    /\ store' = [store EXCEPT !.staged[s[1]] = @ \cup {f}]
    /\ todo' = [todo EXCEPT ![s] = @ \ {f}]
    /\ UNCHANGED asset

\* Publishing: delete the published prefix, list the staged files, copy them one by one.
Wipe(s) ==
  /\ Step(s, "transcode", "wipe", "list")
  /\ store' = [store EXCEPT !.published = {}]
  /\ UNCHANGED <<todo, asset>>

List(s) ==
  /\ Step(s, "transcode", "list", IF store.staged[s[1]] = {} THEN "clean" ELSE "copy")
  /\ todo' = [todo EXCEPT ![s] = store.staged[s[1]]]
  /\ UNCHANGED <<asset, store>>

Copy(s) ==
  \E f \in todo[s] \cap store.staged[s[1]] :
    /\ Step(s, "transcode", "copy", IF todo[s] = {f} THEN "clean" ELSE "copy")
    /\ store' = [store EXCEPT !.published = @ \cup {f}]
    /\ todo' = [todo EXCEPT ![s] = @ \ {f}]
    /\ UNCHANGED asset

Clean(s) ==
  /\ Step(s, "transcode", "clean", "drop")
  /\ store' = [store EXCEPT !.staged[s[1]] = {}]
  /\ UNCHANGED <<todo, asset>>

DropVariants(s) ==
  /\ Step(s, "transcode", "drop", "insert")
  /\ asset' = [asset EXCEPT !.variants = FALSE]
  /\ UNCHANGED <<todo, store>>

\* UNIQUE (asset_id, height).
InsertVariants(s) ==
  /\ Step(s, "transcode", "insert", "ready")
  /\ ~asset.variants
  /\ asset' = [asset EXCEPT !.variants = TRUE]
  /\ UNCHANGED <<todo, store>>

Ready(s) ==
  /\ Step(s, "transcode", "ready", "end")
  /\ asset' = [asset EXCEPT !.status = "ready", !.master = TRUE]
  /\ UNCHANGED <<todo, store>>

PurgeRead(s) ==
  /\ Step(s, "purge", "start", IF asset.keyed THEN "delete" ELSE "prefix")
  /\ UNCHANGED <<todo, asset, store>>

PurgeOriginal(s) ==
  /\ Step(s, "purge", "delete", "prefix")
  /\ store' = [store EXCEPT !.original = FALSE]
  /\ UNCHANGED <<todo, asset>>

\* assets/{id}/ holds the published files and every worker's staging.
PurgePrefix(s) ==
  /\ Step(s, "purge", "prefix", "mark")
  /\ store' = [store EXCEPT !.published = {}, !.staged = [w \in Worker |-> {}]]
  /\ UNCHANGED <<todo, asset>>

PurgeMark(s) ==
  /\ Step(s, "purge", "mark", "end")
  /\ asset' = [asset EXCEPT !.status = "purged", !.keyed = FALSE, !.master = FALSE]
  /\ UNCHANGED <<todo, store>>

Handler(s) ==
  \/ ProbeStart(s) \/ ProbeMeasure(s)
  \/ TranscodeRead(s) \/ TranscodeBegin(s) \/ Encode(s) \/ Stage(s) \/ Wipe(s) \/ List(s)
  \/ Copy(s) \/ Clean(s) \/ DropVariants(s) \/ InsertVariants(s) \/ Ready(s)
  \/ PurgeRead(s) \/ PurgeOriginal(s) \/ PurgePrefix(s) \/ PurgeMark(s)

-----------------------------------------------------------------------------
(* The queue around them. *)

\* A slot that stops working forgets what its handler was at.
Forgets ==
  /\ pc' = [s \in Slot |-> IF run'[s].at # "working" THEN "off"
                           ELSE IF run[s].at = "working" THEN pc[s] ELSE "start"]
  /\ todo' = [s \in Slot |-> IF run'[s].at = "working" THEN todo[s] ELSE {}]
  /\ UNCHANGED <<kind, store, api>>

\* Mutant: a handler that throws is marked like one that ends.
EndsAnyway(s) == Handled(s) /\ run'[s].at = "done" /\ Forgets /\ UNCHANGED asset

\* A handler ends, or throws: any of its queries and calls may fail.
HandlerEnds(s) ==
  /\ Handled(s)
  /\ run'[s].at = "done" => pc[s] = "end"
  /\ Forgets /\ UNCHANGED asset

Queue(s) ==
  /\ \/ Select(s) \/ Commit(s) \/ MarkRunning(s) \/ MarkSuccess(s) \/ MarkFail(s)
     \/ Die(s)
  /\ Forgets /\ UNCHANGED asset

\* markFail's second UPDATE may be done, or not, when its answer is an error.
BuryFilm(s) ==
  /\ Bury(s)
  /\ \/ asset' = [asset EXCEPT !.status = "failed"]
     \/ faults' # faults /\ UNCHANGED asset
  /\ Forgets

\* Mutant: what outlives its lease is put back.
LeaseSwept(j) ==
  /\ row[j].lease = "held" /\ \A s \in Slot : run[s].job # j
  /\ row' = [row EXCEPT ![j].status = "pending", ![j].lease = "none"]
  /\ UNCHANGED <<run, faults, kind, pc, todo, asset, store, api>>

\* LEASE_SEC is 120 s by default, and nothing renews a lease.
LeaseRunsOut(j) ==
  /\ Overlap \/ \A s \in Slot : run[s].job # j
  /\ LeaseOver(j)
  /\ UNCHANGED <<kind, pc, todo, asset, store, api>>

-----------------------------------------------------------------------------
PipelineInit ==
  /\ Init
  /\ kind = [j \in Job |-> "none"]
  /\ pc = [s \in Slot |-> "off"] /\ todo = [s \in Slot |-> {}]
  /\ asset = [status |-> "uploading", keyed |-> FALSE, master |-> FALSE, variants |-> FALSE,
              completed |-> FALSE, abandoned |-> FALSE]
  /\ store = [original |-> FALSE, published |-> {}, staged |-> [w \in Worker |-> {}]]
  /\ put = "idle" /\ del = "idle" /\ sweep = "idle"

SlotRuns(s) == Queue(s) \/ Handler(s) \/ HandlerEnds(s) \/ BuryFilm(s)

PipelineNext ==
  \/ PutCheck \/ PutStore \/ PutComplete \/ PutQueue \/ PutProbe \/ PutTranscode \/ PutFails
  \/ Delete \/ DeleteMarks \/ SweepAbandons \/ SweepDeletes \/ SweepPurges
  \/ \E s \in Slot : SlotRuns(s)
  \/ \E j \in Job : LeaseRunsOut(j)

PipelineSpec == PipelineInit /\ [][PipelineNext]_pipelineVars

-----------------------------------------------------------------------------
(* Properties *)

Whole == store.published = File /\ asset.variants

\* A room may be opened on a film as soon as it is ready (rooms.ts:33): then all its files
\* are published and its variants listed, whatever runs before it crashed or threw half-way
\* through publishing (lines 530-584).
ReadyIsWhole == asset.status = "ready" /\ ~Unwanted => Whole

\* A transcode that is marked done has published the film: a crash between the last UPDATE and
\* the mark, or a mark that is done and never answered, costs no more than another run.
DoneIsPublished ==
  (\E j \in Job : kind[j] = "transcode" /\ row[j].status = "succeeded") /\ ~Unwanted
    => Whole /\ asset.master

\* With its handlers the worker still runs the queue of JobQueue.
RunsTheQueue == Spec

\* "Deleting an asset leaves zero objects under both prefixes" (docs/BLUEPRINT.md:844): once
\* the purge of an upload that was completed and enqueued is done, and no handler is at work,
\* nothing of the film is left.
PurgeLeavesNothing ==
  /\ Inserted("transcode")
  /\ \E j \in Job : kind[j] = "purge" /\ row[j].status = "succeeded"
  /\ \A s \in Slot : run[s].at = "idle"
  /\ put = "idle"
  => ~store.original /\ store.published = {} /\ \A w \in Worker : store.staged[w] = {}
=============================================================================
