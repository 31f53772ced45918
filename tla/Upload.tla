------------------------------- MODULE Upload -------------------------------
(***************************************************************************)
(* From create_job to a ready job: upload_handler and the created-deadline *)
(* loop of push_runtime.py, the packaging thread and the files of          *)
(* push_artifacts.py, and what a shutdown, a crash and the next startup do *)
(* to a job, its work tree and its artifact.  One job, and the browser may *)
(* send its upload more than once.                                         *)
(***************************************************************************)
EXTENDS Integers, FiniteSets

CONSTANTS
    Requests,       \* POSTs of /api/push-jobs/{job_id}/upload
    NoRequest,
    MaxRecoveries   \* bound on the server's restarts

ASSUME NoRequestAssumption == NoRequest \notin Requests
ASSUME RecoveriesAssumption == MaxRecoveries \in Nat

VARIABLES
    state,      \* the job's state
    artifact,   \* the file its artifact row names, as the request that made it
    files,      \* the files under push-artifacts
    work,       \* the job's work tree exists
    handler,    \* where each upload_handler is
    failure,    \* the state a failing handler is about to record
    thread,     \* each handler's packaging thread
    loop,       \* where the created-deadline loop is
    wake,       \* created_deadline_wake
    late,       \* create_expires_at has passed
    process,    \* the server: starting, serving, closing
    cleanup,    \* startup_cleanup names the job
    recoveries,
    uploader,   \* history: the request whose start_upload succeeded
    born        \* history: the files made since the server started

job == <<state, artifact>>
disk == <<files, work>>
requests == <<handler, failure, thread>>
deadline == <<loop, wake>>
server == <<process, cleanup, recoveries>>
uploadVars == <<job, disk, requests, deadline, late, server, uploader, born>>

UploadInit ==
    /\ state = "missing"
    /\ artifact = NoRequest
    /\ files = {}
    /\ work = FALSE
    /\ handler = [r \in Requests |-> "none"]
    /\ failure = [r \in Requests |-> "none"]
    /\ thread = [r \in Requests |-> "none"]
    /\ loop = "query"
    /\ wake = FALSE
    /\ late = FALSE
    /\ process = "serving"
    /\ cleanup = FALSE
    /\ recoveries = 0
    /\ uploader = NoRequest
    /\ born = {}

-----------------------------------------------------------------------------
(* The job is created and dispatched.                                      *)

\* Mutant: the deadline loop is not armed.
CreateJobUnarmed ==
    /\ process = "serving"
    /\ state = "missing"
    /\ state' = "created"
    /\ UNCHANGED <<artifact, disk, requests, deadline, late, server, uploader,
                   born>>

\* create_job_handler arms the deadline loop.
CreateJob ==
    /\ process = "serving"
    /\ state = "missing"
    /\ state' = "created"
    /\ wake' = TRUE
    /\ UNCHANGED <<artifact, disk, requests, loop, late, server, uploader,
                   born>>

\* PUSH_FILES with the job's id; its rows are PushJobStore's.
EnableDispatch ==
    /\ process = "serving"
    /\ state = "ready"
    /\ state' = "running"
    /\ UNCHANGED <<artifact, disk, requests, deadline, late, server, uploader,
                   born>>

DeadlinePasses ==
    /\ state # "missing" /\ ~late
    /\ late' = TRUE
    /\ UNCHANGED <<job, disk, requests, deadline, server, uploader, born>>

-----------------------------------------------------------------------------
(* upload_handler.                                                         *)

Proceed(r, step) == handler' = [handler EXCEPT ![r] = step]

Fail(r, outcome) ==
    /\ Proceed(r, "failing")
    /\ failure' = [failure EXCEPT ![r] = outcome]

Request(r) ==
    /\ process = "serving"
    /\ state # "missing"
    /\ handler[r] = "none"
    /\ Proceed(r, "starting")
    /\ UNCHANGED <<job, disk, failure, thread, deadline, late, server,
                   uploader, born>>

\* start_upload: the first request of a job in time owns the upload; too
\* late a request interrupts the job; any other is a conflict.
StartUpload(r) ==
    /\ handler[r] = "starting"
    /\ IF state = "created"
         THEN /\ wake' = (wake \/ ~late)
              /\ state' = IF late THEN "interrupted" ELSE "uploading"
              /\ Proceed(r, IF late THEN "expired" ELSE "reading")
              /\ uploader' = IF late THEN uploader ELSE r
         ELSE /\ Proceed(r, "done")
              /\ UNCHANGED <<wake, state, uploader>>
    /\ UNCHANGED <<artifact, disk, failure, thread, loop, late, server, born>>

\* The parts are written below the work tree ...
ReadParts(r) ==
    /\ handler[r] = "reading"
    /\ work' = TRUE
    /\ Proceed(r, "read")
    /\ UNCHANGED <<job, files, failure, thread, deadline, late, server,
                   uploader, born>>

\* ... or the upload breaks off, before or after the first write.
ReadFails(r) ==
    /\ handler[r] \in {"reading", "read"}
    /\ Fail(r, "interrupted")
    /\ UNCHANGED <<job, disk, thread, deadline, late, server, uploader, born>>

MarkPackaging(r) ==
    /\ handler[r] = "read"
    /\ IF state = "uploading"
         THEN /\ state' = "packaging"
              /\ Proceed(r, "packaging")
              /\ thread' = [thread EXCEPT ![r] = "zip"]
         ELSE /\ Proceed(r, "done")
              /\ UNCHANGED <<state, thread>>
    /\ UNCHANGED <<artifact, disk, failure, deadline, late, server, uploader,
                   born>>

\* _package_and_publish, on a thread that outlives a cancelled handler.
Package(r) ==
    /\ thread[r] = "zip"
    /\ work
    /\ thread' = [thread EXCEPT ![r] = "moved"]
    /\ files' = files \cup {r}
    /\ born' = born \cup {r}
    /\ UNCHANGED <<job, work, handler, failure, deadline, late, server,
                   uploader>>

PackageFails(r) ==
    /\ thread[r] = "zip"
    /\ thread' = [thread EXCEPT ![r] = "failed"]
    /\ UNCHANGED <<job, disk, handler, failure, deadline, late, server,
                   uploader, born>>

\* Mutant: the transaction does not wait for the thread.
PublishArtifactEarly(r) ==
    /\ handler[r] = "packaging"
    /\ thread[r] \in {"zip", "moved"}
    /\ IF state = "packaging"
         THEN /\ state' = "ready"
              /\ artifact' = r
              /\ Proceed(r, "cleaning")
         ELSE /\ Proceed(r, "done")
              /\ UNCHANGED <<state, artifact>>
    /\ UNCHANGED <<disk, failure, thread, deadline, late, server, uploader,
                   born>>

\* publish_artifact makes the file the job's artifact and the job ready.
PublishArtifact(r) ==
    /\ handler[r] = "packaging"
    /\ thread[r] = "moved"
    /\ IF state = "packaging"
         THEN /\ state' = "ready"
              /\ artifact' = r
              /\ Proceed(r, "cleaning")
         ELSE /\ Proceed(r, "done")
              /\ UNCHANGED <<state, artifact>>
    /\ UNCHANGED <<disk, failure, thread, deadline, late, server, uploader,
                   born>>

\* The packaging or its transaction raised.
PackagingRaises(r) ==
    /\ handler[r] = "packaging"
    /\ thread[r] \in {"failed", "moved"}
    /\ Fail(r, "failed")
    /\ UNCHANGED <<job, disk, thread, deadline, late, server, uploader, born>>

\* validate_job_transition, for the two outcomes of fail_pre_dispatch.
MayFail(outcome) ==
    \/ state = outcome
    \/ state \in {"created", "uploading", "packaging"}
    \/ state = "ready" /\ outcome = "failed"

\* _record_upload_failure; an invalid transition escapes the handler before
\* its cleanup.
RecordFailure(r) ==
    /\ handler[r] = "failing"
    /\ wake' = TRUE
    /\ IF MayFail(failure[r])
         THEN state' = failure[r] /\ Proceed(r, "tidying")
         ELSE UNCHANGED state /\ Proceed(r, "done")
    /\ UNCHANGED <<artifact, disk, failure, thread, loop, late, server,
                   uploader, born>>

\* cleanup_work_best_effort: after the success, or in one of the except
\* clauses, which a cancellation leaves for good.
Cleanup(r) ==
    /\ handler[r] \in {"cleaning", "tidying", "expired"}
    /\ work' = FALSE
    /\ wake' = (wake \/ handler[r] = "expired")
    /\ Proceed(r, "done")
    /\ UNCHANGED <<job, files, failure, thread, loop, late, server, uploader,
                   born>>

-----------------------------------------------------------------------------
(* _created_deadline_loop.                                                 *)

Again == loop' = "query" /\ wake' = FALSE

NextCreatedDeadline ==
    /\ loop = "query"
    /\ loop' = IF state = "created" THEN "timed" ELSE "sleep"
    /\ UNCHANGED <<job, disk, requests, wake, late, server, uploader, born>>

Woken ==
    /\ loop \in {"sleep", "timed"}
    /\ wake
    /\ Again
    /\ UNCHANGED <<job, disk, requests, late, server, uploader, born>>

TimedOut ==
    /\ loop = "timed"
    /\ late
    /\ loop' = "expire"
    /\ UNCHANGED <<job, disk, requests, wake, late, server, uploader, born>>

\* Mutant: the state read with the deadline is not checked again.
ExpireStale ==
    /\ loop = "expire"
    /\ state' = "interrupted"
    /\ loop' = "clean"
    /\ UNCHANGED <<artifact, disk, requests, wake, late, server, uploader,
                   born>>

ExpireCreated ==
    /\ loop = "expire"
    /\ IF state = "created"
         THEN state' = "interrupted" /\ loop' = "clean" /\ UNCHANGED wake
         ELSE Again /\ UNCHANGED state
    /\ UNCHANGED <<artifact, disk, requests, late, server, uploader, born>>

\* Any other exception is logged, and the loop starts over.
LoopRaises ==
    /\ loop \in {"query", "expire"}
    /\ loop' = "retry"
    /\ UNCHANGED <<job, disk, requests, wake, late, server, uploader, born>>

Retry ==
    /\ loop = "retry"
    /\ Again
    /\ UNCHANGED <<job, disk, requests, late, server, uploader, born>>

CleanExpired ==
    /\ loop = "clean"
    /\ work' = FALSE
    /\ Again
    /\ UNCHANGED <<job, files, requests, late, server, uploader, born>>

-----------------------------------------------------------------------------
(* Shutdown, crash and startup.                                            *)

Trying == {"starting", "reading", "read", "packaging", "cleaning"}
Recording == {"failing", "tidying", "expired"}

\* runner.cleanup, as the start of a restart.
Shutdown ==
    /\ process = "serving"
    /\ recoveries < MaxRecoveries
    /\ process' = "closing"
    /\ UNCHANGED <<job, disk, requests, deadline, late, cleanup, recoveries,
                   uploader, born>>

\* aiohttp cancels the handlers that are left: one inside the try records an
\* interruption, one in an except clause ends.
Cancel(r) ==
    /\ process = "closing"
    /\ \/ handler[r] \in Trying /\ Fail(r, "interrupted")
       \/ handler[r] \in Recording /\ Proceed(r, "done") /\ UNCHANGED failure
    /\ UNCHANGED <<job, disk, thread, deadline, late, server, uploader, born>>

\* on_cleanup cancels the deadline loop once the handlers are gone.
OnCleanup ==
    /\ process = "closing"
    /\ \A r \in Requests : handler[r] \in {"none", "done"}
    /\ loop # "off"
    /\ loop' = "off"
    /\ UNCHANGED <<job, disk, requests, wake, late, server, uploader, born>>

\* The process ends, cleanly or not, and a new one opens the store.  What was
\* uploading, or created and late, is interrupted and its work tree put on
\* the cleanup list; a job whose file was lost meanwhile fails, but for
\* devices that may have it already.
Recover(lost) ==
    /\ recoveries < MaxRecoveries
    /\ recoveries' = recoveries + 1
    /\ process' = "starting"
    /\ files' = files \ lost
    /\ cleanup' = (\/ state \in {"uploading", "packaging"}
                   \/ state = "created" /\ late)
    /\ \/ cleanup' /\ state' = "interrupted"
       \/ /\ ~cleanup'
          /\ state \in {"ready", "running"} /\ artifact \notin files'
          /\ state' \in {"failed", state} \ {"ready"}
       \/ /\ ~cleanup'
          /\ ~(state \in {"ready", "running"} /\ artifact \notin files')
          /\ state' = state
    /\ handler' = [r \in Requests |->
                      IF handler[r] = "none" THEN "none" ELSE "done"]
    /\ thread' = [r \in Requests |-> "none"]
    /\ loop' = "off"
    /\ wake' = FALSE
    /\ UNCHANGED <<artifact, work, failure, late, uploader, born>>

\* Mutant: orphan files stay.
OnStartupKeeping ==
    /\ process = "starting"
    /\ process' = "serving"
    /\ work' = (work /\ ~cleanup)
    /\ cleanup' = FALSE
    /\ loop' = "query"
    /\ born' = {}
    /\ UNCHANGED <<job, files, requests, wake, late, recoveries, uploader>>

\* on_startup removes the work trees of the cleanup list and the files no
\* artifact row names, and starts the deadline loop.
OnStartup ==
    /\ process = "starting"
    /\ process' = "serving"
    /\ work' = (work /\ ~cleanup)
    /\ files' = files \cap {artifact}
    /\ cleanup' = FALSE
    /\ loop' = "query"
    /\ born' = {}
    /\ UNCHANGED <<job, requests, wake, late, recoveries, uploader>>

-----------------------------------------------------------------------------

UploadHandler(r) ==
    \/ StartUpload(r) \/ ReadParts(r) \/ ReadFails(r) \/ MarkPackaging(r)
    \/ PublishArtifact(r) \/ PackagingRaises(r) \/ RecordFailure(r)
    \/ Cleanup(r)

Thread(r) == Package(r) \/ PackageFails(r)

UploadNext ==
    \/ CreateJob \/ EnableDispatch \/ DeadlinePasses
    \/ \E r \in Requests :
           Request(r) \/ UploadHandler(r) \/ Thread(r) \/ Cancel(r)
    \/ NextCreatedDeadline \/ Woken \/ TimedOut \/ ExpireCreated
    \/ CleanExpired \/ LoopRaises \/ Retry
    \/ Shutdown \/ OnCleanup \/ OnStartup
    \/ \E lost \in SUBSET {artifact} : Recover(lost)

UploadSpec == UploadInit /\ [][UploadNext]_uploadVars

\* Time passes, the event loop runs the deadline task, whose transactions do
\* not raise for ever, and a server that is shut down is started again.
FairUploadSpec ==
    /\ UploadSpec
    /\ WF_uploadVars(DeadlinePasses)
    /\ WF_uploadVars(Woken \/ TimedOut \/ CleanExpired \/ Retry)
    /\ SF_uploadVars(NextCreatedDeadline)
    /\ SF_uploadVars(ExpireCreated)
    /\ WF_uploadVars(process = "closing" /\ Recover({}))
    /\ WF_uploadVars(OnStartup)

-----------------------------------------------------------------------------

UploadTypes ==
    /\ state \in {"missing", "created", "uploading", "packaging", "ready",
                  "running", "interrupted", "failed"}
    /\ artifact \in Requests \cup {NoRequest}
    /\ files \subseteq Requests
    /\ work \in BOOLEAN
    /\ handler \in [Requests -> {"none", "done"} \cup Trying \cup Recording]
    /\ failure \in [Requests -> {"none", "interrupted", "failed"}]
    /\ thread \in [Requests -> {"none", "zip", "moved", "failed"}]
    /\ loop \in {"query", "sleep", "timed", "expire", "clean",
                 "retry", "off"}
    /\ wake \in BOOLEAN
    /\ late \in BOOLEAN
    /\ process \in {"starting", "serving", "closing"}
    /\ cleanup \in BOOLEAN
    /\ recoveries \in 0 .. MaxRecoveries
    /\ uploader \in Requests \cup {NoRequest}
    /\ born \subseteq Requests

\* A job that may be dispatched has its bytes: whatever the order of a
\* cancelled handler, its packaging thread, a crash and the startup that
\* follows, or a file lost meanwhile, a ready job's artifact row names a file
\* that exists.
ReadyHasArtifact == state = "ready" => artifact \in files

\* A file that a crash left without an artifact row does not outlive the next
\* startup.
OrphansAreRecent == files \subseteq born \cup {artifact}

\* The owner's work tree is not removed under it: neither a duplicate
\* request, nor a late one, nor the deadline loop cleans up a running upload.
WorkIsKept ==
    \A r \in Requests :
        process = "serving" /\ handler[r] \in {"read", "packaging"} => work

\* While the server serves, an upload in progress is moved only by the
\* request that owns it: not by a duplicate of it, and not by the deadline.
OwnerMoves ==
    [][ /\ state \in {"uploading", "packaging"}
        /\ process = "serving"
        /\ process' = "serving"
        /\ state' # state
        => handler'[uploader] # handler[uploader] ]_uploadVars

\* A job whose upload never starts does not stay created.
CreatedSettles == state = "created" ~> state # "created"

=============================================================================
