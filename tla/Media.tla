-------------------------------- MODULE Media --------------------------------
(***************************************************************************)
(* What the live worker does with received files after a cycle: it drains  *)
(* the queue of media downloads, promotes what it downloaded into the      *)
(* resource catalog, and then transcribes downloaded voice notes. Files    *)
(* live in one directory per job, outside the database, and every          *)
(* statement can be the last before a crash.                               *)
(*                                                                         *)
(* A message has one media row, which has at most one job, one asset, one  *)
(* resource and one transcript, so one number identifies them all.         *)
(***************************************************************************)
EXTENDS Integers, FiniteSets

CONSTANTS
    N,             \* number of media, numbered by creation
    Audio,         \* the voice notes among them
    AutoPromote,   \* VIJI_LIVE_MEDIA_AUTO_PROMOTE_ENABLED
    DrainLimit,    \* VIJI_LIVE_MEDIA_DRAIN_LIMIT_PER_CYCLE
    AudioLimit,    \* VIJI_LIVE_AUDIO_TRANSCRIPTION_LIMIT_PER_CYCLE
    MaxInterrupts  \* bound: exceptions and crashes

Media == 1..N

ASSUME MediaAssumption ==
    /\ N \in Nat
    /\ Audio \subseteq Media
    /\ AutoPromote \in BOOLEAN
    /\ DrainLimit \in Nat \ {0} /\ AudioLimit \in Nat \ {0}
    /\ MaxInterrupts \in Nat

VARIABLES
    job,         \* msg_media_download_job_state, "absent" before INSERT
    state,       \* msg_message_media_download_state
    file,        \* what the job's directory holds
    asset,       \* does the media row have its res_file_assets row?
    resource,    \* is the asset in the resource catalog?
    transcript,  \* msg_message_media_transcript_status, "none" before INSERT
    body,        \* where msg_message_body comes from
    worker,      \* program counter and locals of the daemon
    interrupts   \* counts interrupts, up to MaxInterrupts

jobVars == <<job, state, file, asset, resource>>
audioVars == <<transcript, body>>
vars == <<job, state, file, asset, resource, transcript, body, worker, interrupts>>

JobStates == {"absent", "queued", "running", "downloaded", "failed", "blocked"}
DownloadStates == {"none", "queued", "downloaded", "failed", "blocked"}
FileStates == {"none", "partial", "whole"}
FinalTranscripts == {"transcribed", "low_confidence", "failed"}
TranscriptStates == FinalTranscripts \cup {"none", "pending"}
Bodies == {"none", "caption", "transcript"}

DrainSteps == {"draining", "claimed", "downloading", "completing", "cleaning",
               "failing", "noting failure", "blocking", "noting block", "promoting"}
AudioSteps == {"selecting", "hearing", "transcribing", "keeping", "giving up"}

\* "then" is what follows the cleaning, "heard" the verdict on a transcript.
Idle == [step |-> "idle", item |-> 0, left |-> 0, batch |-> {}, then |-> "idle",
         heard |-> "none"]

Init ==
    /\ job = [m \in Media |-> "absent"]
    /\ state = [m \in Media |-> "none"]
    /\ file = [m \in Media |-> "none"]
    /\ asset = [m \in Media |-> FALSE]
    /\ resource = [m \in Media |-> FALSE]
    /\ transcript = [m \in Media |-> "none"]
    /\ body = [m \in Media |-> "none"]
    /\ worker = Idle
    /\ interrupts = 0

At(step) == worker.step = step

Goto(step) == worker' = [worker EXCEPT !.step = step]

\* The next iteration of drainMediaDownloadQueue.
NextJob == worker' = [worker EXCEPT !.step = "draining", !.item = 0, !.then = "idle"]

NextAudio == worker' = [worker EXCEPT !.step = "hearing", !.item = 0, !.heard = "none"]

\* The lowest k numbers of S: ORDER BY created_at LIMIT k.
Oldest(S, k) == {m \in S : Cardinality({n \in S : n < m}) < k}
-----------------------------------------------------------------------------
(* Ingestion: message, media row and job in one transaction *)

\* createMediaDownloadJobIdempotent: one job per media row.
Enqueue(m) == job' = [job EXCEPT ![m] = IF @ = "absent" THEN "queued" ELSE @]

Ingest(m) ==
    /\ job[m] = "absent"
    /\ \A k \in 1..(m - 1) : job[k] # "absent"
    /\ Enqueue(m)
    /\ state' = [state EXCEPT ![m] = "queued"]
    /\ \E b \in {"none", "caption"} : body' = [body EXCEPT ![m] = b]
    /\ UNCHANGED <<file, asset, resource, transcript, worker, interrupts>>
-----------------------------------------------------------------------------
(* drainMediaDownloadQueue *)

Queued == {m \in Media : job[m] = "queued"}

StartDrain ==
    /\ At("idle")
    /\ worker' = [Idle EXCEPT !.step = "draining", !.left = DrainLimit]
    /\ UNCHANGED <<jobVars, audioVars, interrupts>>

\* claimNextQueuedMediaDownloadJob: one UPDATE .. FROM (SELECT .. LIMIT 1).
ClaimNext ==
    /\ At("draining") /\ worker.left > 0
    /\ \E m \in Oldest(Queued, 1) :
         /\ job' = [job EXCEPT ![m] = "running"]
         /\ worker' = [worker EXCEPT !.step = "claimed", !.item = m, !.left = @ - 1]
    /\ UNCHANGED <<state, file, asset, resource, audioVars, interrupts>>

EndDrain ==
    /\ At("draining")
    /\ worker.left = 0 \/ Queued = {}
    /\ Goto("selecting")
    /\ UNCHANGED <<jobVars, audioVars, interrupts>>

\* Any state of the storage but "healthy" blocks the claimed job, "warning" too.
CheckStorage ==
    /\ At("claimed")
    /\ Goto("downloading") \/ Goto("blocking")
    /\ UNCHANGED <<jobVars, audioVars, interrupts>>

DownloadSucceeds ==
    /\ At("downloading")
    /\ file' = [file EXCEPT ![worker.item] = "whole"]
    /\ Goto("completing")
    /\ UNCHANGED <<job, state, asset, resource, audioVars, interrupts>>

\* wacli fails, is killed, or does not say where it put the file.
DownloadFails ==
    /\ At("downloading")
    /\ \E f \in FileStates : file' = [file EXCEPT ![worker.item] = f]
    /\ worker' = [worker EXCEPT !.step = "cleaning", !.then = "failing"]
    /\ UNCHANGED <<job, state, asset, resource, audioVars, interrupts>>

\* cleanupPartialMediaDirectory swallows its own failure.
Clean ==
    /\ At("cleaning")
    /\ file' = [file EXCEPT ![worker.item] = "none"] \/ UNCHANGED file
    /\ Goto(worker.then)
    /\ UNCHANGED <<job, state, asset, resource, audioVars, interrupts>>

\* linkMessageMediaFileAsset: the asset and the state of the media row.
Link(m) ==
    /\ asset' = [asset EXCEPT ![m] = TRUE]
    /\ state' = [state EXCEPT ![m] = "downloaded"]

\* markMediaDownloadJobDownloaded
MarkDownloaded(m) == job' = [job EXCEPT ![m] = "downloaded"]

\* completeMediaJob: asset, link and both states in one transaction.
CompleteDownload ==
    /\ At("completing")
    /\ Link(worker.item)
    /\ MarkDownloaded(worker.item)
    /\ IF AutoPromote THEN Goto("promoting") ELSE NextJob
    /\ UNCHANGED <<file, resource, audioVars, interrupts>>

\* Mutant: no transaction, so the link is there when a later statement fails.
CompletionFailsMutant ==
    /\ At("completing")
    /\ Link(worker.item)
    /\ worker' = [worker EXCEPT !.step = "cleaning", !.then = "blocking"]
    /\ UNCHANGED <<job, file, resource, audioVars, interrupts>>

\* The path leaves the media root, is no file, or a statement fails.
CompletionFails ==
    /\ At("completing")
    /\ worker' = [worker EXCEPT !.step = "cleaning", !.then = "blocking"]
    /\ UNCHANGED <<jobVars, audioVars, interrupts>>

\* updateMessageMediaDownloadState
SetState(s) == state' = [state EXCEPT ![worker.item] = s]

\* failMediaJob writes the job, then the media row.
FailJob ==
    /\ At("failing")
    /\ job' = [job EXCEPT ![worker.item] = "failed"]
    /\ Goto("noting failure")
    /\ UNCHANGED <<state, file, asset, resource, audioVars, interrupts>>

NoteFailure ==
    /\ At("noting failure")
    /\ SetState("failed")
    /\ NextJob
    /\ UNCHANGED <<job, file, asset, resource, audioVars, interrupts>>

\* Mutant: a blocked job goes back to the queue at once.
BlockJobMutant ==
    /\ At("blocking")
    /\ job' = [job EXCEPT ![worker.item] = "queued"]
    /\ Goto("noting block")
    /\ UNCHANGED <<state, file, asset, resource, audioVars, interrupts>>

\* So does blockMediaJob.
BlockJob ==
    /\ At("blocking")
    /\ job' = [job EXCEPT ![worker.item] = "blocked"]
    /\ Goto("noting block")
    /\ UNCHANGED <<state, file, asset, resource, audioVars, interrupts>>

NoteBlock ==
    /\ At("noting block")
    /\ SetState("blocked")
    /\ NextJob
    /\ UNCHANGED <<job, file, asset, resource, audioVars, interrupts>>

\* promoteDownloadedMessageMediaToResource, of a row that was downloaded.
Promote ==
    /\ At("promoting")
    /\ IF state[worker.item] = "downloaded" /\ asset[worker.item]
       THEN resource' = [resource EXCEPT ![worker.item] = TRUE]
       ELSE UNCHANGED resource
    /\ NextJob
    /\ UNCHANGED <<job, state, file, asset, audioVars, interrupts>>
-----------------------------------------------------------------------------
(* drainAudioTranscriptionQueue *)

\* findDownloadedAudioMediaForTranscription: no transcript row at all.
Candidates == {m \in Audio : state[m] = "downloaded" /\ transcript[m] = "none"}

\* upsertMessageMediaTranscript: one transcript per media row, the last one stays.
PutTranscript(m, status) == transcript' = [transcript EXCEPT ![m] = status]

\* applyTranscriptToInboundAudioMessage
FillBody == body' = [body EXCEPT ![worker.item] = IF @ = "none" THEN "transcript" ELSE @]

SelectAudio ==
    /\ At("selecting")
    /\ worker' = [Idle EXCEPT !.step = "hearing", !.batch = Oldest(Candidates, AudioLimit)]
    /\ UNCHANGED <<jobVars, audioVars, interrupts>>

\* transcribeDownloadedAudioMedia leaves a finished transcript alone and marks
\* the others "pending" before it calls the speech model.
Hear(m) ==
    /\ At("hearing")
    /\ m \in Oldest(worker.batch, 1)
    /\ IF transcript[m] \in FinalTranscripts
       THEN /\ worker' = [worker EXCEPT !.batch = @ \ {m}]
            /\ UNCHANGED transcript
       ELSE /\ PutTranscript(m, "pending")
            /\ worker' = [worker EXCEPT !.step = "transcribing", !.item = m,
                                        !.batch = @ \ {m}]
    /\ UNCHANGED <<jobVars, body, interrupts>>

\* An empty text counts as low confidence.
Verdicts == {"transcribed", "low_confidence"}

\* transcribeAudioFile: the file is transcoded and given to a command under a
\* timeout, whose answer need not name a confidence.
Transcribe ==
    /\ At("transcribing")
    /\ \E verdict \in Verdicts :
         worker' = [worker EXCEPT !.step = "keeping", !.heard = verdict]
    /\ UNCHANGED <<jobVars, audioVars, interrupts>>

\* Mutant: a doubtful transcript is applied as well.
KeepTranscriptDoubtful ==
    /\ At("keeping")
    /\ PutTranscript(worker.item, worker.heard)
    /\ FillBody
    /\ NextAudio
    /\ UNCHANGED <<jobVars, interrupts>>

\* recordSuccessfulTranscript, one transaction: only a confident transcript
\* becomes the message's body, and only if it has none.
KeepTranscript ==
    /\ At("keeping")
    /\ PutTranscript(worker.item, worker.heard)
    /\ IF worker.heard = "transcribed" THEN FillBody ELSE UNCHANGED body
    /\ NextAudio
    /\ UNCHANGED <<jobVars, interrupts>>

\* The model fails, or the transaction that keeps its answer: both are caught.
TranscriptionFails ==
    /\ worker.step \in {"transcribing", "keeping"}
    /\ Goto("giving up")
    /\ UNCHANGED <<jobVars, audioVars, interrupts>>

\* Mutant: the failure is not recorded.
RecordFailureMutant ==
    /\ At("giving up")
    /\ NextAudio
    /\ UNCHANGED <<jobVars, audioVars, interrupts>>

RecordFailure ==
    /\ At("giving up")
    /\ PutTranscript(worker.item, "failed")
    /\ NextAudio
    /\ UNCHANGED <<jobVars, body, interrupts>>

EndAudio ==
    /\ At("hearing")
    /\ worker.batch = {}
    /\ worker' = Idle
    /\ UNCHANGED <<jobVars, audioVars, interrupts>>
-----------------------------------------------------------------------------
(* Failures: the daemon catches an exception of either drain and goes on with *)
(* what follows it; a crash starts it anew.                                   *)

Throw ==
    /\ ~At("idle") /\ interrupts < MaxInterrupts
    /\ interrupts' = interrupts + 1
    /\ worker' = IF worker.step \in DrainSteps THEN [Idle EXCEPT !.step = "selecting"]
                 ELSE Idle
    /\ UNCHANGED <<jobVars, audioVars>>

\* A download cut short leaves whatever it had written.
Crash ==
    /\ ~At("idle") /\ interrupts < MaxInterrupts
    /\ interrupts' = interrupts + 1
    /\ worker' = Idle
    /\ IF At("downloading")
       THEN \E f \in FileStates : file' = [file EXCEPT ![worker.item] = f]
       ELSE UNCHANGED file
    /\ UNCHANGED <<job, state, asset, resource, audioVars>>
-----------------------------------------------------------------------------
Work ==
    \/ StartDrain \/ ClaimNext \/ EndDrain \/ CheckStorage
    \/ DownloadSucceeds \/ DownloadFails \/ Clean
    \/ CompleteDownload \/ CompletionFails
    \/ FailJob \/ NoteFailure \/ BlockJob \/ NoteBlock \/ Promote
    \/ SelectAudio \/ (\E m \in Audio : Hear(m)) \/ Transcribe
    \/ KeepTranscript \/ TranscriptionFails \/ RecordFailure \/ EndAudio

Next == Work \/ Throw \/ Crash \/ \E m \in Media : Ingest(m)

Spec == Init /\ [][Next]_vars

\* The daemon drains after every cycle, and every call in a drain ends: wacli
\* and the speech model run under timeouts.
FairSpec == Spec /\ WF_vars(Work)
-----------------------------------------------------------------------------
(* Properties *)

\* The state is what the tables' CHECK constraints and the code's types say.
TypeOK ==
    /\ job \in [Media -> JobStates]
    /\ state \in [Media -> DownloadStates]
    /\ file \in [Media -> FileStates]
    /\ asset \in [Media -> BOOLEAN]
    /\ resource \in [Media -> BOOLEAN]
    /\ transcript \in [Media -> TranscriptStates]
    /\ body \in [Media -> Bodies]
    /\ worker \in [step : DrainSteps \cup AudioSteps \cup {"idle"}, item : 0..N,
                   left : 0..DrainLimit, batch : SUBSET Media,
                   then : {"idle", "failing", "blocking"},
                   heard : {"none", "transcribed", "low_confidence"}]
    /\ interrupts \in 0..MaxInterrupts

FilesAgree ==
    \A m \in Media :
        /\ job[m] = "downloaded" <=> state[m] = "downloaded"
        /\ job[m] = "downloaded" <=> asset[m]
        /\ asset[m] => file[m] = "whole"
        /\ resource[m] => asset[m]

\* Whatever is interrupted or cleaned up, job, media row and asset agree that
\* a file was downloaded, and what has an asset or is offered as a resource is
\* whole on disk: the clean-up never takes a file that the database knows.
AssetsHaveFiles == TypeOK /\ FilesAgree

\* A voice note without text gets a body, and with it becomes visible to the
\* automation, exactly when a confident transcript is recorded: the doubtful,
\* failed and interrupted ones never put words into the requester's mouth.
BodyIffTranscribed ==
    \A m \in Media :
        /\ body[m] = "transcript" => transcript[m] = "transcribed"
        /\ transcript[m] = "transcribed" => body[m] # "none"

\* A job an interruption left "running": no later drain claims it.
Stranded(m) == job[m] = "running" /\ worker.item # m

\* Every queued download is decided in the end, or stranded: neither a failing
\* adapter nor a full disk keeps the queue from moving.
EveryDownloadSettles ==
    \A m \in Media :
        job[m] = "queued" ~>
            job[m] \in {"downloaded", "failed", "blocked"}
            \/ (Stranded(m) /\ interrupts > 0)

\* Every downloaded voice note is transcribed or given up on, unless an
\* interruption leaves its transcript "pending".
EveryVoiceIsHeard ==
    \A m \in Audio :
        state[m] = "downloaded" ~>
            transcript[m] \in FinalTranscripts
            \/ (transcript[m] = "pending" /\ interrupts > 0)
=============================================================================
