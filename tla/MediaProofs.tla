----------------------------- MODULE MediaProofs -----------------------------
(***************************************************************************)
(* Theorems about Media, for every number of files, every choice of voice  *)
(* notes, and every bound.                                                 *)
(***************************************************************************)
EXTENDS Media, TLAPS

\* The steps at which a claimed job is still the worker's.
ClaimedSteps == {"claimed", "downloading", "completing", "cleaning", "failing", "blocking"}

ItemSteps == ClaimedSteps \cup {"noting failure", "noting block", "promoting"}

VoiceSteps == {"transcribing", "keeping", "giving up"}

\* What the daemon knows of the file in hand, at the place where it is.
WorkerKnows ==
    /\ worker.step \in ItemSteps \cup VoiceSteps => worker.item \in Media
    /\ worker.step \in ClaimedSteps => job[worker.item] = "running"
    /\ At("noting failure") => job[worker.item] = "failed"
    /\ At("noting block") => job[worker.item] = "blocked"
    /\ At("completing") => file[worker.item] = "whole"
    /\ At("cleaning") => worker.then \in {"failing", "blocking"}
    /\ worker.step \in VoiceSteps => transcript[worker.item] = "pending"
    /\ At("keeping") => worker.heard \in Verdicts

\* Nothing is transcribed, or selected for it, before it was received.
ReceivedFirst ==
    /\ \A m \in Media : transcript[m] # "none" => job[m] # "absent"
    /\ \A m \in worker.batch : job[m] # "absent"

IInv == TypeOK /\ WorkerKnows /\ ReceivedFirst /\ AssetsHaveFiles /\ BodyIffTranscribed

LEMMA InitEstablishes == Init => IInv
<1> SUFFICES ASSUME Init PROVE IInv
  OBVIOUS
<1>1. TypeOK
  BY MediaAssumption
     DEF MediaAssumption, Init, TypeOK, Idle, JobStates, DownloadStates, FileStates,
         TranscriptStates, Bodies
<1>2. WorkerKnows /\ ReceivedFirst
  BY DEF Init, WorkerKnows, ReceivedFirst, Idle, At, ClaimedSteps, ItemSteps, VoiceSteps
<1>3. FilesAgree /\ BodyIffTranscribed
  BY DEF Init, FilesAgree, BodyIffTranscribed
<1> QED
  BY <1>1, <1>2, <1>3 DEF IInv, AssetsHaveFiles
-----------------------------------------------------------------------------
(* Each part of the invariant, action by action *)

\* The state but for the worker, and the worker.
Tables ==
    /\ job \in [Media -> JobStates]
    /\ state \in [Media -> DownloadStates]
    /\ file \in [Media -> FileStates]
    /\ asset \in [Media -> BOOLEAN]
    /\ resource \in [Media -> BOOLEAN]
    /\ transcript \in [Media -> TranscriptStates]
    /\ body \in [Media -> Bodies]
    /\ interrupts \in 0..MaxInterrupts

Steps == DrainSteps \cup AudioSteps \cup {"idle"}

Workers == [step : Steps, item : 0..N, left : 0..DrainLimit, batch : SUBSET Media,
            then : {"idle", "failing", "blocking"},
            heard : {"none", "transcribed", "low_confidence"}]

\* The worker that has nothing in hand is one of them.
LEMMA WorkerInit == Idle \in Workers
  BY MediaAssumption DEF MediaAssumption, Idle, Workers, Steps

\* The numbers that an action puts into the worker.
LEMMA WorkerNumbers ==
    /\ 0 \in 0..N /\ Media \subseteq 0..N /\ Audio \subseteq Media
    /\ DrainLimit \in 0..DrainLimit
    /\ \A k \in 0..DrainLimit : k > 0 => k - 1 \in 0..DrainLimit
  BY MediaAssumption DEF MediaAssumption, Media

\* The names of the steps, so that no proof below need list them all.
LEMMA StepNames ==
    /\ {"idle", "draining", "claimed", "downloading", "completing", "cleaning"} \subseteq Steps
    /\ {"failing", "noting failure", "blocking", "noting block", "promoting"} \subseteq Steps
    /\ {"selecting", "hearing", "transcribing", "keeping", "giving up"} \subseteq Steps
  BY DEF Steps, DrainSteps, AudioSteps

\* Interrupts stay below their bound.
LEMMA Counted ==
    ASSUME TypeOK, Throw \/ Crash PROVE interrupts' \in 0..MaxInterrupts
  BY MediaAssumption DEF MediaAssumption, TypeOK, Throw, Crash

LEMMA TablesStep == ASSUME IInv, [Next]_vars PROVE Tables'
<1> USE MediaAssumption
    DEF MediaAssumption, IInv, TypeOK, Tables, WorkerKnows, At, jobVars, audioVars, JobStates,
        DownloadStates, FileStates, FinalTranscripts, TranscriptStates, Bodies,
        ClaimedSteps, ItemSteps, VoiceSteps, Verdicts
<1>1. CASE StartDrain
  BY <1>1 DEF StartDrain, Idle
<1>2. CASE ClaimNext
  BY <1>2 DEF ClaimNext, Oldest, Queued
<1>3. CASE EndDrain
  BY <1>3 DEF EndDrain, Goto
<1>4. CASE CheckStorage
  BY <1>4 DEF CheckStorage, Goto
<1>5. CASE DownloadSucceeds
  BY <1>5 DEF DownloadSucceeds, Goto
<1>6. CASE DownloadFails
  BY <1>6 DEF DownloadFails, Goto
<1>7. CASE Clean
  BY <1>7 DEF Clean, Goto
<1>8. CASE CompleteDownload
  BY <1>8 DEF CompleteDownload, Link, MarkDownloaded, Goto, NextJob
<1>9. CASE CompletionFails
  BY <1>9 DEF CompletionFails
<1>10. CASE FailJob
  BY <1>10 DEF FailJob, Goto
<1>11. CASE NoteFailure
  BY <1>11 DEF NoteFailure, SetState, NextJob
<1>12. CASE BlockJob
  BY <1>12 DEF BlockJob, Goto
<1>13. CASE NoteBlock
  BY <1>13 DEF NoteBlock, SetState, NextJob
<1>14. CASE Promote
  BY <1>14 DEF Promote, NextJob
<1>15. CASE SelectAudio
  BY <1>15 DEF SelectAudio, Oldest, Candidates, Idle
<1>16. ASSUME NEW m \in Audio, Hear(m) PROVE Tables'
  BY <1>16 DEF Hear, Oldest, PutTranscript
<1>17. CASE Transcribe
  BY <1>17 DEF Transcribe, Verdicts
<1>18. CASE KeepTranscript
  BY <1>18 DEF KeepTranscript, PutTranscript, FillBody, NextAudio
<1>19. CASE TranscriptionFails
  BY <1>19 DEF TranscriptionFails, Goto
<1>20. CASE RecordFailure
  BY <1>20 DEF RecordFailure, PutTranscript, NextAudio
<1>21. CASE EndAudio
  BY <1>21 DEF EndAudio, Idle
<1>22. CASE Throw
  <2>1. UNCHANGED <<job, state, file, asset, resource, transcript, body>>
    BY <1>22 DEF Throw
  <2>2. interrupts' \in 0..MaxInterrupts
    BY <1>22, Counted
  <2> QED
    BY <2>1, <2>2
<1>23. CASE Crash
  <2>1. \/ UNCHANGED file
        \/ /\ At("downloading")
           /\ \E f \in FileStates : file' = [file EXCEPT ![worker.item] = f]
    BY <1>23 DEF Crash
  <2>2. UNCHANGED <<job, state, asset, resource, transcript, body>>
    BY <1>23 DEF Crash
  <2>3. interrupts' \in 0..MaxInterrupts
    BY <1>23, Counted
  <2>4. file' \in [Media -> FileStates]
    BY <2>1
  <2> QED
    BY <2>2, <2>3, <2>4
<1>24. ASSUME NEW m \in Media, Ingest(m) PROVE Tables'
  <2>1. /\ state' = [state EXCEPT ![m] = "queued"]
        /\ job' = [job EXCEPT ![m] = "queued"]
        /\ \E b \in {"none", "caption"} : body' = [body EXCEPT ![m] = b]
    BY <1>24 DEF Ingest, Enqueue
  <2>2. UNCHANGED <<file, asset, resource, transcript, interrupts>>
    BY <1>24 DEF Ingest
  <2>3. job' \in [Media -> JobStates]
    BY <2>1
  <2>4. state' \in [Media -> DownloadStates]
    BY <2>1
  <2>5. body' \in [Media -> Bodies]
    BY <2>1
  <2> QED
    BY <2>2, <2>3, <2>4, <2>5
<1>25. CASE UNCHANGED vars
  BY <1>25 DEF vars
<1> QED
  BY <1>1, <1>2, <1>3, <1>4, <1>5, <1>6, <1>7, <1>8, <1>9, <1>10, <1>11, <1>12, <1>13, <1>14,
     <1>15, <1>16, <1>17, <1>18, <1>19, <1>20, <1>21, <1>22, <1>23, <1>24, <1>25 DEF Next, Work

LEMMA WorkerStep == ASSUME worker \in Workers, [Next]_vars PROVE worker' \in Workers
<1> USE StepNames, WorkerInit, WorkerNumbers DEF Workers, At
<1>1. CASE StartDrain
  BY <1>1 DEF StartDrain
<1>2. CASE ClaimNext
  BY <1>2 DEF ClaimNext, Oldest, Queued
<1>3. CASE EndDrain
  BY <1>3 DEF EndDrain, Goto
<1>4. CASE CheckStorage
  BY <1>4 DEF CheckStorage, Goto
<1>5. CASE DownloadSucceeds
  BY <1>5 DEF DownloadSucceeds, Goto
<1>6. CASE DownloadFails
  BY <1>6 DEF DownloadFails, Goto
<1>7. CASE Clean
  BY <1>7 DEF Clean, Goto
<1>8. CASE CompleteDownload
  BY <1>8 DEF CompleteDownload, Link, MarkDownloaded, Goto, NextJob
<1>9. CASE CompletionFails
  BY <1>9 DEF CompletionFails
<1>10. CASE FailJob
  BY <1>10 DEF FailJob, Goto
<1>11. CASE NoteFailure
  BY <1>11 DEF NoteFailure, SetState, NextJob
<1>12. CASE BlockJob
  BY <1>12 DEF BlockJob, Goto
<1>13. CASE NoteBlock
  BY <1>13 DEF NoteBlock, SetState, NextJob
<1>14. CASE Promote
  BY <1>14 DEF Promote, NextJob
<1>15. CASE SelectAudio
  <2>1. Oldest(Candidates, AudioLimit) \subseteq Media
    BY DEF Oldest, Candidates
  <2> QED
    BY <1>15, <2>1 DEF SelectAudio
<1>16. ASSUME NEW m \in Audio, Hear(m) PROVE worker' \in Workers
  BY <1>16 DEF Hear, Oldest, PutTranscript
<1>17. CASE Transcribe
  BY <1>17 DEF Transcribe, Verdicts
<1>18. CASE KeepTranscript
  BY <1>18 DEF KeepTranscript, PutTranscript, FillBody, NextAudio
<1>19. CASE TranscriptionFails
  BY <1>19 DEF TranscriptionFails, Goto
<1>20. CASE RecordFailure
  BY <1>20 DEF RecordFailure, PutTranscript, NextAudio
<1>21. CASE EndAudio
  BY <1>21 DEF EndAudio
<1>22. CASE Throw
  BY <1>22 DEF Throw
<1>23. CASE Crash
  BY <1>23 DEF Crash
<1>24. ASSUME NEW m \in Media, Ingest(m) PROVE worker' \in Workers
  BY <1>24 DEF Ingest, Enqueue
<1>25. CASE UNCHANGED vars
  BY <1>25 DEF vars
<1> QED
  BY <1>1, <1>2, <1>3, <1>4, <1>5, <1>6, <1>7, <1>8, <1>9, <1>10, <1>11, <1>12, <1>13, <1>14,
     <1>15, <1>16, <1>17, <1>18, <1>19, <1>20, <1>21, <1>22, <1>23, <1>24, <1>25 DEF Next, Work

LEMMA KnowsStep == ASSUME IInv, [Next]_vars PROVE WorkerKnows'
<1> USE MediaAssumption
    DEF MediaAssumption, IInv, TypeOK, WorkerKnows, At, jobVars, audioVars,
        ClaimedSteps, ItemSteps, VoiceSteps
<1>1. CASE StartDrain
  BY <1>1 DEF StartDrain, Idle
<1>2. CASE ClaimNext
  BY <1>2 DEF ClaimNext, Oldest, Queued
<1>3. CASE EndDrain
  BY <1>3 DEF EndDrain, Goto
<1>4. CASE CheckStorage
  BY <1>4 DEF CheckStorage, Goto
<1>5. CASE DownloadSucceeds
  BY <1>5 DEF DownloadSucceeds, Goto
<1>6. CASE DownloadFails
  BY <1>6 DEF DownloadFails, Goto
<1>7. CASE Clean
  BY <1>7 DEF Clean, Goto
<1>8. CASE CompleteDownload
  BY <1>8 DEF CompleteDownload, Link, MarkDownloaded, Goto, NextJob
<1>9. CASE CompletionFails
  BY <1>9 DEF CompletionFails
<1>10. CASE FailJob
  BY <1>10 DEF FailJob, Goto
<1>11. CASE NoteFailure
  BY <1>11 DEF NoteFailure, SetState, NextJob
<1>12. CASE BlockJob
  BY <1>12 DEF BlockJob, Goto
<1>13. CASE NoteBlock
  BY <1>13 DEF NoteBlock, SetState, NextJob
<1>14. CASE Promote
  BY <1>14 DEF Promote, NextJob
<1>15. CASE SelectAudio
  BY <1>15 DEF SelectAudio, Oldest, Candidates, Idle
<1>16. ASSUME NEW m \in Audio, Hear(m) PROVE WorkerKnows'
  <2>1. CASE UNCHANGED transcript /\ worker' = [worker EXCEPT !.batch = @ \ {m}]
    BY <1>16, <2>1 DEF Hear
  <2>2. CASE /\ transcript' = [transcript EXCEPT ![m] = "pending"]
             /\ worker' = [worker EXCEPT !.step = "transcribing", !.item = m,
                                         !.batch = @ \ {m}]
    BY <1>16, <2>2 DEF Hear, Oldest
  <2> QED
    BY <1>16, <2>1, <2>2 DEF Hear, PutTranscript
<1>17. CASE Transcribe
  BY <1>17 DEF Transcribe, Verdicts
<1>18. CASE KeepTranscript
  BY <1>18 DEF KeepTranscript, PutTranscript, FillBody, NextAudio
<1>19. CASE TranscriptionFails
  BY <1>19 DEF TranscriptionFails, Goto
<1>20. CASE RecordFailure
  BY <1>20 DEF RecordFailure, PutTranscript, NextAudio
<1>21. CASE EndAudio
  BY <1>21 DEF EndAudio, Idle
<1>22. CASE Throw
  BY <1>22 DEF Throw, Idle
<1>23. CASE Crash
  BY <1>23 DEF Crash, Idle
<1>24. ASSUME NEW m \in Media, Ingest(m) PROVE WorkerKnows'
  BY <1>24 DEF Ingest, Enqueue
<1>25. CASE UNCHANGED vars
  BY <1>25 DEF vars
<1> QED
  BY <1>1, <1>2, <1>3, <1>4, <1>5, <1>6, <1>7, <1>8, <1>9, <1>10, <1>11, <1>12, <1>13, <1>14,
     <1>15, <1>16, <1>17, <1>18, <1>19, <1>20, <1>21, <1>22, <1>23, <1>24, <1>25 DEF Next, Work

LEMMA ReceivedStep == ASSUME IInv, [Next]_vars PROVE ReceivedFirst'
<1> USE MediaAssumption
    DEF MediaAssumption, IInv, TypeOK, WorkerKnows, ReceivedFirst, At, jobVars, audioVars,
        ClaimedSteps, ItemSteps, VoiceSteps, AssetsHaveFiles, FilesAgree
<1>1. CASE StartDrain
  BY <1>1 DEF StartDrain, Idle
<1>2. CASE ClaimNext
  BY <1>2 DEF ClaimNext, Oldest, Queued
<1>3. CASE EndDrain
  BY <1>3 DEF EndDrain, Goto
<1>4. CASE CheckStorage
  BY <1>4 DEF CheckStorage, Goto
<1>5. CASE DownloadSucceeds
  BY <1>5 DEF DownloadSucceeds, Goto
<1>6. CASE DownloadFails
  BY <1>6 DEF DownloadFails, Goto
<1>7. CASE Clean
  BY <1>7 DEF Clean, Goto
<1>8. CASE CompleteDownload
  BY <1>8 DEF CompleteDownload, Link, MarkDownloaded, Goto, NextJob
<1>9. CASE CompletionFails
  BY <1>9 DEF CompletionFails
<1>10. CASE FailJob
  BY <1>10 DEF FailJob, Goto
<1>11. CASE NoteFailure
  BY <1>11 DEF NoteFailure, SetState, NextJob
<1>12. CASE BlockJob
  BY <1>12 DEF BlockJob, Goto
<1>13. CASE NoteBlock
  BY <1>13 DEF NoteBlock, SetState, NextJob
<1>14. CASE Promote
  BY <1>14 DEF Promote, NextJob
<1>15. CASE SelectAudio
  BY <1>15 DEF SelectAudio, Oldest, Candidates, Idle
<1>16. ASSUME NEW m \in Audio, Hear(m) PROVE ReceivedFirst'
  <2>1. CASE UNCHANGED transcript /\ worker' = [worker EXCEPT !.batch = @ \ {m}]
    BY <1>16, <2>1 DEF Hear
  <2>2. CASE /\ transcript' = [transcript EXCEPT ![m] = "pending"]
             /\ worker' = [worker EXCEPT !.step = "transcribing", !.item = m,
                                         !.batch = @ \ {m}]
    BY <1>16, <2>2 DEF Hear, Oldest
  <2> QED
    BY <1>16, <2>1, <2>2 DEF Hear, PutTranscript
<1>17. CASE Transcribe
  BY <1>17 DEF Transcribe, Verdicts
<1>18. CASE KeepTranscript
  BY <1>18 DEF KeepTranscript, PutTranscript, FillBody, NextAudio
<1>19. CASE TranscriptionFails
  BY <1>19 DEF TranscriptionFails, Goto
<1>20. CASE RecordFailure
  BY <1>20 DEF RecordFailure, PutTranscript, NextAudio
<1>21. CASE EndAudio
  BY <1>21 DEF EndAudio, Idle
<1>22. CASE Throw
  BY <1>22 DEF Throw, Idle
<1>23. CASE Crash
  BY <1>23 DEF Crash, Idle
<1>24. ASSUME NEW m \in Media, Ingest(m) PROVE ReceivedFirst'
  BY <1>24 DEF Ingest, Enqueue
<1>25. CASE UNCHANGED vars
  BY <1>25 DEF vars
<1> QED
  BY <1>1, <1>2, <1>3, <1>4, <1>5, <1>6, <1>7, <1>8, <1>9, <1>10, <1>11, <1>12, <1>13, <1>14,
     <1>15, <1>16, <1>17, <1>18, <1>19, <1>20, <1>21, <1>22, <1>23, <1>24, <1>25 DEF Next, Work

LEMMA FilesStep == ASSUME IInv, [Next]_vars PROVE FilesAgree'
<1> USE MediaAssumption
    DEF MediaAssumption, IInv, TypeOK, WorkerKnows, AssetsHaveFiles, FilesAgree, At,
        jobVars, audioVars,
        ClaimedSteps, ItemSteps, VoiceSteps
<1>1. CASE StartDrain
  BY <1>1 DEF StartDrain, Idle
<1>2. CASE ClaimNext
  BY <1>2 DEF ClaimNext, Oldest, Queued
<1>3. CASE EndDrain
  BY <1>3 DEF EndDrain, Goto
<1>4. CASE CheckStorage
  BY <1>4 DEF CheckStorage, Goto
<1>5. CASE DownloadSucceeds
  BY <1>5 DEF DownloadSucceeds, Goto
<1>6. CASE DownloadFails
  BY <1>6 DEF DownloadFails, Goto
<1>7. CASE Clean
  BY <1>7 DEF Clean, Goto
<1>8. CASE CompleteDownload
  BY <1>8 DEF CompleteDownload, Link, MarkDownloaded, Goto, NextJob
<1>9. CASE CompletionFails
  BY <1>9 DEF CompletionFails
<1>10. CASE FailJob
  BY <1>10 DEF FailJob, Goto
<1>11. CASE NoteFailure
  BY <1>11 DEF NoteFailure, SetState, NextJob
<1>12. CASE BlockJob
  BY <1>12 DEF BlockJob, Goto
<1>13. CASE NoteBlock
  BY <1>13 DEF NoteBlock, SetState, NextJob
<1>14. CASE Promote
  BY <1>14 DEF Promote, NextJob
<1>15. CASE SelectAudio
  BY <1>15 DEF SelectAudio, Oldest, Candidates, Idle
<1>16. ASSUME NEW m \in Audio, Hear(m) PROVE FilesAgree'
  BY <1>16 DEF Hear, Oldest, PutTranscript
<1>17. CASE Transcribe
  BY <1>17 DEF Transcribe, Verdicts
<1>18. CASE KeepTranscript
  BY <1>18 DEF KeepTranscript, PutTranscript, FillBody, NextAudio
<1>19. CASE TranscriptionFails
  BY <1>19 DEF TranscriptionFails, Goto
<1>20. CASE RecordFailure
  BY <1>20 DEF RecordFailure, PutTranscript, NextAudio
<1>21. CASE EndAudio
  BY <1>21 DEF EndAudio, Idle
<1>22. CASE Throw
  BY <1>22 DEF Throw, Idle
<1>23. CASE Crash
  <2>1. \/ UNCHANGED file
        \/ /\ At("downloading")
           /\ \E f \in FileStates : file' = [file EXCEPT ![worker.item] = f]
    BY <1>23 DEF Crash
  <2>2. UNCHANGED <<job, state, asset, resource, transcript, body>>
    BY <1>23 DEF Crash
  <2>3. CASE UNCHANGED file
    BY <2>2, <2>3
  <2>4. ASSUME NEW f \in FileStates, At("downloading"),
               file' = [file EXCEPT ![worker.item] = f]
        PROVE  FilesAgree'
    <3>1. worker.item \in Media /\ job[worker.item] = "running"
      BY <2>4
    <3>2. ~asset[worker.item]
      BY <3>1
    <3> QED
      BY <2>2, <2>4, <3>1, <3>2
  <2> QED
    BY <2>1, <2>3, <2>4
<1>24. ASSUME NEW m \in Media, Ingest(m) PROVE FilesAgree'
  BY <1>24 DEF Ingest, Enqueue
<1>25. CASE UNCHANGED vars
  BY <1>25 DEF vars
<1> QED
  BY <1>1, <1>2, <1>3, <1>4, <1>5, <1>6, <1>7, <1>8, <1>9, <1>10, <1>11, <1>12, <1>13, <1>14,
     <1>15, <1>16, <1>17, <1>18, <1>19, <1>20, <1>21, <1>22, <1>23, <1>24, <1>25 DEF Next, Work

LEMMA BodyStep == ASSUME IInv, [Next]_vars PROVE BodyIffTranscribed'
<1> USE MediaAssumption
    DEF MediaAssumption, IInv, TypeOK, WorkerKnows, ReceivedFirst, BodyIffTranscribed, At,
        jobVars, audioVars,
        ClaimedSteps, ItemSteps, VoiceSteps, FinalTranscripts
<1>1. CASE StartDrain
  BY <1>1 DEF StartDrain, Idle
<1>2. CASE ClaimNext
  BY <1>2 DEF ClaimNext, Oldest, Queued
<1>3. CASE EndDrain
  BY <1>3 DEF EndDrain, Goto
<1>4. CASE CheckStorage
  BY <1>4 DEF CheckStorage, Goto
<1>5. CASE DownloadSucceeds
  BY <1>5 DEF DownloadSucceeds, Goto
<1>6. CASE DownloadFails
  BY <1>6 DEF DownloadFails, Goto
<1>7. CASE Clean
  BY <1>7 DEF Clean, Goto
<1>8. CASE CompleteDownload
  BY <1>8 DEF CompleteDownload, Link, MarkDownloaded, Goto, NextJob
<1>9. CASE CompletionFails
  BY <1>9 DEF CompletionFails
<1>10. CASE FailJob
  BY <1>10 DEF FailJob, Goto
<1>11. CASE NoteFailure
  BY <1>11 DEF NoteFailure, SetState, NextJob
<1>12. CASE BlockJob
  BY <1>12 DEF BlockJob, Goto
<1>13. CASE NoteBlock
  BY <1>13 DEF NoteBlock, SetState, NextJob
<1>14. CASE Promote
  BY <1>14 DEF Promote, NextJob
<1>15. CASE SelectAudio
  BY <1>15 DEF SelectAudio, Oldest, Candidates, Idle
<1>16. ASSUME NEW m \in Audio, Hear(m) PROVE BodyIffTranscribed'
  BY <1>16 DEF Hear, Oldest, PutTranscript
<1>17. CASE Transcribe
  BY <1>17 DEF Transcribe, Verdicts
<1>18. CASE KeepTranscript
  BY <1>18 DEF KeepTranscript, PutTranscript, FillBody, NextAudio
<1>19. CASE TranscriptionFails
  BY <1>19 DEF TranscriptionFails, Goto
<1>20. CASE RecordFailure
  BY <1>20 DEF RecordFailure, PutTranscript, NextAudio
<1>21. CASE EndAudio
  BY <1>21 DEF EndAudio, Idle
<1>22. CASE Throw
  BY <1>22 DEF Throw, Idle
<1>23. CASE Crash
  BY <1>23 DEF Crash, Idle
<1>24. ASSUME NEW m \in Media, Ingest(m) PROVE BodyIffTranscribed'
  BY <1>24 DEF Ingest, Enqueue
<1>25. CASE UNCHANGED vars
  BY <1>25 DEF vars
<1> QED
  BY <1>1, <1>2, <1>3, <1>4, <1>5, <1>6, <1>7, <1>8, <1>9, <1>10, <1>11, <1>12, <1>13, <1>14,
     <1>15, <1>16, <1>17, <1>18, <1>19, <1>20, <1>21, <1>22, <1>23, <1>24, <1>25 DEF Next, Work
-----------------------------------------------------------------------------
LEMMA StepPreserves == IInv /\ [Next]_vars => IInv'
<1> SUFFICES ASSUME IInv, [Next]_vars PROVE IInv'
  OBVIOUS
<1>1. worker \in Workers
  BY DEF IInv, TypeOK, Workers, Steps
<1>2. TypeOK'
  BY <1>1, TablesStep, WorkerStep DEF TypeOK, Tables, Workers, Steps
<1> QED
  BY <1>2, KnowsStep, ReceivedStep, FilesStep, BodyStep DEF IInv, AssetsHaveFiles

\* The invariant that the theorems rest on holds.
THEOREM Invariance == Spec => []IInv
  BY InitEstablishes, StepPreserves, PTL DEF Spec

\* The state has the types of the tables, whatever is interrupted.
THEOREM MediaTyped == Spec => []TypeOK
<1>1. IInv => TypeOK
  BY DEF IInv
<1> QED
  BY Invariance, <1>1, PTL

\* What the database calls downloaded, or offers as a resource, is whole on disk:
\* no clean-up, no failure and no crash takes a file that the database knows.
THEOREM FilesKept == Spec => []AssetsHaveFiles
<1>1. IInv => AssetsHaveFiles
  BY DEF IInv
<1> QED
  BY Invariance, <1>1, PTL

\* A voice note has a transcript for its body only if that transcript is confident,
\* and has a body once one is.
THEOREM BodiesConfident == Spec => []BodyIffTranscribed
<1>1. IInv => BodyIffTranscribed
  BY DEF IInv
<1> QED
  BY Invariance, <1>1, PTL
=============================================================================
