----------------------------- MODULE Streaming -----------------------------
(***************************************************************************)
(* The sending task of USSP Studio from the start of its devices to their  *)
(* release: the camera thread, which reads the output of an ffmpeg process,*)
(* the microphone thread, and the select loop, whose tickers send a video  *)
(* frame and audio frames when they are due (the sync points it also sends *)
(* change nothing here).  Sends return: FEC is off, or module Sender's     *)
(* matter.  Who starts and stops the task is module Studio's.              *)
(***************************************************************************)
EXTENDS Integers

CONSTANTS
    Fps,      \* options.fps
    Tracks,   \* options.audio_tracks, of the test tone
    MaxTime   \* bound: milliseconds the loop runs

ASSUME StreamingAssumption ==
    /\ Fps \in 1 .. 1000 /\ Tracks \in Nat \ {0} /\ MaxTime \in Nat

VARIABLES
    at,          \* where the task is
    video,       \* camera_handle: "camera", or "pattern" without one
    audio,       \* audio_handle: "microphone", or "tone" without one
    stopping,    \* the stop channel has a message or is closed
    camera,      \* the camera thread
    ffmpeg,      \* its child process
    silent,      \* the camera gives no more frames, and ffmpeg waits for it
    filming,     \* CameraCaptureHandle::running
    frames,      \* frames wait in camera_frame_rx
    latest,      \* latest_camera_frame is there
    microphone,  \* the microphone thread
    recording,   \* AudioCaptureHandle::running
    chunks,      \* 10 ms of samples each, in audio_rx
    buffer,      \* audio_buffer, in the same unit
    now,         \* milliseconds since the loop began
    due,         \* when the next tick of each ticker is due
    videoPts,    \* video_pts
    audioPts,    \* audio_pts
    sent         \* frame_count

devices == <<camera, ffmpeg, silent, filming, frames, microphone, recording, chunks>>
clocks == <<now, due, videoPts, audioPts, sent>>
streamingVars == <<at, video, audio, stopping, devices, latest, buffer, clocks>>

FrameMs == 1000 \div Fps
FramePts == 1000000 \div Fps
AudioMs == 20
AudioPts == 20000

StreamingTypeOK ==
    /\ at \in {"camera", "microphone", "loop", "drop", "join", "close", "closed"}
    /\ video \in {"camera", "pattern"} /\ audio \in {"microphone", "tone"}
    /\ stopping \in BOOLEAN /\ silent \in BOOLEAN /\ filming \in BOOLEAN
    /\ frames \in BOOLEAN /\ latest \in BOOLEAN /\ recording \in BOOLEAN
    /\ camera \in {"none", "check", "read", "kill", "ended"}
    /\ ffmpeg \in {"none", "alive", "dead", "reaped"}
    /\ microphone \in {"none", "running", "ended"}
    /\ {chunks, buffer, now, videoPts, audioPts, sent} \subseteq Nat
    /\ due \in [{"video", "audio"} -> Nat]

StreamingInit ==
    /\ at = "camera"
    /\ video \in {"camera", "pattern"} /\ audio \in {"microphone", "tone"}
    /\ stopping = FALSE
    /\ camera = "none" /\ ffmpeg = "none" /\ silent = FALSE
    /\ filming = FALSE /\ frames = FALSE /\ latest = FALSE
    /\ microphone = "none" /\ recording = FALSE
    /\ chunks = 0 /\ buffer = 0
    /\ now = 0 /\ due = [video |-> 0, audio |-> 0]
    /\ videoPts = 0 /\ audioPts = 0 /\ sent = 0

-----------------------------------------------------------------------------
(* CameraCaptureHandle                                                     *)

\* CameraCaptureHandle::start waits for its thread to have ffmpeg running.
OpenCamera ==
    /\ video = "camera"
    /\ camera' = "check" /\ ffmpeg' = "alive" /\ filming' = TRUE
    /\ UNCHANGED video

\* Without a camera, chosen or failing to start, the test pattern is sent.
StartCamera ==
    /\ at = "camera" /\ at' = "microphone"
    /\ \/ OpenCamera
       \/ video' = "pattern" /\ UNCHANGED <<camera, ffmpeg, filming>>
    /\ UNCHANGED <<audio, stopping, silent, frames, microphone, recording, chunks,
                   latest, buffer, clocks>>

\* Mutant: the thread goes on as long as there are frames.
CameraCheckNever ==
    /\ camera = "check" /\ camera' = "read"
    /\ UNCHANGED <<ffmpeg, frames>>

\* The flag is looked at between two frames.
CameraCheck ==
    /\ camera = "check"
    /\ camera' = IF filming THEN "read" ELSE "kill"
    /\ UNCHANGED <<ffmpeg, frames>>

\* read_exact returns with a frame, or at the end of ffmpeg's output.
CameraRead ==
    /\ camera = "read"
    /\ \/ ffmpeg = "alive" /\ ~silent /\ frames' = TRUE /\ camera' = "check"
       \/ ffmpeg = "dead" /\ camera' = "kill" /\ UNCHANGED frames
    /\ UNCHANGED ffmpeg

CameraKill ==
    /\ camera = "kill" /\ camera' = "ended"
    /\ ffmpeg' = "reaped"
    /\ UNCHANGED frames

CameraThread ==
    /\ CameraCheck \/ CameraRead \/ CameraKill
    /\ UNCHANGED <<at, video, audio, stopping, silent, filming, microphone, recording,
                   chunks, latest, buffer, clocks>>

\* The camera is unplugged, or falls silent.
CameraFails ==
    /\ ffmpeg = "alive"
    /\ \/ ffmpeg' = "dead" /\ UNCHANGED silent
       \/ ~silent /\ silent' = TRUE /\ UNCHANGED ffmpeg
    /\ UNCHANGED <<at, video, audio, stopping, camera, filming, frames, microphone,
                   recording, chunks, latest, buffer, clocks>>

-----------------------------------------------------------------------------
(* AudioCaptureHandle                                                      *)

\* AudioCaptureHandle::start.
OpenMicrophone ==
    /\ audio = "microphone"
    /\ microphone' = "running" /\ recording' = TRUE
    /\ UNCHANGED audio

\* Without a microphone the test tone is sent.
StartMicrophone ==
    /\ at = "microphone" /\ at' = "loop"
    /\ \/ OpenMicrophone
       \/ audio' = "tone" /\ UNCHANGED <<microphone, recording>>
    /\ UNCHANGED <<video, stopping, camera, ffmpeg, silent, filming, frames, chunks,
                   latest, buffer, clocks>>

\* What the microphone has heard so far.
Recorded == chunks + buffer + 2 * (audioPts \div AudioPts)

\* The stream's callback; nothing is recorded before it was said.
Record ==
    /\ microphone = "running" /\ recording
    /\ 10 * Recorded < now
    /\ chunks' = chunks + 1
    /\ UNCHANGED <<at, video, audio, stopping, camera, ffmpeg, silent, filming, frames,
                   microphone, recording, latest, buffer, clocks>>

\* The thread looks at its flag every 100 ms.
MicrophoneEnds ==
    /\ microphone = "running" /\ ~recording
    /\ microphone' = "ended"
    /\ UNCHANGED <<at, video, audio, stopping, camera, ffmpeg, silent, filming, frames,
                   recording, chunks, latest, buffer, clocks>>

-----------------------------------------------------------------------------
(* The select loop: any branch that is ready                               *)

TakeFrame ==
    /\ at = "loop" /\ video = "camera" /\ frames
    /\ frames' = FALSE /\ latest' = TRUE
    /\ UNCHANGED <<at, video, audio, stopping, camera, ffmpeg, silent, filming,
                   microphone, recording, chunks, buffer, clocks>>

TakeSamples ==
    /\ at = "loop" /\ audio = "microphone" /\ chunks > 0
    /\ chunks' = chunks - 1 /\ buffer' = buffer + 1
    /\ UNCHANGED <<at, video, audio, stopping, camera, ffmpeg, silent, filming, frames,
                   microphone, recording, latest, clocks>>

\* A tick that was missed is made up for.
Ticked(ticker, period) == due' = [due EXCEPT ![ticker] = @ + period]

\* A camera's last frame is sent again until there is a new one, also when
\* there never will be.
VideoTick ==
    /\ at = "loop" /\ due.video <= now
    /\ Ticked("video", FrameMs)
    /\ IF video = "camera" /\ ~latest
       THEN UNCHANGED <<videoPts, sent>>
       ELSE videoPts' = videoPts + FramePts /\ sent' = sent + 1
    /\ UNCHANGED <<at, video, audio, stopping, devices, latest, buffer, now, audioPts>>

\* Mutant: the time stamp goes on with every track.
AudioTickPerTrack ==
    /\ at = "loop" /\ due.audio <= now
    /\ Ticked("audio", AudioMs)
    /\ audioPts' = audioPts + AudioPts * Tracks
    /\ UNCHANGED <<at, video, audio, stopping, devices, latest, buffer, now, videoPts,
                   sent>>

\* A frame of the microphone needs 20 ms of samples; the tone is sent on every
\* track.
AudioTick ==
    /\ at = "loop" /\ due.audio <= now
    /\ Ticked("audio", AudioMs)
    /\ CASE audio = "tone" -> audioPts' = audioPts + AudioPts /\ UNCHANGED buffer
         [] audio # "tone" /\ buffer >= 2 ->
               audioPts' = audioPts + AudioPts /\ buffer' = buffer - 2
         [] OTHER -> UNCHANGED <<audioPts, buffer>>
    /\ UNCHANGED <<at, video, audio, stopping, devices, latest, now, videoPts, sent>>

\* Time goes on to a later tick, or past it while the loop is busy sending.
Pass ==
    /\ at = "loop"
    /\ \E ticks \in 0 .. 1 :
           now' \in {due.video + ticks * FrameMs, due.audio + ticks * AudioMs}
    /\ now < now' /\ now' <= MaxTime
    /\ UNCHANGED <<at, video, audio, stopping, devices, latest, buffer, due, videoPts,
                   audioPts, sent>>

-----------------------------------------------------------------------------
(* The end                                                                 *)

Stop ==
    /\ ~stopping /\ stopping' = TRUE
    /\ UNCHANGED <<at, video, audio, devices, latest, buffer, clocks>>

LoopStops ==
    /\ at = "loop" /\ stopping
    /\ at' = "drop"
    /\ UNCHANGED <<video, audio, stopping, devices, latest, buffer, clocks>>

\* Mutant: the camera's thread is left to itself.
DropCameraDetached ==
    /\ at = "drop" /\ at' = "close"
    /\ filming' = FALSE
    /\ UNCHANGED <<video, audio, stopping, camera, ffmpeg, silent, frames, microphone,
                   recording, chunks, latest, buffer, clocks>>

\* drop(camera_handle) clears the flag and waits for the thread.
DropCamera ==
    /\ at = "drop" /\ at' = "join"
    /\ filming' = FALSE
    /\ UNCHANGED <<video, audio, stopping, camera, ffmpeg, silent, frames, microphone,
                   recording, chunks, latest, buffer, clocks>>

Join ==
    /\ at = "join" /\ at' = "close"
    /\ camera \in {"none", "ended"}
    /\ UNCHANGED <<video, audio, stopping, devices, latest, buffer, clocks>>

\* drop(audio_handle) does not wait; then the session is closed.
Close ==
    /\ at = "close" /\ at' = "closed"
    /\ recording' = FALSE
    /\ UNCHANGED <<video, audio, stopping, camera, ffmpeg, silent, filming, frames,
                   microphone, chunks, latest, buffer, clocks>>

-----------------------------------------------------------------------------
TaskGoesOn == StartCamera \/ StartMicrophone \/ LoopStops \/ DropCamera \/ Join \/ Close

StreamingNext ==
    \/ TaskGoesOn \/ CameraThread \/ CameraFails \/ Record \/ MicrophoneEnds
    \/ TakeFrame \/ TakeSamples \/ VideoTick \/ AudioTick \/ Pass \/ Stop

\* The task is a future tokio keeps polling, and its select does not put the
\* stop branch off for ever; threads run.  Nothing makes a camera give frames.
StreamingFairness ==
    /\ WF_streamingVars(TaskGoesOn)
    /\ WF_streamingVars(CameraThread) /\ WF_streamingVars(MicrophoneEnds)

StreamingSpec == StreamingInit /\ [][StreamingNext]_streamingVars

FairStreamingSpec == StreamingSpec /\ StreamingFairness

-----------------------------------------------------------------------------
(* Properties                                                              *)

CaughtUp == now < due.video /\ now < due.audio

\* What the whole milliseconds of the video ticker leave out of every frame.
Rounding == FramePts - 1000 * FrameMs

\* The stamps follow the loop's own clock: neither runs ahead of it by more than
\* a frame and, for video, the rounding of every frame sent (so the two stamps
\* part by that much when a second is no whole number of frames times whole
\* milliseconds); those of the test sources do not fall behind it either once
\* the loop has caught up, however late its ticks were.
StampsFollowTime ==
    /\ videoPts <= 1000 * now + FramePts + sent * Rounding
    /\ audioPts <= 1000 * now + AudioPts
    /\ at = "loop" /\ CaughtUp =>
           /\ video = "pattern" => videoPts > 1000 * now
           /\ audio = "tone" => audioPts > 1000 * now

\* README: the synchronisation of video and audio by their time stamps is
\* precise.  What the test sources give the loop at one time is stamped with one
\* time: when no tick is due, what each stamp is ahead of its ticker by is the
\* same to the millisecond.
StampsAgree ==
    at = "loop" /\ CaughtUp /\ video = "pattern" /\ audio = "tone" =>
        LET VideoLead == videoPts - 1000 * due.video
            AudioLead == audioPts - 1000 * due.audio
        IN  VideoLead - AudioLead \in -999 .. 999

\* sender.rs, "Drop camera first to turn off the LED": a task that is through
\* has left no ffmpeg process with the camera, whatever became of the camera.
CameraReleased == at \in {"close", "closed"} => ffmpeg \in {"none", "reaped"}

\* A stop releases the camera and the microphone, unless the camera has fallen
\* silent: then its thread waits in read_exact, and the task for its thread.
StopReleases ==
    stopping ~> \/ at = "closed" /\ ffmpeg # "alive" /\ microphone # "running"
                \/ silent /\ ffmpeg = "alive"
=============================================================================
