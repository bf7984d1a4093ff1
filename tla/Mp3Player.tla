------------------------------ MODULE Mp3Player ------------------------------
(***************************************************************************)
(* The player of the ring and of the music (src/main/play_mp3.c), driven   *)
(* by the loop of test_play_music (src/main/main.cpp).                     *)
(*                                                                         *)
(* Three tasks share the globals of play_mp3.c without a lock:             *)
(*   main     chooses the track: it saves the position of one track,       *)
(*            pauses the pipeline, points the globals at the other track   *)
(*            and resumes;                                                 *)
(*   decoder  the element task of the audio library, which calls           *)
(*            mp3_music_read_cb whenever it wants bytes;                   *)
(*   music    play_mp3_task, which builds the pipeline and then listens to *)
(*            its events.                                                  *)
(*                                                                         *)
(* The audio library is external.  Its pause and resume send a command to  *)
(* the element task and wait for the answer, but may give up after a while *)
(* (at most MaxTimeouts times here); an element that has finished ignores  *)
(* both, which is what build/audio_pipeline/audio_element.o does.  Each    *)
(* element has a queue of its own for the events a listener takes          *)
(* (audio_event_iface.o): the decoder's holds the reports of its status    *)
(* and of the music alike, and what does not fit is lost without a word.   *)
(***************************************************************************)
EXTENDS Integers, Sequences

CONSTANTS
    RingLen,      \* bytes of ring.mp3, embedded in the program
    MusicLen,     \* bytes of music.mp3, which follows it
    Chunk,        \* what the decoder asks for in one call
    QueueLen,     \* events the decoder's queue holds
    MaxTimeouts   \* calls of the library that may give up, a bound

ASSUME PlayerAssumption ==
    /\ RingLen \in Nat \ {0}
    /\ MusicLen \in Nat \ {0}
    /\ Chunk \in Nat \ {0}
    /\ QueueLen \in Nat \ {0}
    /\ MaxTimeouts \in Nat

Tracks == {"ring", "music"}

Length(track) == IF track = "ring" THEN RingLen ELSE MusicLen

\* _binary_*_start and _binary_*_end
StartOf(track) == IF track = "ring" THEN 0 ELSE RingLen
EndOf(track)   == StartOf(track) + Length(track)

VARIABLES
    mp3_start, mp3_end,  \* the track each pointer belongs to, or "null"
    mp3_pos,             \* read position in the current track
    saved,               \* mp3_pos_ring and mp3_pos_music
    state_runing,        \* PLAYING_RING, PLAYING_MUSIC, or "none" at power-on
    pipeline,            \* "null", "created", "linked": the handle and its elements
    listening,           \* has the pipeline a listener?
    started,             \* how main found the pipeline when it ran it
    element,             \* state of the decoder element
    cmd,                 \* command sent to the element task
    timeouts,            \* calls to the library that gave up on the element task
    read_size,           \* local of mp3_music_read_cb
    info,                \* the track whose rate the decoder reports
    i2s,                 \* the track whose rate the i2s stream is set to
    got,                 \* the listener's music_info
    events,              \* the decoder's queue: REPORT_MUSIC_INFO and REPORT_STATUS events
    missed,              \* (history) a report of the music was lost and none came after it
    gpio,                \* level of the button
    want,                \* the branch of the loop: what the button asked for
    pc

player  == <<mp3_start, mp3_end, mp3_pos, saved, state_runing>>
library == <<element, cmd, read_size, info>>
setup   == <<pipeline, listening>>
clock   == <<i2s, got, events, missed>>
vars    == <<player, library, setup, clock, started, timeouts, gpio, want, pc>>

Init ==
    /\ mp3_start = "null" /\ mp3_end = "null"
    /\ mp3_pos = 0
    /\ saved = [t \in Tracks |-> 0]
    /\ state_runing = "none"
    /\ pipeline = "null" /\ listening = FALSE
    /\ started = "no"
    /\ element = "none" /\ cmd = "none" /\ timeouts = 0
    /\ read_size = 0
    /\ info = "none" /\ i2s = "default" /\ got = "none"
    /\ events = <<>> /\ missed = FALSE
    /\ gpio = 1
    /\ want = "ring"
    /\ pc = [main |-> "init", decoder |-> "idle", music |-> "off"]

Goto(task, from, to) == pc[task] = from /\ pc' = [pc EXCEPT ![task] = to]

-----------------------------------------------------------------------------
(* play_mp3_task *)

CreatePipeline ==
    /\ Goto("music", "create", "link")
    /\ pipeline' = "created"
    /\ UNCHANGED <<player, library, listening, clock, started, timeouts, gpio, want>>

LinkPipeline ==
    /\ Goto("music", "link", "set_listener")
    /\ pipeline' = "linked"
    /\ UNCHANGED <<player, library, listening, clock, started, timeouts, gpio, want>>

SetListener ==
    /\ Goto("music", "set_listener", "listen")
    /\ listening' = TRUE
    /\ UNCHANGED <<player, library, pipeline, clock, started, timeouts, gpio, want>>

\* audio_event_iface_listen gives the first event of the decoder's queue: the loop
\* continues after a status, ...
ListenDecoder ==
    /\ events # <<>>
    /\ Goto("music", "listen", IF Head(events) = "info" THEN "get_info" ELSE "listen")
    /\ events' = Tail(events)
    /\ UNCHANGED <<player, library, setup, i2s, got, missed, started, timeouts, gpio, want>>

\* ... and after an error or a status of the i2s stream, whose queue is its own
ListenOther ==
    /\ pc["music"] = "listen"
    /\ UNCHANGED vars

\* REPORT_MUSIC_INFO: ask the decoder for what it plays by now ...
GetMusicInfo ==
    /\ Goto("music", "get_info", "set_clock")
    /\ got' = info
    /\ missed' = FALSE
    /\ UNCHANGED <<player, library, setup, i2s, events, started, timeouts, gpio, want>>

\* (mutant) the events that came meanwhile are discarded
SetClockDiscarding ==
    /\ Goto("music", "set_clock", "listen")
    /\ i2s' = got
    /\ got' = "none"
    /\ events' = <<>>
    /\ UNCHANGED <<player, library, setup, missed, started, timeouts, gpio, want>>

\* ... and set the clock of the output to it
SetClock ==
    /\ Goto("music", "set_clock", "listen")
    /\ i2s' = got
    /\ got' = "none"
    /\ UNCHANGED <<player, library, setup, events, missed, started, timeouts, gpio, want>>

Listen == ListenDecoder \/ ListenOther \/ GetMusicInfo \/ SetClock

MusicTask == CreatePipeline \/ LinkPipeline \/ SetListener \/ Listen

-----------------------------------------------------------------------------
(* The decoder's element task, and mp3_music_read_cb, which it calls. *)

HasRoom == listening /\ Len(events) < QueueLen

\* the decoder's queue after an event of this kind was sent, or lost
Sent(kind) == IF HasRoom THEN Append(events, kind) ELSE events

\* an event the listener has yet to handle by asking for the music
InfoPending ==
    \/ \E i \in DOMAIN events : events[i] = "info"
    \/ pc["music"] = "get_info"

ReadSize == EndOf(mp3_end) - StartOf(mp3_start) - mp3_pos

\* A bound on mp3_pos, which late pauses can push past the end of a track once
\* more at every switch; it never bites when the library's calls are answered.
PosBound == RingLen + MusicLen

\* The size is computed from three globals; 0 ends the track, which the element
\* reports.  Globals of two tracks can make it negative, and memcpy of such a
\* size faults.
ReadCbDone ==
    /\ element = "running" /\ cmd = "none"
    /\ pc["decoder"] = "idle"
    /\ ReadSize = 0
    /\ element' = "finished"
    /\ events' = Sent("status")
    /\ UNCHANGED <<player, cmd, read_size, info, setup, i2s, got, missed, started,
                   timeouts, gpio, want, pc>>

ReadCbSize ==
    /\ element = "running" /\ cmd = "none"
    /\ Goto("decoder", "idle", IF ReadSize < 0 THEN "fault" ELSE "copy")
    /\ ReadSize # 0
    /\ read_size' = IF Chunk < ReadSize THEN Chunk ELSE ReadSize
    /\ UNCHANGED <<player, element, cmd, info, setup, clock, started, timeouts, gpio, want>>

\* memcpy(buf, mp3_start + mp3_pos, read_size)
ReadCbCopy ==
    /\ Goto("decoder", "copy", "advance")
    /\ UNCHANGED <<player, library, setup, clock, started, timeouts, gpio, want>>

\* mp3_pos += read_size; a track of another rate makes the decoder report it
ReadCbAdvance ==
    /\ pc["decoder"] = "advance"
    /\ mp3_pos + read_size <= PosBound
    /\ mp3_pos' = mp3_pos + read_size
    /\ read_size' = 0
    /\ info' = mp3_start
    /\ pc' = [pc EXCEPT !["decoder"] = IF info = mp3_start THEN "idle" ELSE "report"]
    /\ UNCHANGED <<mp3_start, mp3_end, saved, state_runing, element, cmd, setup, clock, started, timeouts, gpio, want>>

\* an event without a listener, or for a full queue, is lost
ReportMusicInfo ==
    /\ Goto("decoder", "report", "idle")
    /\ events' = Sent("info")
    /\ missed' = IF HasRoom \/ InfoPending THEN missed ELSE TRUE
    /\ UNCHANGED <<player, library, setup, i2s, got, started, timeouts, gpio, want>>

\* between two calls of the callback the element task takes its command, and
\* reports the status it goes to
TakeCommand ==
    /\ pc["decoder"] = "idle"
    /\ cmd # "none"
    /\ element' = IF cmd = "pause" THEN "paused" ELSE "running"
    /\ cmd' = "none"
    /\ events' = Sent("status")
    /\ UNCHANGED <<player, read_size, info, setup, i2s, got, missed, started,
                   timeouts, gpio, want, pc>>

Decoder ==
    \/ ReadCbDone \/ ReadCbSize \/ ReadCbCopy \/ ReadCbAdvance
    \/ ReportMusicInfo \/ TakeCommand

-----------------------------------------------------------------------------
(* main: init_play_mp3, start_music(RING) *)

InitPlayMp3 ==
    /\ pc["main"] = "init"
    /\ pc' = [pc EXCEPT !["main"] = "start", !["music"] = "create"]
    /\ UNCHANGED <<player, library, setup, clock, started, timeouts, gpio, want>>

StartMusic ==
    /\ Goto("main", "start", "run")
    /\ mp3_pos' = 0
    /\ state_runing' = "ring"
    /\ mp3_start' = "ring" /\ mp3_end' = "ring"
    /\ UNCHANGED <<saved, library, setup, clock, started, timeouts, gpio, want>>

\* audio_pipeline_run(pipeline): nobody waits for play_mp3_task.  A null handle
\* faults; a pipeline without elements starts none of them; an element that is
\* started reports that it runs.
PipelineRun ==
    /\ Goto("main", "run", IF pipeline = "null" THEN "fault" ELSE "sample")
    /\ started' = IF listening THEN "listening" ELSE pipeline
    /\ element' = IF pipeline = "linked" THEN "running" ELSE "none"
    /\ events' = IF pipeline = "linked" THEN Sent("status") ELSE events
    /\ UNCHANGED <<player, cmd, read_size, info, setup, i2s, got, missed, timeouts,
                   gpio, want>>

\* the loop: a button that is down asks for the music, else for the ring
Sample ==
    /\ Goto("main", "sample", "check")
    /\ want' = IF gpio = 0 THEN "music" ELSE "ring"
    /\ UNCHANGED <<player, library, setup, clock, started, timeouts, gpio>>

\* get_state_playing() decides, 100 ms after the button was read
CheckState ==
    /\ Goto("main", "check", IF state_runing # want THEN "pause" ELSE "sample")
    /\ UNCHANGED <<player, library, setup, clock, started, timeouts, gpio, want>>

\* pause_music_playing: the position is saved, then the pipeline is paused; the
\* library sends no command to an element that does not run
PauseInto(slot) ==
    /\ Goto("main", "pause", "pausing")
    /\ saved' = IF slot \in Tracks THEN [saved EXCEPT ![slot] = mp3_pos] ELSE saved
    /\ cmd' = IF element = "running" THEN "pause" ELSE cmd
    /\ UNCHANGED <<mp3_start, mp3_end, mp3_pos, state_runing, element, read_size,
                   info, setup, clock, started, timeouts, gpio, want>>

\* (mutant) the position goes to the track that is asked for
PauseIntoWanted == PauseInto(want)

PauseMusicPlaying == PauseInto(state_runing)

\* the answer of the element task, or, too late, none
Answered ==
    /\ cmd # "none" => timeouts < MaxTimeouts
    /\ timeouts' = IF cmd = "none" THEN timeouts ELSE timeouts + 1

\* (mutant) nobody waits for the element task
PauseReturnsAtOnce ==
    /\ Goto("main", "pausing", "resume")
    /\ UNCHANGED <<player, library, setup, clock, started, timeouts, gpio, want>>

\* audio_pipeline_pause returns, 100 ms before resume_music
PauseReturns ==
    /\ Goto("main", "pausing", "resume")
    /\ Answered
    /\ UNCHANGED <<player, library, setup, clock, started, gpio, want>>

\* resume_music: the globals are stored one after the other
ResumeMusic ==
    /\ Goto("main", "resume", IF state_runing = want THEN "sample" ELSE "end")
    /\ mp3_start' = IF state_runing = want THEN mp3_start ELSE want
    /\ UNCHANGED <<mp3_end, mp3_pos, saved, state_runing, library, setup, clock,
                   started, timeouts, gpio, want>>

ResumeEnd ==
    /\ Goto("main", "end", "pos")
    /\ mp3_end' = want
    /\ UNCHANGED <<mp3_start, mp3_pos, saved, state_runing, library, setup, clock,
                   started, timeouts, gpio, want>>

\* (mutant) the pipeline is not resumed
ResumePosOnly ==
    /\ Goto("main", "pos", "resuming")
    /\ mp3_pos' = saved[want]
    /\ state_runing' = want
    /\ UNCHANGED <<mp3_start, mp3_end, saved, library, setup, clock, started, timeouts, gpio, want>>

\* audio_pipeline_resume: a finished or an absent element stays what it is
ResumePos ==
    /\ Goto("main", "pos", "resuming")
    /\ mp3_pos' = saved[want]
    /\ state_runing' = want
    /\ cmd' = IF element = "paused" THEN "resume" ELSE cmd
    /\ UNCHANGED <<mp3_start, mp3_end, saved, element, read_size, info,
                   setup, clock, started, timeouts, gpio, want>>

ResumeReturns ==
    /\ Goto("main", "resuming", "sample")
    /\ Answered
    /\ UNCHANGED <<player, library, setup, clock, started, gpio, want>>

ResumeTrack == ResumeMusic \/ ResumeEnd \/ ResumePos \/ ResumeReturns

Main ==
    \/ InitPlayMp3 \/ StartMusic \/ PipelineRun
    \/ Sample \/ CheckState \/ PauseMusicPlaying \/ PauseReturns \/ ResumeTrack

Finger ==
    /\ gpio' = 1 - gpio
    /\ UNCHANGED <<player, library, setup, clock, started, timeouts, want, pc>>

Next == Main \/ MusicTask \/ Decoder \/ Finger

Spec == Init /\ [][Next]_vars

FairSpec == Spec /\ WF_vars(Main) /\ WF_vars(MusicTask) /\ WF_vars(Decoder)

-----------------------------------------------------------------------------
(* Properties *)

Places ==
    [main : {"init", "start", "run", "fault", "sample", "check", "pause", "pausing",
             "resume", "end", "pos", "resuming"},
     decoder : {"idle", "copy", "advance", "report", "fault"},
     music : {"off", "create", "link", "set_listener", "listen", "get_info", "set_clock"}]

QueueOK == events \in Seq({"info", "status"}) /\ Len(events) <= QueueLen

\* Every variable keeps its type, tracks torn by a late pause included.
TypeOK ==
    /\ {mp3_start, mp3_end} \subseteq Tracks \cup {"null"}
    /\ mp3_pos \in Int /\ saved \in [Tracks -> Int]
    /\ state_runing \in Tracks \cup {"none"}
    /\ pipeline \in {"null", "created", "linked"} /\ listening \in BOOLEAN
    /\ started \in {"no", "null", "created", "linked", "listening"}
    /\ element \in {"none", "running", "paused", "finished"}
    /\ cmd \in {"none", "pause", "resume"}
    /\ read_size \in Int /\ timeouts \in 0 .. MaxTimeouts
    /\ info \in Tracks \cup {"none"} /\ got \in Tracks \cup {"none"}
    /\ i2s \in Tracks \cup {"default", "none"}
    /\ QueueOK
    /\ missed \in BOOLEAN
    /\ gpio \in {0, 1} /\ want \in Tracks
    /\ pc \in Places

\* mp3_music_read_cb computes its size, copies and advances in three accesses to
\* globals that resume_music rewrites: as long as the library's calls are answered,
\* what it copies lies inside one track and its size is never negative.
CopyInsideTrack ==
    timeouts = 0 =>
        /\ pc["decoder"] # "fault"
        /\ pc["decoder"] = "copy" =>
            /\ mp3_start = mp3_end
            /\ read_size > 0
            /\ mp3_pos >= 0 /\ mp3_pos + read_size <= Length(mp3_start)

\* get_state_playing() names the track the pointers are in, except inside the
\* calls that change it, whether or not the library's calls timed out.
StateNamesTrack ==
    pc["main"] \in {"sample", "check", "pause", "pausing"} =>
        mp3_start = state_runing /\ mp3_end = state_runing

\* The listener asks for the rate when it handles an event, not when it was sent,
\* and the reports of the music share the decoder's queue with those of its
\* status.  Once the listener has taken the last report of the music the output has
\* the rate of what the decoder plays, but for one case: a report was lost to a
\* full queue in which no other report of the music waited, only statuses.  Then
\* the clock stays wrong until the decoder reports another track.
ClockFollowsDecoder ==
    started = "listening" /\ info # "none" /\ pc["decoder"] # "report"
        /\ pc["music"] = "listen" /\ ~InfoPending /\ ~missed
    => i2s = info

\* As long as the library's calls are answered, a button held down ends with the
\* music selected and nothing left paused.
HeldSelectsMusic ==
    <>[](gpio = 0 /\ timeouts = 0 /\ pc["main"] \notin {"init", "start", "run", "fault"})
        => <>[](state_runing = "music" /\ element # "paused")

\* The comment of the loop (main.cpp:137): while the button is down it "will play
\* music".  The code breaks this: when the ring has finished, the element ignores
\* the resume, and state_runing says that music plays.
HeldPlaysMusic ==
    <>[](gpio = 0 /\ started = "listening") => <>(info = "music")

=============================================================================
