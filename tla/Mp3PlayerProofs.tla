--------------------------- MODULE Mp3PlayerProofs ---------------------------
(***************************************************************************)
(* Theorems about Mp3Player, for tracks, chunks and queues of any length   *)
(* and any number of calls that give up.                                   *)
(*                                                                         *)
(* What the three tasks know of each other: Pointers says which track the  *)
(* globals are in at each point of main, Commands which command may be     *)
(* under way.  As long as every call was answered, Handshake says that the *)
(* decoder stands still while the globals are rewritten, and Positions     *)
(* that every position lies in its track.  Reported says where the rate of *)
(* what is decoded is to be found on its way to the output, and Heard that *)
(* no position lies beyond what the decoder was given.                     *)
(***************************************************************************)
EXTENDS MCMp3Heard, TLAPS

Pointers ==
    /\ pc["main"] = "run" => mp3_start = "ring" /\ mp3_end = "ring" /\ state_runing = "ring"
    /\ pc["main"] \in {"sample", "check", "pause", "pausing", "resume"} =>
        /\ state_runing \in Tracks
        /\ mp3_start = state_runing /\ mp3_end = state_runing
    /\ pc["main"] \in {"end", "pos"} => mp3_start = want
    /\ pc["main"] = "pos" => mp3_end = want
    /\ pc["main"] = "resuming" =>
        mp3_start = want /\ mp3_end = want /\ state_runing = want

\* Before the pipeline runs there is nothing to command, and the decoder is
\* between two calls of its callback whenever it does not run.
Commands ==
    /\ pc["main"] \in {"init", "start", "run", "fault"} =>
        element = "none" /\ cmd = "none" /\ info = "none"
    /\ pc["main"] \in {"init", "start", "run"} => started # "listening"
    /\ pc["decoder"] # "idle" => element = "running"

Handshake ==
    timeouts = 0 =>
        /\ cmd = "pause" => pc["main"] = "pausing" /\ element = "running"
        /\ cmd = "resume" => pc["main"] = "resuming" /\ element = "paused"
        /\ pc["main"] = "pausing" /\ cmd = "none" => element # "running"
        /\ pc["main"] \in {"resume", "end", "pos"} => element # "running"

Positions ==
    timeouts = 0 =>
        /\ \A t \in Tracks : saved[t] >= 0 /\ saved[t] <= Length(t)
        /\ mp3_pos >= 0
        /\ pc["main"] \in {"run", "sample", "check", "pause", "pausing", "resume",
                           "resuming"} =>
            mp3_pos <= Length(mp3_start)
        /\ pc["decoder"] # "fault"
        /\ pc["decoder"] \in {"copy", "advance"} =>
            read_size > 0 /\ mp3_pos + read_size <= Length(mp3_start)

Reported ==
    /\ pc["main"] = "init" => pc["music"] = "off" /\ ~listening
    /\ listening => pc["music"] \in {"listen", "get_info", "set_clock"}
    /\ started = "listening" => listening
    /\ started = "listening" /\ info # "none" /\ pc["decoder"] # "report" =>
        \/ InfoPending
        \/ missed
        \/ pc["music"] = "set_clock" /\ got = info
        \/ pc["music"] = "listen" /\ i2s = info

PlayerInv == TypeOK /\ Pointers /\ Commands /\ Handshake /\ Positions /\ Reported

-----------------------------------------------------------------------------
LEMMA InitHolds == Init => PlayerInv
<1> SUFFICES ASSUME Init PROVE PlayerInv
    OBVIOUS
<1> USE PlayerAssumption DEF Places, Init, Tracks
<1>1. TypeOK
    <2>1. saved \in [Tracks -> Int] /\ timeouts \in 0 .. MaxTimeouts
        OBVIOUS
    <2>2. pc \in Places
        OBVIOUS
    <2>3. QueueOK
        BY DEF QueueOK
    <2> QED BY <2>1, <2>2, <2>3 DEF TypeOK
<1>2. Pointers /\ Commands /\ Handshake /\ Reported
    BY DEF Pointers, Commands, Handshake, Reported
<1>3. Positions
    BY DEF Positions, Length
<1> QED BY <1>1, <1>2, <1>3 DEF PlayerInv

\* an action moves the program counter of its own task only
LEMMA GotoMoves ==
    ASSUME TypeOK, NEW task \in {"main", "decoder", "music"}, NEW from, NEW to,
           Goto(task, from, to)
    PROVE  /\ pc[task] = from /\ pc'[task] = to
           /\ \A other \in {"main", "decoder", "music"} \ {task} : pc'[other] = pc[other]
BY DEF Goto, TypeOK, Places

\* what is sent to a queue that has room is its last event; else the queue stays
LEMMA SentQueue ==
    ASSUME TypeOK, NEW kind \in {"info", "status"}
    PROVE  /\ Sent(kind) \in Seq({"info", "status"}) /\ Len(Sent(kind)) <= QueueLen
           /\ \A i \in DOMAIN events : i \in DOMAIN Sent(kind) /\ Sent(kind)[i] = events[i]
           /\ HasRoom => \E i \in DOMAIN Sent(kind) : Sent(kind)[i] = kind
<1>t. events \in Seq({"info", "status"}) /\ Len(events) <= QueueLen /\ QueueLen \in Nat
    BY PlayerAssumption DEF TypeOK, QueueOK
<1>1. CASE HasRoom
    <2>1. Sent(kind) = Append(events, kind) /\ Len(events) < QueueLen
        BY <1>1 DEF Sent, HasRoom
    <2>2. /\ Append(events, kind) \in Seq({"info", "status"})
          /\ Len(Append(events, kind)) = Len(events) + 1
          /\ \A i \in 1 .. Len(events) : Append(events, kind)[i] = events[i]
          /\ Append(events, kind)[Len(events) + 1] = kind
        BY <1>t
    <2>3. /\ DOMAIN events = 1 .. Len(events)
          /\ DOMAIN Append(events, kind) = 1 .. Len(events) + 1
          /\ Len(events) \in Nat
        BY <1>t, <2>2
    <2> QED BY <1>t, <2>1, <2>2, <2>3
<1>2. CASE ~HasRoom
    BY <1>2, <1>t DEF Sent
<1> QED BY <1>1, <1>2

LEMMA QueueStep ==
    ASSUME TypeOK, [Next]_vars
    PROVE  QueueOK'
<1>t. events \in Seq({"info", "status"}) /\ Len(events) <= QueueLen /\ QueueLen \in Nat
    BY PlayerAssumption DEF TypeOK, QueueOK
<1> USE DEF Places, clock, QueueOK
<1>1. CASE ListenDecoder
    BY <1>1, <1>t DEF ListenDecoder
<1>2. CASE ReadCbDone \/ TakeCommand
    BY <1>2, SentQueue DEF ReadCbDone, TakeCommand
<1>3. CASE ReportMusicInfo
    BY <1>3, SentQueue DEF ReportMusicInfo
<1>4. CASE PipelineRun
    BY <1>4, <1>t, SentQueue DEF PipelineRun
<1>5. CASE CreatePipeline \/ LinkPipeline \/ SetListener \/ ListenOther \/ GetMusicInfo
           \/ SetClock \/ Finger \/ UNCHANGED vars
    BY <1>5, <1>t DEF CreatePipeline, LinkPipeline, SetListener, ListenOther, GetMusicInfo,
                      SetClock, Finger, vars
<1>6. CASE ReadCbSize \/ ReadCbCopy \/ ReadCbAdvance
    BY <1>6, <1>t DEF ReadCbSize, ReadCbCopy, ReadCbAdvance
<1>7. CASE InitPlayMp3 \/ StartMusic \/ Sample \/ CheckState \/ PauseMusicPlaying
           \/ PauseReturns
    BY <1>7, <1>t DEF InitPlayMp3, StartMusic, Sample, CheckState, PauseMusicPlaying,
                      PauseInto, PauseReturns
<1>8. CASE ResumeTrack
    BY <1>8, <1>t DEF ResumeTrack, ResumeMusic, ResumeEnd, ResumePos, ResumeReturns
<1> QED BY <1>1, <1>2, <1>3, <1>4, <1>5, <1>6, <1>7, <1>8
        DEF Next, Main, MusicTask, Listen, Decoder

LEMMA TypeStep == TypeOK /\ Pointers /\ Commands /\ [Next]_vars => TypeOK'
<1> SUFFICES ASSUME TypeOK, Pointers, Commands, [Next]_vars PROVE TypeOK'
    OBVIOUS
<1>0. pc["decoder"] # "idle" => mp3_start \in Tracks
    BY DEF TypeOK, Places, Pointers, Commands
<1>e. QueueOK'
    BY QueueStep
<1> USE <1>e, PlayerAssumption DEF Places, TypeOK, player, library, setup, clock, Goto, Tracks
<1>1. CASE MusicTask
    <2>1. CASE CreatePipeline \/ LinkPipeline
        BY <2>1 DEF CreatePipeline, LinkPipeline
    <2>2. CASE SetListener
        BY <2>2 DEF SetListener
    <2>3. CASE ListenDecoder
        BY <2>3 DEF ListenDecoder
    <2>4. CASE ListenOther
        BY <2>4 DEF ListenOther, vars
    <2>5. CASE GetMusicInfo
        <3>1. missed' \in BOOLEAN
            BY <2>5 DEF GetMusicInfo
        <3>2. /\ got' = info /\ pc' = [pc EXCEPT !["music"] = "set_clock"]
              /\ UNCHANGED <<player, library, setup, i2s, started, timeouts, gpio, want>>
            BY <2>5 DEF GetMusicInfo
        <3> QED BY <3>1, <3>2
    <2>6. CASE SetClock
        BY <2>6 DEF SetClock
    <2> QED BY <1>1, <2>1, <2>2, <2>3, <2>4, <2>5, <2>6 DEF MusicTask, Listen
<1>2. CASE Decoder
    <2>1. CASE ReadCbDone
        <3>1. /\ element' = "finished"
              /\ UNCHANGED <<player, cmd, read_size, info, setup, i2s, got, missed, started,
                             timeouts, gpio, want, pc>>
            BY <2>1 DEF ReadCbDone
        <3> QED BY <3>1
    <2>2. CASE ReadCbCopy
        BY <2>2 DEF ReadCbCopy
    <2>3. CASE ReadCbAdvance
        BY <1>0, <2>3 DEF ReadCbAdvance
    <2>4. CASE ReportMusicInfo
        <3>1. missed' \in BOOLEAN
            BY <2>4, Zenon DEF ReportMusicInfo, TypeOK
        <3>2. /\ pc' = [pc EXCEPT !["decoder"] = "idle"]
              /\ UNCHANGED <<player, library, setup, i2s, got, started, timeouts, gpio, want>>
            BY <2>4 DEF ReportMusicInfo
        <3> QED BY <3>1, <3>2
    <2>5. CASE TakeCommand
        BY <2>5 DEF TakeCommand
    <2>6. CASE ReadCbSize
        <3>1. ReadSize \in Int
            BY PlayerAssumption DEF ReadSize, EndOf, StartOf, Length
        <3>2. read_size' = IF Chunk < ReadSize THEN Chunk ELSE ReadSize
            BY <2>6 DEF ReadCbSize
        <3>3. read_size' \in Int
            BY ONLY <3>1, <3>2, PlayerAssumption DEF PlayerAssumption
        <3>4. /\ pc' = [pc EXCEPT !["decoder"] = IF ReadSize < 0 THEN "fault" ELSE "copy"]
              /\ UNCHANGED <<player, element, cmd, info, setup, clock, started, timeouts, gpio, want>>
            BY <2>6 DEF ReadCbSize
        <3> QED BY <3>3, <3>4
    <2> QED BY <1>2, <2>1, <2>2, <2>3, <2>4, <2>5, <2>6 DEF Decoder
<1>3. CASE Main
    <2>1. CASE InitPlayMp3 \/ StartMusic \/ PipelineRun
        BY <2>1 DEF InitPlayMp3, StartMusic, PipelineRun
    <2>2. CASE Sample \/ CheckState \/ PauseMusicPlaying
        BY <2>2 DEF Sample, CheckState, PauseMusicPlaying, PauseInto
    <2>3. CASE PauseReturns \/ ResumeReturns
        BY <2>3 DEF PauseReturns, ResumeReturns, Answered
    <2>4. CASE ResumeMusic \/ ResumeEnd \/ ResumePos
        BY <2>4 DEF ResumeMusic, ResumeEnd, ResumePos
    <2> QED BY <1>3, <2>1, <2>2, <2>3, <2>4 DEF Main, ResumeTrack
<1>4. CASE Finger
    BY <1>4 DEF Finger
<1>5. CASE UNCHANGED vars
    BY <1>5 DEF vars
<1> QED BY <1>1, <1>2, <1>3, <1>4, <1>5 DEF Next

LEMMA PointersStep == TypeOK /\ Pointers /\ [Next]_vars => Pointers'
<1> SUFFICES ASSUME TypeOK, Pointers, [Next]_vars PROVE Pointers'
    OBVIOUS
<1> USE DEF Places, TypeOK, Pointers, player, library, setup, clock, Goto, Tracks
<1>1. CASE MusicTask \/ Decoder \/ Finger
    <2>1. pc'["main"] = pc["main"]
        BY <1>1 DEF MusicTask, CreatePipeline, LinkPipeline, SetListener, Listen, ListenDecoder,
                ListenOther, vars, GetMusicInfo, SetClock, Decoder, ReadCbDone, ReadCbSize, ReadCbCopy, ReadCbAdvance,
                    ReportMusicInfo, TakeCommand, Finger
    <2>2. UNCHANGED <<mp3_start, mp3_end, state_runing, want>>
        BY <1>1 DEF MusicTask, CreatePipeline, LinkPipeline, SetListener, Listen, ListenDecoder,
                ListenOther, vars, GetMusicInfo, SetClock, Decoder, ReadCbDone, ReadCbSize, ReadCbCopy, ReadCbAdvance,
                    ReportMusicInfo, TakeCommand, Finger
    <2> QED BY <2>1, <2>2
<1>2. CASE InitPlayMp3 \/ StartMusic \/ PipelineRun
    BY <1>2 DEF InitPlayMp3, StartMusic, PipelineRun
<1>3. CASE Sample \/ CheckState \/ PauseMusicPlaying \/ PauseReturns
    BY <1>3 DEF Sample, CheckState, PauseMusicPlaying, PauseInto, PauseReturns
<1>4. CASE ResumeTrack
    BY <1>4 DEF ResumeTrack, ResumeMusic, ResumeEnd, ResumePos, ResumeReturns
<1>5. CASE UNCHANGED vars
    BY <1>5 DEF vars
<1> QED BY <1>1, <1>2, <1>3, <1>4, <1>5 DEF Next, Main

LEMMA CommandsStep == TypeOK /\ Commands /\ [Next]_vars => Commands'
<1> SUFFICES ASSUME TypeOK, Commands, [Next]_vars PROVE Commands'
    OBVIOUS
<1> USE DEF Places, TypeOK, Commands, player, library, setup, clock, Goto
<1>1. CASE MusicTask
    BY <1>1 DEF MusicTask, CreatePipeline, LinkPipeline, SetListener, Listen, ListenDecoder,
                ListenOther, vars, GetMusicInfo, SetClock
<1>2. CASE Decoder
    BY <1>2 DEF Decoder, ReadCbDone, ReadCbSize, ReadCbCopy, ReadCbAdvance,
                ReportMusicInfo, TakeCommand
<1>3. CASE InitPlayMp3 \/ StartMusic \/ PipelineRun
    BY <1>3 DEF InitPlayMp3, StartMusic, PipelineRun
<1>4. CASE Sample \/ CheckState \/ PauseMusicPlaying \/ PauseReturns
    BY <1>4 DEF Sample, CheckState, PauseMusicPlaying, PauseInto, PauseReturns
<1>5. CASE ResumeTrack
    BY <1>5 DEF ResumeTrack, ResumeMusic, ResumeEnd, ResumePos, ResumeReturns
<1>6. CASE Finger \/ UNCHANGED vars
    BY <1>6 DEF Finger, vars
<1> QED BY <1>1, <1>2, <1>3, <1>4, <1>5, <1>6 DEF Next, Main

\* A call that was answered left no command behind: PauseReturns and ResumeReturns
\* keep the count of those that gave up at 0 only if there is none.
LEMMA AnsweredLast ==
    ASSUME TypeOK, Answered, timeouts' = 0 PROVE cmd = "none" /\ timeouts = 0
BY DEF Answered, TypeOK

LEMMA HandshakeStep ==
    TypeOK /\ Commands /\ Handshake /\ [Next]_vars => Handshake'
<1> SUFFICES ASSUME TypeOK, Commands, Handshake, [Next]_vars, timeouts' = 0
             PROVE  Handshake'
    BY DEF Handshake
<1> USE DEF Places, TypeOK, Commands, Handshake, player, library, setup, clock, Goto
<1>1. CASE MusicTask
    BY <1>1 DEF MusicTask, CreatePipeline, LinkPipeline, SetListener, Listen, ListenDecoder,
                ListenOther, vars, GetMusicInfo, SetClock
<1>2. CASE Decoder
    BY <1>2 DEF Decoder, ReadCbDone, ReadCbSize, ReadCbCopy, ReadCbAdvance,
                ReportMusicInfo, TakeCommand
<1>3. CASE InitPlayMp3 \/ StartMusic \/ PipelineRun
    BY <1>3 DEF InitPlayMp3, StartMusic, PipelineRun
<1>4. CASE Sample \/ CheckState
    BY <1>4 DEF Sample, CheckState
<1>5. CASE PauseMusicPlaying
    BY <1>5 DEF PauseMusicPlaying, PauseInto
<1>6. CASE PauseReturns \/ ResumeReturns
    <2>1. cmd = "none" /\ timeouts = 0
        BY <1>6, AnsweredLast DEF PauseReturns, ResumeReturns
    <2> QED BY <1>6, <2>1 DEF PauseReturns, ResumeReturns
<1>7. CASE ResumeMusic \/ ResumeEnd
    BY <1>7 DEF ResumeMusic, ResumeEnd
<1>8. CASE ResumePos
    BY <1>8 DEF ResumePos
<1>9. CASE Finger \/ UNCHANGED vars
    BY <1>9 DEF Finger, vars
<1> QED
    BY <1>1, <1>2, <1>3, <1>4, <1>5, <1>6, <1>7, <1>8, <1>9 DEF Next, Main, ResumeTrack

LEMMA TimeoutsStay ==
    ASSUME TypeOK, [Next]_vars, timeouts' = 0 PROVE timeouts = 0
BY AnsweredLast
DEF Next, Main, MusicTask, CreatePipeline, LinkPipeline, SetListener, Listen, ListenDecoder,
                ListenOther, vars, GetMusicInfo, SetClock, Decoder, ReadCbDone, ReadCbSize, ReadCbCopy, ReadCbAdvance,
    ReportMusicInfo, TakeCommand, InitPlayMp3, StartMusic, PipelineRun, Sample,
    CheckState, PauseMusicPlaying, PauseInto, PauseReturns, ResumeTrack,
    ResumeMusic, ResumeEnd, ResumePos, ResumeReturns, Finger, vars

LEMMA LengthsNat == RingLen \in Nat /\ MusicLen \in Nat /\ Chunk \in Nat \ {0}
                    /\ \A t \in Tracks : Length(t) \in Nat /\ Length(t) > 0
BY PlayerAssumption DEF Length, Tracks

\* the size that the callback computes from globals of one track
LEMMA SizeOfOneTrack ==
    ASSUME mp3_start \in Tracks, mp3_end = mp3_start, mp3_pos \in Int
    PROVE  ReadSize = Length(mp3_start) - mp3_pos
BY LengthsNat DEF ReadSize, EndOf, StartOf, Length, Tracks

\* while main lets the decoder run, the globals are those of one track
LEMMA RunsInOneTrack ==
    ASSUME TypeOK, Pointers, Commands, Handshake, timeouts = 0, element = "running"
    PROVE  /\ pc["main"] \in {"sample", "check", "pause", "pausing", "resuming"}
           /\ mp3_start \in Tracks /\ mp3_end = mp3_start
BY DEF TypeOK, Places, Pointers, Commands, Handshake

LEMMA PositionsStep ==
    TypeOK /\ Pointers /\ Commands /\ Handshake /\ Positions /\ [Next]_vars
        => Positions'
<1> SUFFICES ASSUME TypeOK, Pointers, Commands, Handshake, Positions, [Next]_vars,
                    timeouts' = 0
             PROVE  Positions'
    BY DEF Positions
<1>0. timeouts = 0
    BY TimeoutsStay
<1> USE DEF Places, player, library, setup, clock, Goto
<1>t. /\ pc \in Places
      /\ mp3_pos \in Int /\ read_size \in Int /\ saved \in [Tracks -> Int]
      /\ want \in Tracks
    BY DEF TypeOK
<1>p. /\ \A t \in Tracks : saved[t] >= 0 /\ saved[t] <= Length(t)
      /\ mp3_pos >= 0
    BY <1>0 DEF Positions
<1>1. CASE MusicTask
    BY <1>1, <1>t DEF MusicTask, CreatePipeline, LinkPipeline, SetListener,
                      Listen, ListenDecoder,
                ListenOther, vars, GetMusicInfo, SetClock, Positions
<1>2. CASE ReadCbSize
    <2>1. /\ pc["main"] \in {"sample", "check", "pause", "pausing", "resuming"}
          /\ mp3_start \in Tracks /\ mp3_end = mp3_start
        BY <1>0, <1>2, RunsInOneTrack DEF ReadCbSize
    <2>2. mp3_pos <= Length(mp3_start)
        BY <1>0, <2>1 DEF Positions
    <2>3. ReadSize = Length(mp3_start) - mp3_pos /\ ReadSize # 0
        BY <1>2, <1>t, <2>1, SizeOfOneTrack DEF ReadCbSize
    <2>4. /\ read_size' > 0 /\ mp3_pos + read_size' <= Length(mp3_start)
          /\ pc'["decoder"] = "copy"
        BY <1>2, <1>t, <2>1, <2>2, <2>3, LengthsNat DEF ReadCbSize
    <2>5. UNCHANGED <<mp3_start, mp3_pos, saved>> /\ pc'["main"] = pc["main"]
        BY <1>2, <1>t DEF ReadCbSize
    <2> QED BY <1>0, <1>p, <2>1, <2>2, <2>4, <2>5 DEF Positions
<1>3. CASE ReadCbAdvance
    <2>1. read_size > 0 /\ mp3_pos + read_size <= Length(mp3_start)
        BY <1>0, <1>3 DEF ReadCbAdvance, Positions
    <2>2. /\ mp3_pos' = mp3_pos + read_size
          /\ UNCHANGED <<mp3_start, saved>> /\ pc'["main"] = pc["main"]
          /\ pc'["decoder"] \in {"idle", "report"}
        BY <1>3, <1>t DEF ReadCbAdvance
    <2>3. mp3_pos' >= 0
        BY <1>t, <1>p, <2>1, <2>2
    <2> QED BY <1>p, <2>1, <2>2, <2>3 DEF Positions
<1>4. CASE ReadCbDone \/ ReadCbCopy \/ ReportMusicInfo \/ TakeCommand
    BY <1>0, <1>4, <1>t DEF ReadCbDone, ReadCbCopy, ReportMusicInfo, TakeCommand, Positions
<1>5. CASE InitPlayMp3 \/ PipelineRun
    <2>1. pc["main"] \in {"init", "run"} /\ pc["decoder"] = "idle"
        BY <1>5, <1>t DEF InitPlayMp3, PipelineRun, Commands
    <2> QED BY <1>0, <1>5, <1>t, <2>1 DEF InitPlayMp3, PipelineRun, Positions
<1>6. CASE StartMusic
    <2>1. pc["main"] = "start" /\ pc["decoder"] = "idle"
        BY <1>6, <1>t DEF StartMusic, Commands
    <2> QED BY <1>6, <1>t, <1>p, <2>1, LengthsNat DEF StartMusic, Positions, Tracks
<1>7. CASE Sample \/ CheckState \/ PauseReturns \/ ResumeReturns
    BY <1>0, <1>7, <1>t DEF Sample, CheckState, PauseReturns, ResumeReturns, Positions
<1>8. CASE PauseMusicPlaying
    <2>1. /\ state_runing \in Tracks /\ mp3_start = state_runing
          /\ mp3_pos <= Length(state_runing)
        BY <1>0, <1>8 DEF PauseMusicPlaying, PauseInto, Pointers, Positions
    <2>2. \A t \in Tracks : saved'[t] >= 0 /\ saved'[t] <= Length(t)
        BY <1>8, <1>t, <1>p, <2>1 DEF PauseMusicPlaying, PauseInto
    <2> QED BY <1>0, <1>8, <1>t, <2>2 DEF PauseMusicPlaying, PauseInto, Positions
<1>9. CASE ResumeMusic \/ ResumeEnd
    <2>1. pc["main"] \in {"resume", "end"} /\ pc["decoder"] = "idle"
        BY <1>0, <1>9, <1>t DEF ResumeMusic, ResumeEnd, Handshake, Commands
    <2>2. pc'["decoder"] = "idle" /\ UNCHANGED <<saved, mp3_pos>>
        BY <1>9, <1>t, <2>1 DEF ResumeMusic, ResumeEnd
    <2>3. \/ pc'["main"] \in {"end", "pos"}
          \/ pc["main"] = "resume" /\ UNCHANGED mp3_start
        BY <1>9, <1>t DEF ResumeMusic, ResumeEnd
    <2> QED BY <1>0, <1>p, <2>2, <2>3 DEF Positions
<1>10. CASE ResumePos
    <2>1. pc["decoder"] = "idle" /\ mp3_start = want
        BY <1>0, <1>10, <1>t DEF ResumePos, Handshake, Commands, Pointers
    <2>2. mp3_pos' = saved[want] /\ UNCHANGED <<mp3_start, saved>> /\ pc'["decoder"] = "idle"
        BY <1>10, <1>t, <2>1 DEF ResumePos
    <2> QED BY <1>t, <1>p, <2>1, <2>2 DEF Positions
<1>11. CASE Finger \/ UNCHANGED vars
    BY <1>11 DEF Finger, vars, Positions
<1> QED
    BY <1>1, <1>2, <1>3, <1>4, <1>5, <1>6, <1>7, <1>8, <1>9, <1>10, <1>11
    DEF Next, Main, Decoder, ResumeTrack

\* an event that waits stays until the listener takes it
LEMMA PendingStays ==
    ASSUME TypeOK, InfoPending, NEW kind \in {"info", "status"}, events' = Sent(kind),
           pc'["music"] = pc["music"]
    PROVE  InfoPending'
BY SentQueue DEF InfoPending

\* the listener that takes the first event has it or leaves the one that waits
LEMMA PendingTaken == ASSUME TypeOK, InfoPending, ListenDecoder PROVE InfoPending'
<1>t. events \in Seq({"info", "status"}) /\ events # <<>>
    BY DEF TypeOK, QueueOK, ListenDecoder
<1>p. pc["music"] = "listen" /\ events' = Tail(events)
      /\ pc'["music"] = IF Head(events) = "info" THEN "get_info" ELSE "listen"
    BY DEF ListenDecoder, Goto, TypeOK, Places
<1>1. CASE Head(events) = "info"
    BY <1>1, <1>p DEF InfoPending
<1>2. CASE Head(events) # "info"
    <2>1. PICK i \in DOMAIN events : events[i] = "info"
        BY <1>p DEF InfoPending
    <2>2. i \in 1 .. Len(events) /\ i # 1 /\ Len(events) \in Nat
        BY <1>t, <1>2, <2>1
    <2>3. /\ i - 1 \in 1 .. Len(Tail(events)) /\ Tail(events)[i - 1] = events[i]
          /\ DOMAIN Tail(events) = 1 .. Len(Tail(events))
        BY <1>t, <2>2
    <2> QED BY <1>p, <2>1, <2>3 DEF InfoPending
<1> QED BY <1>1, <1>2

LEMMA ReportedStep ==
    TypeOK /\ Commands /\ Reported /\ [Next]_vars => Reported'
<1> SUFFICES ASSUME TypeOK, Commands, Reported, [Next]_vars PROVE Reported'
    OBVIOUS
<1>t. pc \in Places
    BY DEF TypeOK
<1> USE DEF Places, Reported, player, library, setup, clock, Goto
<1>1. CASE CreatePipeline \/ LinkPipeline \/ SetListener
    BY <1>1, <1>t DEF CreatePipeline, LinkPipeline, SetListener
<1>2. CASE ListenDecoder
    <2>1. InfoPending => InfoPending'
        BY <1>2, PendingTaken
    <2>2. pc'["music"] = "get_info" => InfoPending'
        BY DEF InfoPending
    <2> QED BY <1>2, <1>t, <2>1, <2>2 DEF ListenDecoder
<1>3. CASE GetMusicInfo
    BY <1>3, <1>t DEF GetMusicInfo
<1>4. CASE SetClock
    BY <1>4, <1>t DEF SetClock, InfoPending
<1>5. CASE ReadCbAdvance
    BY <1>5, <1>t DEF ReadCbAdvance, InfoPending
<1>6. CASE ReportMusicInfo
    <2>1. InfoPending => InfoPending'
        BY <1>6, <1>t, PendingStays DEF ReportMusicInfo
    <2>2. HasRoom => InfoPending'
        BY <1>6, SentQueue DEF ReportMusicInfo, InfoPending
    <2> QED BY <1>6, <1>t, <2>1, <2>2 DEF ReportMusicInfo
<1>7. CASE ReadCbDone \/ TakeCommand
    <2>1. InfoPending => InfoPending'
        BY <1>7, PendingStays DEF ReadCbDone, TakeCommand
    <2> QED BY <1>7, <2>1 DEF ReadCbDone, TakeCommand
<1>8. CASE ReadCbSize \/ ReadCbCopy
    BY <1>8, <1>t DEF ReadCbSize, ReadCbCopy, InfoPending
<1>9. CASE InitPlayMp3 \/ StartMusic
    BY <1>9, <1>t DEF InitPlayMp3, StartMusic, Commands
<1>10. CASE PipelineRun
    <2>1. info = "none" /\ pipeline # "listening"
        BY <1>10 DEF PipelineRun, Commands, TypeOK
    <2> QED BY <1>10, <1>t, <2>1 DEF PipelineRun
<1>11. CASE Sample \/ CheckState \/ PauseMusicPlaying \/ PauseReturns
    BY <1>11, <1>t DEF Sample, CheckState, PauseMusicPlaying, PauseInto, PauseReturns,
                       InfoPending
<1>12. CASE ResumeTrack
    BY <1>12, <1>t DEF ResumeTrack, ResumeMusic, ResumeEnd, ResumePos, ResumeReturns,
                       InfoPending
<1>13. CASE Finger \/ ListenOther \/ UNCHANGED vars
    BY <1>13 DEF Finger, ListenOther, vars, InfoPending
<1> QED
    BY <1>1, <1>2, <1>3, <1>4, <1>5, <1>6, <1>7, <1>8, <1>9, <1>10, <1>11, <1>12, <1>13
    DEF Next, Main, MusicTask, Listen, Decoder

-----------------------------------------------------------------------------
(* The theorems *)

LEMMA PlayerInvariant == Spec => []PlayerInv
<1>1. PlayerInv /\ [Next]_vars => PlayerInv'
    BY TypeStep, PointersStep, CommandsStep, HandshakeStep, PositionsStep, ReportedStep
    DEF PlayerInv
<1> QED BY InitHolds, <1>1, PTL DEF Spec

\* The globals the three tasks share keep their types.
THEOREM PlayerTypes == Spec => []TypeOK
<1>1. PlayerInv => TypeOK
    BY DEF PlayerInv
<1> QED BY PlayerInvariant, <1>1, PTL

\* As long as the audio library answers, mp3_music_read_cb copies bytes of one track
\* only, and never a negative number of them: Handshake keeps it from running
\* while resume_music stores the pointers.
THEOREM CopiesInsideTrack == Spec => []CopyInsideTrack
<1>1. PlayerInv => CopyInsideTrack
    <2> SUFFICES ASSUME PlayerInv, timeouts = 0 PROVE CopyInsideTrack
        BY DEF CopyInsideTrack
    <2>1. pc["decoder"] = "copy" => mp3_start = mp3_end
        BY RunsInOneTrack DEF PlayerInv, Commands
    <2> QED BY <2>1 DEF PlayerInv, Positions, CopyInsideTrack
<1> QED BY PlayerInvariant, <1>1, PTL

\* get_state_playing() names the track of the pointers, whatever times out.
THEOREM StateIsTrack == Spec => []StateNamesTrack
<1>1. PlayerInv => StateNamesTrack
    BY DEF PlayerInv, Pointers, StateNamesTrack
<1> QED BY PlayerInvariant, <1>1, PTL

\* The output is set to the rate that is decoded, once the listener has taken the
\* last report of the music, for any length of the queue and whatever statuses and
\* errors come between: but for a report lost to a queue full of statuses, with none
\* handled after it (missed), which the statement excepts.
THEOREM ClockIsRight == Spec => []ClockFollowsDecoder
<1>1. PlayerInv => ClockFollowsDecoder
    BY DEF PlayerInv, Reported, ClockFollowsDecoder
<1> QED BY PlayerInvariant, <1>1, PTL

-----------------------------------------------------------------------------
(* What the decoder has been given of each track *)

Heard ==
    /\ heard \in [Tracks -> Nat]
    /\ timeouts = 0 =>
        /\ \A t \in Tracks : saved[t] <= heard[t]
        /\ pc["main"] \in {"run", "sample", "check", "pause", "pausing", "resume",
                           "resuming"} =>
            mp3_pos <= heard[mp3_start]
        /\ pc["decoder"] = "advance" => mp3_pos + read_size <= heard[mp3_start]

\* until a call times out the record only grows, and with every copy to the end of it
LEMMA HeardGrows ==
    ASSUME PlayerInv, Heard, HeardNext
    PROVE  /\ heard' \in [Tracks -> Nat]
           /\ timeouts' = 0 =>
                /\ \A t \in Tracks : heard[t] <= heard'[t]
                /\ ReadCbCopy =>
                    mp3_start \in Tracks /\ mp3_pos + read_size <= heard'[mp3_start]
                /\ ~ReadCbCopy => heard' = heard
<1>0. CASE timeouts' > 0
    BY <1>0 DEF HeardNext, NothingHeard
<1>n. TypeOK'
    BY TypeStep DEF HeardNext, PlayerInv
<1>1. CASE timeouts' = 0 /\ ReadCbCopy
    <2>1. mp3_start \in Tracks /\ mp3_pos + read_size \in Int
        BY <1>1 DEF ReadCbCopy, Goto, PlayerInv, TypeOK, Places, Pointers, Commands
    <2>2. heard' = IF mp3_pos + read_size > heard[mp3_start]
                   THEN [heard EXCEPT ![mp3_start] = mp3_pos + read_size]
                   ELSE heard
        BY <1>1 DEF HeardNext
    <2>3. heard[mp3_start] \in Nat
        BY <2>1 DEF Heard
    <2>4. mp3_pos + read_size > heard[mp3_start] => mp3_pos + read_size \in Nat
        BY <2>1, <2>3
    <2> QED BY <1>1, <2>1, <2>2, <2>3, <2>4 DEF Heard
<1>2. CASE timeouts' = 0 /\ ~ReadCbCopy
    BY <1>2 DEF HeardNext, Heard
<1>3. timeouts' = 0 \/ timeouts' > 0
    BY <1>n, PlayerAssumption DEF TypeOK
<1> QED BY <1>0, <1>1, <1>2, <1>3

LEMMA HeardStep == PlayerInv /\ Heard /\ [HeardNext]_<<vars, heard>> => Heard'
<1> SUFFICES ASSUME PlayerInv, Heard, HeardNext PROVE Heard'
    BY DEF Heard, vars, player, library
<1>h. heard' \in [Tracks -> Nat] /\ (timeouts' = 0 /\ ~ReadCbCopy => heard' = heard)
    BY HeardGrows
<1> SUFFICES ASSUME timeouts' = 0 PROVE Heard'
    BY <1>h DEF Heard
<1>n. Next /\ TypeOK
    BY DEF HeardNext, PlayerInv
<1>0. timeouts = 0
    BY <1>n, TimeoutsStay
<1> USE DEF Places, player, library, setup, clock, Goto
<1>t. /\ pc \in Places
      /\ mp3_pos \in Int /\ read_size \in Int /\ saved \in [Tracks -> Int]
      /\ want \in Tracks
    BY <1>n DEF TypeOK
<1>p. /\ heard \in [Tracks -> Nat]
      /\ \A t \in Tracks : saved[t] <= heard[t]
    BY <1>0 DEF Heard
<1>1. CASE ReadCbCopy
    <2>1. /\ mp3_start \in Tracks /\ mp3_pos + read_size <= heard'[mp3_start]
          /\ \A t \in Tracks : heard[t] <= heard'[t]
        BY <1>1, HeardGrows
    <2>2. /\ UNCHANGED <<saved, mp3_pos, mp3_start, read_size>> /\ pc'["main"] = pc["main"]
        BY <1>1, <1>t DEF ReadCbCopy
    <2>3. \A t \in Tracks : saved'[t] <= heard'[t]
        BY <1>t, <1>h, <1>p, <2>1, <2>2
    <2>4. mp3_pos <= heard[mp3_start] => mp3_pos' <= heard'[mp3_start']
        BY <1>t, <1>h, <1>p, <2>1, <2>2
    <2> QED BY <1>0, <1>h, <2>1, <2>2, <2>3, <2>4 DEF Heard
<1>2. ASSUME ~ReadCbCopy PROVE Heard'
    <2>h. heard' = heard
        BY <1>2, <1>h
    <2>1. CASE MusicTask
        BY <2>1, <2>h, <1>0, <1>t DEF MusicTask, CreatePipeline, LinkPipeline, SetListener,
                          Listen, ListenDecoder,
                ListenOther, vars, GetMusicInfo, SetClock, Heard
    <2>2. CASE ReadCbDone \/ ReadCbSize \/ ReportMusicInfo \/ TakeCommand
        BY <2>2, <2>h, <1>0, <1>t DEF ReadCbDone, ReadCbSize, ReportMusicInfo, TakeCommand,
                                      Heard
    <2>3. CASE ReadCbAdvance
        BY <2>3, <2>h, <1>0, <1>t DEF ReadCbAdvance, Heard
    <2>4. CASE InitPlayMp3 \/ PipelineRun
        <3>1. pc["main"] \in {"init", "run"} /\ pc["decoder"] = "idle"
            BY <2>4, <1>t DEF InitPlayMp3, PipelineRun, PlayerInv, Commands
        <3> QED BY <1>0, <2>4, <2>h, <1>t, <3>1 DEF InitPlayMp3, PipelineRun, Heard
    <2>5. CASE StartMusic
        <3>1. pc["main"] = "start" /\ pc["decoder"] = "idle"
            BY <2>5, <1>t DEF StartMusic, PlayerInv, Commands
        <3>2. heard["ring"] >= 0
            BY <1>p DEF Tracks
        <3> QED BY <2>5, <2>h, <1>t, <1>p, <3>1, <3>2 DEF StartMusic, Heard
    <2>6. CASE Sample \/ CheckState \/ PauseReturns \/ ResumeReturns
        BY <1>0, <2>6, <2>h, <1>t DEF Sample, CheckState, PauseReturns, ResumeReturns, Heard
    <2>7. CASE PauseMusicPlaying
        <3>1. /\ state_runing \in Tracks /\ mp3_start = state_runing
              /\ mp3_pos <= heard[state_runing]
            BY <1>0, <2>7 DEF PauseMusicPlaying, PauseInto, PlayerInv, Pointers, Heard
        <3>2. \A t \in Tracks : saved'[t] <= heard[t]
            BY <2>7, <1>t, <1>p, <3>1 DEF PauseMusicPlaying, PauseInto
        <3> QED BY <1>0, <2>7, <2>h, <1>t, <3>2 DEF PauseMusicPlaying, PauseInto, Heard
    <2>8. CASE ResumeMusic \/ ResumeEnd
        <3>1. pc["main"] \in {"resume", "end"} /\ pc["decoder"] = "idle"
            BY <1>0, <2>8, <1>t DEF ResumeMusic, ResumeEnd, PlayerInv, Handshake, Commands
        <3>2. pc'["decoder"] = "idle" /\ UNCHANGED <<saved, mp3_pos>>
            BY <2>8, <1>t, <3>1 DEF ResumeMusic, ResumeEnd
        <3>3. \/ pc'["main"] \in {"end", "pos"}
              \/ pc["main"] = "resume" /\ UNCHANGED mp3_start
            BY <2>8, <1>t DEF ResumeMusic, ResumeEnd
        <3> QED BY <1>0, <1>p, <2>h, <3>2, <3>3 DEF Heard
    <2>9. CASE ResumePos
        <3>1. pc["decoder"] = "idle" /\ mp3_start = want
            BY <1>0, <2>9, <1>t DEF ResumePos, PlayerInv, Handshake, Commands, Pointers
        <3>2. mp3_pos' = saved[want] /\ UNCHANGED <<mp3_start, saved>> /\ pc'["decoder"] = "idle"
            BY <2>9, <1>t, <3>1 DEF ResumePos
        <3> QED BY <1>t, <1>p, <2>h, <3>1, <3>2 DEF Heard
    <2>10. CASE Finger
        BY <2>10, <2>h, <1>0 DEF Finger, Heard
    <2> QED
        BY <1>2, <1>n, <2>1, <2>2, <2>3, <2>4, <2>5, <2>6, <2>7, <2>8, <2>9, <2>10
        DEF Next, Main, Decoder, ResumeTrack
<1> QED BY <1>1, <1>2

\* As long as the library answers, no byte of a track is left out: wherever the
\* decoder reads on after a pause, it has been given everything before.
THEOREM NothingIsSkipped == HeardSpec => []NothingSkipped
<1>1. HeardInit => PlayerInv /\ Heard
    BY InitHolds DEF HeardInit, Init, Heard, NothingHeard, Tracks
<1>2. PlayerInv /\ Heard /\ [HeardNext]_<<vars, heard>> => PlayerInv' /\ Heard'
    <2>1. [HeardNext]_<<vars, heard>> => [Next]_vars
        BY DEF HeardNext
    <2>2. PlayerInv /\ [Next]_vars => PlayerInv'
        BY TypeStep, PointersStep, CommandsStep, HandshakeStep, PositionsStep,
           ReportedStep DEF PlayerInv
    <2> QED BY <2>1, <2>2, HeardStep
<1>3. PlayerInv /\ Heard => NothingSkipped
    BY RunsInOneTrack DEF PlayerInv, Heard, NothingSkipped, Commands
<1> QED BY <1>1, <1>2, <1>3, PTL DEF HeardSpec

=============================================================================
