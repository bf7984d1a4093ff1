------------------------------- MODULE Buzzer -------------------------------
(***************************************************************************)
(* The buzzer of src/components/Buzzer/GBBBuzzer.cpp: clients ask for      *)
(* sounds, a task plays them one after the other, and a binary semaphore   *)
(* tells that a sound is completed.                                        *)
(*                                                                         *)
(* A request is a pointer and a number of notes.  playMidiSound builds it  *)
(* in a static local, which the clients share, and sends a copy without    *)
(* waiting: a request for a full queue is dropped, and nobody is told.     *)
(* The notes themselves stay where they are; playNoteLength fills a static *)
(* array anew for every call, whether the last sound is over or not.       *)
(***************************************************************************)
EXTENDS Naturals, Sequences

CONSTANTS
    Clients,  \* the tasks that call the buzzer
    TuneLen,  \* notes of a tune like `happy'; a single note is two: it and a rest
    Notes     \* what playNoteLength can make of its arguments

ASSUME BuzzerAssumption == TuneLen \in Nat \ {0, 1, 2} /\ Notes # {}

QueueLen == 2

\* The arrays of notes: a tune, one of note_C .. note_B, and the static array
\* that playNoteLength fills in.
Sounds == {"tune", "note_index", "param_note"}

NumOfNotes(sound) == IF sound = "tune" THEN TuneLen ELSE 2

VARIABLES
    Var,               \* the static request of playMidiSound
    param_note,        \* the note in the static array of playNoteLength
    Queue_Recive_Midi,
    isCompletedSound,  \* the binary semaphore, 0 or 1
    cpc,               \* where each client is
    asked,             \* the sound a client asks for
    rpc,               \* where runTaskSound is
    current, i,        \* its request, and the note it plays
    speaker,           \* is the output on?
    played,            \* history: has the client asked since it last waited?
    patient            \* history: did every client wait for each of its sounds
                       \* before it asked for the next?

vars == <<Var, param_note, Queue_Recive_Midi, isCompletedSound, cpc, asked, rpc,
          current, i, speaker, played, patient>>

client == <<Var, param_note, cpc, asked, played, patient>>
notes  == <<param_note, patient>>
task   == <<rpc, current, i, speaker>>

Nothing == [p |-> "null", num |-> 0]

Init ==
    /\ Var = Nothing
    /\ param_note \in Notes
    /\ Queue_Recive_Midi = <<>>
    /\ isCompletedSound = 0
    /\ cpc = [c \in Clients |-> "idle"]
    /\ asked = [c \in Clients |-> "tune"]
    /\ rpc = "receive" /\ current = Nothing /\ i = 0
    /\ speaker = FALSE
    /\ played = [c \in Clients |-> FALSE] /\ patient = TRUE

-----------------------------------------------------------------------------
(* A client: playMidiSound, playNoteIndex and playNoteLength end in the     *)
(* three accesses to Var.                                                   *)

ClientGoto(c, from, to) == cpc[c] = from /\ cpc' = [cpc EXCEPT ![c] = to]

\* A note playNoteLength does not know leaves the array's note as it was.
Ask(c) ==
    /\ ClientGoto(c, "idle", "pointer")
    /\ \E sound \in Sounds :
        /\ asked' = [asked EXCEPT ![c] = sound]
        /\ IF sound = "param_note" THEN param_note' \in Notes ELSE UNCHANGED param_note
    /\ patient' = (patient /\ ~played[c])
    /\ UNCHANGED <<Var, played, Queue_Recive_Midi, isCompletedSound, task>>

\* (mutant) the request is sent before its length is stored
SetPointerAndSend(c) ==
    /\ ClientGoto(c, "pointer", "length")
    /\ Var' = [Var EXCEPT !.p = asked[c]]
    /\ Queue_Recive_Midi' = IF Len(Queue_Recive_Midi) < QueueLen
                            THEN Append(Queue_Recive_Midi, Var') ELSE Queue_Recive_Midi
    /\ UNCHANGED <<asked, played, notes, isCompletedSound, task>>

SetPointer(c) ==
    /\ ClientGoto(c, "pointer", "length")
    /\ Var' = [Var EXCEPT !.p = asked[c]]
    /\ UNCHANGED <<asked, played, notes, Queue_Recive_Midi, isCompletedSound, task>>

SetLength(c) ==
    /\ ClientGoto(c, "length", "send")
    /\ Var' = [Var EXCEPT !.num = NumOfNotes(asked[c])]
    /\ UNCHANGED <<asked, played, notes, Queue_Recive_Midi, isCompletedSound, task>>

\* xQueueSend with no time to wait
Send(c) ==
    /\ ClientGoto(c, "send", "idle")
    /\ Queue_Recive_Midi' = IF Len(Queue_Recive_Midi) < QueueLen
                            THEN Append(Queue_Recive_Midi, Var) ELSE Queue_Recive_Midi
    /\ played' = [played EXCEPT ![c] = TRUE]
    /\ UNCHANGED <<Var, notes, asked, isCompletedSound, task>>

CallWaitComplete(c) ==
    /\ ClientGoto(c, "idle", "wait")
    /\ played[c]
    /\ UNCHANGED <<Var, notes, asked, played, Queue_Recive_Midi, isCompletedSound, task>>

\* waitComplete: xSemaphoreTake, for ever
WaitComplete(c) ==
    /\ ClientGoto(c, "wait", "idle")
    /\ isCompletedSound = 1
    /\ isCompletedSound' = 0
    /\ played' = [played EXCEPT ![c] = FALSE]
    /\ UNCHANGED <<Var, notes, asked, Queue_Recive_Midi, task>>

Client(c) ==
    \/ Ask(c) \/ SetPointer(c) \/ SetLength(c) \/ Send(c)
    \/ CallWaitComplete(c) \/ WaitComplete(c)

-----------------------------------------------------------------------------
(* runTaskSound, playFile, playNote *)

\* (mutant) the sound is signalled before it is played
ReceiveAndGive ==
    /\ rpc = "receive"
    /\ Queue_Recive_Midi # <<>>
    /\ current' = Head(Queue_Recive_Midi)
    /\ Queue_Recive_Midi' = Tail(Queue_Recive_Midi)
    /\ isCompletedSound' = 1
    /\ rpc' = "play" /\ i' = 0
    /\ UNCHANGED <<client, speaker>>

Receive ==
    /\ rpc = "receive"
    /\ Queue_Recive_Midi # <<>>
    /\ current' = Head(Queue_Recive_Midi)
    /\ Queue_Recive_Midi' = Tail(Queue_Recive_Midi)
    /\ rpc' = "play" /\ i' = 0
    /\ UNCHANGED <<client, isCompletedSound, speaker>>

\* a rest stops the output, a note starts it; both then delay
StartNote ==
    /\ rpc = "play"
    /\ i < current.num
    /\ rpc' = "sound"
    /\ speaker' \in BOOLEAN
    /\ UNCHANGED <<client, Queue_Recive_Midi, isCompletedSound, current, i>>

EndNote ==
    /\ rpc = "sound"
    /\ rpc' = "play" /\ i' = i + 1
    /\ speaker' = FALSE
    /\ UNCHANGED <<client, Queue_Recive_Midi, isCompletedSound, current>>

\* (mutant) a sound of which nobody waits is not signalled
GiveToWaiters ==
    /\ rpc = "play"
    /\ i >= current.num
    /\ rpc' = "receive" /\ current' = Nothing /\ i' = 0
    /\ isCompletedSound' = IF \E c \in Clients : cpc[c] = "wait" THEN 1 ELSE isCompletedSound
    /\ UNCHANGED <<client, Queue_Recive_Midi, speaker>>

\* xSemaphoreGive: a token that is there already is not doubled
Give ==
    /\ rpc = "play"
    /\ i >= current.num
    /\ rpc' = "receive" /\ current' = Nothing /\ i' = 0
    /\ isCompletedSound' = 1
    /\ UNCHANGED <<client, Queue_Recive_Midi, speaker>>

TaskSound == Receive \/ StartNote \/ EndNote \/ Give

Next == TaskSound \/ \E c \in Clients : Client(c)

Spec == Init /\ [][Next]_vars

\* The task has priority 4 and is always served; a client finishes the calls it
\* begins, but need not begin any.
FairSpec ==
    /\ Spec
    /\ WF_vars(TaskSound)
    /\ \A c \in Clients : WF_vars(SetPointer(c) \/ SetLength(c) \/ Send(c) \/ WaitComplete(c))

-----------------------------------------------------------------------------
(* Properties *)

Requests == [p : Sounds \cup {"null"}, num : {0, 2, TuneLen}]

\* Every variable keeps its type.
TypeOK ==
    /\ Var \in Requests /\ param_note \in Notes
    /\ Queue_Recive_Midi \in Seq(Requests) /\ Len(Queue_Recive_Midi) <= QueueLen
    /\ isCompletedSound \in {0, 1}
    /\ cpc \in [Clients -> {"idle", "pointer", "length", "send", "wait"}]
    /\ asked \in [Clients -> Sounds]
    /\ rpc \in {"receive", "play", "sound"}
    /\ current \in Requests /\ i \in 0 .. TuneLen
    /\ speaker \in BOOLEAN
    /\ played \in [Clients -> BOOLEAN] /\ patient \in BOOLEAN

\* The notes that are played are notes of the array the request points to: the
\* pointer and the length of one request were stored together.
InsideSound == rpc = "sound" => i < NumOfNotes(current.p) /\ current.p # "null"

\* A client that asked for a sound since it last waited, accepted or dropped, and
\* waits finds a token or a sound that will give one.
NobodyWaitsForNothing ==
    (\E c \in Clients : cpc[c] = "wait") =>
        isCompletedSound = 1 \/ Queue_Recive_Midi # <<>> \/ rpc # "receive"

NoteInUse ==
    \/ rpc # "receive" /\ current.p = "param_note"
    \/ \E k \in 1 .. Len(Queue_Recive_Midi) : Queue_Recive_Midi[k].p = "param_note"

\* playNoteLength changes no note that a queued request points to, or that is being
\* played, as long as the client calls waitComplete after every sound.  For that
\* the tokens and the sounds must match one to one: none dropped, none left over.
NotesStay == [][NoteInUse /\ patient' => UNCHANGED param_note]_vars

\* waitComplete returns in the end, though sounds that end together give one token.
WaitReturns == \A c \in Clients : cpc[c] = "wait" ~> cpc[c] = "idle"

\* The header of waitComplete (GBBBuzzer.h:142): "Wait until play sound is
\* completed".  The code breaks this: it returns at once on the token of an
\* earlier sound that nobody waited for.
WaitsUntilCompleted ==
    [][\A c \in Clients : WaitComplete(c) => Queue_Recive_Midi = <<>> /\ rpc = "receive"]_vars

=============================================================================
