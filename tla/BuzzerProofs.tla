------------------------------ MODULE BuzzerProofs ------------------------------
(***************************************************************************)
(* Theorems about Buzzer, for any length of tune and a buzzer with one     *)
(* client, as the static request of playMidiSound allows.                  *)
(*                                                                         *)
(* Whole says that a pointer and the length next to it belong together.    *)
(* Owed says that a client that may wait has a token or a sound to come,   *)
(* and Matched that a patient client has exactly one of them.              *)
(***************************************************************************)
EXTENDS Buzzer, TLAPS

OneClient == \E c : Clients = {c}

Fits(request) == request.p \in Sounds /\ request.num = NumOfNotes(request.p)

\* The request is whole when it is sent, in the queue, and when it is played.
Whole ==
    /\ \A c \in Clients :
        /\ cpc[c] \in {"length", "send"} => Var.p = asked[c]
        /\ cpc[c] = "send" => Fits(Var)
    /\ \A k \in 1 .. Len(Queue_Recive_Midi) : Fits(Queue_Recive_Midi[k])
    /\ rpc # "receive" => Fits(current)
    /\ rpc = "sound" => i < current.num
    /\ i <= current.num

ToCome == isCompletedSound = 1 \/ Queue_Recive_Midi # <<>> \/ rpc # "receive"

\* Whoever waits has asked, and who has asked has a token or a sound to come.
Owed ==
    \A c \in Clients : /\ cpc[c] = "wait" => played[c]
                       /\ played[c] => ToCome

Busy == IF rpc = "receive" THEN 0 ELSE 1

\* Of a patient client there is one sound or token until it has waited, and then none.
Matched ==
    patient => \A c \in Clients :
        isCompletedSound + Len(Queue_Recive_Midi) + Busy = IF played[c] THEN 1 ELSE 0

\* A client that calls the buzzer has no sound left.
Calling ==
    patient => \A c \in Clients : cpc[c] \in {"pointer", "length", "send"} => ~played[c]

BuzzerInv == TypeOK /\ Whole /\ Owed /\ Matched /\ Calling

-----------------------------------------------------------------------------
(* One step: the type invariant *)

LEMMA InitHolds == Init => BuzzerInv
<1> SUFFICES ASSUME Init PROVE BuzzerInv
    OBVIOUS
<1> USE BuzzerAssumption DEF Init
<1>1. Nothing \in Requests /\ <<>> \in Seq(Requests) /\ Len(<<>>) = 0
    BY DEF Nothing, Requests
<1>2. asked \in [Clients -> Sounds]
    BY DEF Sounds
<1>3. TypeOK
    <2>1. i \in 0 .. TuneLen /\ Len(Queue_Recive_Midi) <= QueueLen
        BY <1>1 DEF QueueLen
    <2>2. cpc \in [Clients -> {"idle", "pointer", "length", "send", "wait"}]
        OBVIOUS
    <2>3. played \in [Clients -> BOOLEAN] /\ patient \in BOOLEAN /\ speaker \in BOOLEAN
        BY Zenon
    <2> QED BY <1>1, <1>2, <2>1, <2>2, <2>3, Zenon DEF TypeOK
<1>4. i <= current.num
    BY DEF Nothing
<1>5. Whole
    BY <1>1, <1>4 DEF Whole
<1>6. Owed
    BY DEF Owed
<1>7. Matched
    <2>1. isCompletedSound + Len(Queue_Recive_Midi) + Busy = 0
        BY <1>1 DEF Busy
    <2>2. \A c \in Clients : ~played[c]
        OBVIOUS
    <2> QED BY <2>1, <2>2 DEF Matched
<1>8. Calling
    BY DEF Calling
<1> QED BY <1>3, <1>5, <1>6, <1>7, <1>8 DEF BuzzerInv

LEMMA TypeStep == TypeOK /\ Whole /\ [Next]_vars => TypeOK'
<1> SUFFICES ASSUME TypeOK, Whole, [Next]_vars PROVE TypeOK'
    OBVIOUS
<1> USE BuzzerAssumption DEF TypeOK, client, notes, task
<1>1. ASSUME NEW c \in Clients, Ask(c) PROVE TypeOK'
    BY <1>1 DEF Ask, ClientGoto
<1>2. ASSUME NEW c \in Clients, SetPointer(c) PROVE TypeOK'
    BY <1>2 DEF SetPointer, ClientGoto, Requests
<1>3. ASSUME NEW c \in Clients, SetLength(c) PROVE TypeOK'
    BY <1>3 DEF SetLength, ClientGoto, NumOfNotes, Requests
<1>4. ASSUME NEW c \in Clients, Send(c) PROVE TypeOK'
    <2>1. Queue_Recive_Midi' \in Seq(Requests) /\ Len(Queue_Recive_Midi') <= QueueLen
        BY <1>4 DEF Send, QueueLen
    <2>2. cpc' \in [Clients -> {"idle", "pointer", "length", "send", "wait"}]
        BY <1>4 DEF Send, ClientGoto
    <2> QED BY <1>4, <2>1, <2>2 DEF Send
<1>5. ASSUME NEW c \in Clients, CallWaitComplete(c) PROVE TypeOK'
    BY <1>5 DEF CallWaitComplete, ClientGoto
<1>6. ASSUME NEW c \in Clients, WaitComplete(c) PROVE TypeOK'
    BY <1>6 DEF WaitComplete, ClientGoto
<1>7. CASE Receive
    <2>1. /\ Queue_Recive_Midi' \in Seq(Requests) /\ current' \in Requests
          /\ Len(Queue_Recive_Midi') <= QueueLen
        BY <1>7 DEF Receive, QueueLen
    <2>2. i' \in 0 .. TuneLen
        BY <1>7 DEF Receive
    <2> QED BY <1>7, <2>1, <2>2 DEF Receive
<1>8. CASE StartNote
    BY <1>8 DEF StartNote
<1>9. CASE EndNote
    <2>1. i < current.num /\ current.num \in 0 .. TuneLen
        BY <1>9 DEF EndNote, Whole, Requests
    <2>2. i' \in 0 .. TuneLen
        BY <1>9, <2>1 DEF EndNote
    <2> QED BY <1>9, <2>2 DEF EndNote
<1>10. CASE Give
    BY <1>10 DEF Give, Nothing, Requests
<1>11. CASE UNCHANGED vars
    BY <1>11 DEF vars
<1> QED
    BY <1>1, <1>2, <1>3, <1>4, <1>5, <1>6, <1>7, <1>8, <1>9, <1>10, <1>11
    DEF Next, TaskSound, Client

-----------------------------------------------------------------------------
(* One step: requests stay whole *)

\* what the queue holds of whole requests stays whole when one more is sent
LEMMA AppendWhole ==
    ASSUME NEW q \in Seq(Requests), NEW r \in Requests, Fits(r),
           \A k \in 1 .. Len(q) : Fits(q[k])
    PROVE  \A k \in 1 .. Len(Append(q, r)) : Fits(Append(q, r)[k])
OBVIOUS

LEMMA WholeStep ==
    ASSUME OneClient, TypeOK, Whole, [Next]_vars PROVE Whole'
<1> PICK me : Clients = {me}
    BY DEF OneClient
<1> USE BuzzerAssumption DEF Whole, client, notes, task
<1>t. /\ Queue_Recive_Midi \in Seq(Requests) /\ Var \in Requests
      /\ asked \in [Clients -> Sounds] /\ current \in Requests /\ i \in Nat
      /\ cpc \in [Clients -> {"idle", "pointer", "length", "send", "wait"}]
    BY DEF TypeOK
<1>1. ASSUME NEW c \in Clients, Ask(c) PROVE Whole'
    BY <1>1, <1>t DEF Ask, ClientGoto
<1>2. ASSUME NEW c \in Clients, SetPointer(c) PROVE Whole'
    <2>1. Var'.p = asked[c]
        BY <1>2, <1>t DEF SetPointer, Requests
    <2> QED BY <1>2, <1>t, <2>1 DEF SetPointer, ClientGoto
<1>3. ASSUME NEW c \in Clients, SetLength(c) PROVE Whole'
    <2>1. Var'.p = asked[c] /\ Var'.num = NumOfNotes(asked[c])
        BY <1>3, <1>t DEF SetLength, ClientGoto, Requests
    <2> QED BY <1>3, <1>t, <2>1 DEF SetLength, ClientGoto, Fits
<1>4. ASSUME NEW c \in Clients, Send(c) PROVE Whole'
    <2>1. Fits(Var)
        BY <1>4 DEF Send, ClientGoto
    <2>2. \A k \in 1 .. Len(Queue_Recive_Midi') : Fits(Queue_Recive_Midi'[k])
        BY <1>4, <1>t, <2>1, AppendWhole DEF Send
    <2> QED BY <1>4, <1>t, <2>2 DEF Send, ClientGoto
<1>5. ASSUME NEW c \in Clients, CallWaitComplete(c) PROVE Whole'
    BY <1>5, <1>t DEF CallWaitComplete, ClientGoto
<1>6. ASSUME NEW c \in Clients, WaitComplete(c) PROVE Whole'
    BY <1>6, <1>t DEF WaitComplete, ClientGoto
<1>7. CASE Receive
    <2>1. Fits(Head(Queue_Recive_Midi))
        BY <1>7, <1>t DEF Receive
    <2>2. \A k \in 1 .. Len(Tail(Queue_Recive_Midi)) : Fits(Tail(Queue_Recive_Midi)[k])
        BY <1>7, <1>t DEF Receive
    <2>3. 0 <= Head(Queue_Recive_Midi).num
        BY <2>1 DEF Fits, NumOfNotes
    <2> QED BY <1>7, <2>1, <2>2, <2>3 DEF Receive
<1>8. CASE StartNote
    BY <1>8 DEF StartNote
<1>9. CASE EndNote
    <2>1. current.num \in Nat
        BY <1>t DEF Requests
    <2> QED BY <1>9, <1>t, <2>1 DEF EndNote
<1>10. CASE Give
    BY <1>10 DEF Give, Nothing
<1>11. CASE UNCHANGED vars
    BY <1>11 DEF vars
<1> QED
    BY <1>1, <1>2, <1>3, <1>4, <1>5, <1>6, <1>7, <1>8, <1>9, <1>10, <1>11
    DEF Next, TaskSound, Client

-----------------------------------------------------------------------------
(* One step: sounds and tokens *)

LEMMA OwedStep ==
    ASSUME OneClient, TypeOK, Owed, [Next]_vars PROVE Owed'
<1> PICK me : Clients = {me}
    BY DEF OneClient
<1> USE DEF Owed, ToCome, client, notes, task
<1>t. /\ Queue_Recive_Midi \in Seq(Requests) /\ isCompletedSound \in {0, 1}
      /\ played \in [Clients -> BOOLEAN]
      /\ cpc \in [Clients -> {"idle", "pointer", "length", "send", "wait"}]
    BY DEF TypeOK
<1>1. ASSUME NEW c \in Clients, Ask(c) \/ SetPointer(c) \/ SetLength(c) PROVE Owed'
    BY <1>1, <1>t DEF Ask, SetPointer, SetLength, ClientGoto
<1>2. ASSUME NEW c \in Clients, Send(c) PROVE Owed'
    <2>1. Queue_Recive_Midi' # <<>>
        BY <1>2, <1>t DEF Send, QueueLen
    <2> QED BY <1>2, <1>t, <2>1 DEF Send, ClientGoto
<1>3. ASSUME NEW c \in Clients, CallWaitComplete(c) PROVE Owed'
    BY <1>3, <1>t DEF CallWaitComplete, ClientGoto
<1>4. ASSUME NEW c \in Clients, WaitComplete(c) PROVE Owed'
    BY <1>4, <1>t DEF WaitComplete, ClientGoto
<1>5. CASE TaskSound
    BY <1>5 DEF TaskSound, Receive, StartNote, EndNote, Give
<1>6. CASE UNCHANGED vars
    BY <1>6 DEF vars
<1> QED BY <1>1, <1>2, <1>3, <1>4, <1>5, <1>6 DEF Next, Client

LEMMA MatchedStep ==
    ASSUME OneClient, TypeOK, Matched, Calling, [Next]_vars
    PROVE  Matched' /\ Calling'
<1> PICK me : Clients = {me}
    BY DEF OneClient
<1> USE DEF Matched, Calling, Busy, client, notes, task
<1>t. /\ Queue_Recive_Midi \in Seq(Requests) /\ isCompletedSound \in {0, 1}
      /\ played \in [Clients -> BOOLEAN] /\ Len(Queue_Recive_Midi) \in Nat
      /\ cpc \in [Clients -> {"idle", "pointer", "length", "send", "wait"}]
    BY DEF TypeOK
<1>1. ASSUME NEW c \in Clients, Ask(c) PROVE Matched' /\ Calling'
    BY <1>1, <1>t DEF Ask, ClientGoto
<1>2. ASSUME NEW c \in Clients, SetPointer(c) \/ SetLength(c)
      PROVE  Matched' /\ Calling'
    BY <1>2, <1>t DEF SetPointer, SetLength, ClientGoto
<1>3. ASSUME NEW c \in Clients, Send(c) PROVE Matched' /\ Calling'
    <2>1. patient => Len(Queue_Recive_Midi) = 0 /\ isCompletedSound = 0 /\ Busy = 0
        BY <1>3, <1>t DEF Send, ClientGoto
    <2>2. patient => Len(Queue_Recive_Midi') = 1
        BY <1>3, <1>t, <2>1 DEF Send, QueueLen
    <2>3. /\ patient' = patient /\ rpc' = rpc /\ isCompletedSound' = isCompletedSound
          /\ played'[c] = TRUE /\ cpc'[c] = "idle"
        BY <1>3, <1>t DEF Send, ClientGoto
    <2>4. Calling'
        BY <2>3
    <2>5. patient' => isCompletedSound' + Len(Queue_Recive_Midi') + Busy' = 1
        BY <2>1, <2>2, <2>3
    <2> QED BY <2>3, <2>4, <2>5
<1>4. ASSUME NEW c \in Clients, CallWaitComplete(c) \/ WaitComplete(c)
      PROVE  Matched' /\ Calling'
    BY <1>4, <1>t DEF CallWaitComplete, WaitComplete, ClientGoto
<1>5. CASE Receive
    <2>1. Len(Queue_Recive_Midi') = Len(Queue_Recive_Midi) - 1
        BY <1>5, <1>t DEF Receive
    <2> QED BY <1>5, <1>t, <2>1 DEF Receive
<1>6. CASE StartNote \/ EndNote
    BY <1>6 DEF StartNote, EndNote
<1>7. CASE Give
    BY <1>7, <1>t DEF Give
<1>8. CASE UNCHANGED vars
    BY <1>8 DEF vars
<1> QED
    BY <1>1, <1>2, <1>3, <1>4, <1>5, <1>6, <1>7, <1>8 DEF Next, TaskSound, Client

-----------------------------------------------------------------------------
(* The theorems *)

LEMMA BuzzerInvariant == ASSUME OneClient PROVE Spec => []BuzzerInv
<1>1. BuzzerInv /\ [Next]_vars => BuzzerInv'
    BY TypeStep, WholeStep, OwedStep, MatchedStep DEF BuzzerInv
<1> QED BY InitHolds, <1>1, PTL DEF Spec

\* With one client the queue, the semaphore and the variables keep their types,
\* whatever the length of a tune.
THEOREM BuzzerTypes == ASSUME OneClient PROVE Spec => []TypeOK
<1>1. BuzzerInv => TypeOK
    BY DEF BuzzerInv
<1> QED BY BuzzerInvariant, <1>1, PTL

\* runTaskSound plays no note behind the end of the array a request points to.
THEOREM PlaysInside == ASSUME OneClient PROVE Spec => []InsideSound
<1>1. BuzzerInv => InsideSound
    BY DEF BuzzerInv, Whole, Fits, InsideSound, Sounds
<1> QED BY BuzzerInvariant, <1>1, PTL

\* waitComplete never waits for a token that nobody will give.
THEOREM WaitsForSomething == ASSUME OneClient PROVE Spec => []NobodyWaitsForNothing
<1>1. BuzzerInv => NobodyWaitsForNothing
    BY DEF BuzzerInv, Owed, ToCome, NobodyWaitsForNothing
<1> QED BY BuzzerInvariant, <1>1, PTL

\* The static note of playNoteLength is left alone while it is needed, if the client
\* waits for every sound: Matched leaves no sound behind a client that calls.
THEOREM NotesLeftAlone == ASSUME OneClient PROVE Spec => NotesStay
<1>1. ASSUME BuzzerInv, [Next]_vars, NoteInUse, patient' PROVE UNCHANGED param_note
    <2> PICK me : Clients = {me}
        BY DEF OneClient
    <2>1. ASSUME NEW c \in Clients, Ask(c) PROVE FALSE
        <3>1. patient /\ ~played[c]
            BY <1>1, <2>1 DEF Ask
        <3>2. Len(Queue_Recive_Midi) = 0 /\ Busy = 0
            BY <1>1, <3>1 DEF BuzzerInv, Matched, Busy, TypeOK
        <3>3. rpc = "receive"
            BY <3>2 DEF Busy
        <3> QED BY <1>1, <3>2, <3>3 DEF NoteInUse
    <2>2. CASE \E c \in Clients : Client(c)
        BY <2>1, <2>2 DEF Client, SetPointer, SetLength, Send,
                         CallWaitComplete, WaitComplete, notes
    <2>3. CASE TaskSound
        BY <2>3 DEF TaskSound, Receive, StartNote, EndNote, Give, client
    <2> QED BY <1>1, <2>2, <2>3 DEF Next, vars
<1>2. BuzzerInv /\ [Next]_vars => [NoteInUse /\ patient' => UNCHANGED param_note]_vars
    BY <1>1
<1> QED BY BuzzerInvariant, <1>2, PTL DEF Spec, NotesStay
=============================================================================
