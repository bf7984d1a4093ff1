----------------------------- MODULE MCMp3Heard -----------------------------
(* Mp3Player with a record of what the decoder was given of each track. *)
EXTENDS Mp3Player

VARIABLE heard \* bytes of each track the decoder has copied, from its start; nobody
               \* asks for them once a call of the library has timed out

NothingHeard == [t \in Tracks |-> 0]

HeardInit == Init /\ heard = NothingHeard

HeardNext ==
    /\ Next
    /\ heard' = IF timeouts' > 0 THEN NothingHeard
                ELSE IF ReadCbCopy /\ mp3_pos + read_size > heard[mp3_start]
                THEN [heard EXCEPT ![mp3_start] = mp3_pos + read_size]
                ELSE heard

HeardSpec == HeardInit /\ [][HeardNext]_<<vars, heard>>

HeardFairSpec == HeardSpec /\ WF_vars(Main) /\ WF_vars(MusicTask) /\ WF_vars(Decoder)

\* A pause saves the position while the decoder may be reading on: as long as the
\* library's calls are answered, a track that is resumed may repeat some bytes but
\* never skips any.
NothingSkipped ==
    timeouts = 0 /\ pc["decoder"] = "copy" => mp3_pos <= heard[mp3_start]

=============================================================================
