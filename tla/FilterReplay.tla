---------------------------- MODULE FilterReplay ----------------------------
(***************************************************************************)
(* A time frame on its way through exam6: a player, for the file of each   *)
(* front end or for a file of time frames, the filter, a file, and from    *)
(* there through TFBFilePlayer and the filter once more.                   *)
(***************************************************************************)
EXTENDS FltTrig

CONSTANTS
    Fems,           \* the front ends of the trigger, in the order of a time frame
    TimeFrames,     \* front end -> what it has for each heartbeat, and a spill that ends
    Options,        \* values of --split (of player and filter), --remove-hb, --data-suppress
    fNumDestination,
    StfHeaderWords  \* the header of a sub time frame is so many words long

FemSet == {Fems[k] : k \in DOMAIN Fems}

\* STFBFilePlayer has no split method 2.
ASSUME ReplayAssumption ==
    /\ {fNumDestination, StfHeaderWords} \subseteq Nat \ {0}
    /\ Fems \in Seq(FemSet) /\ Fems # <<>>
    /\ \A j, k \in DOMAIN Fems : Fems[j] = Fems[k] => j = k
    /\ \A frame \in TimeFrames :
        /\ frame.spill \in BOOLEAN
        /\ \A fem \in FemSet : frame.contents[fem] \in Seq({"none", "hit", "trigger"})
    /\ \A o \in Options :
        /\ o.player \in {"STFB", "TFB"} /\ o.split \in 0 .. 2
        /\ o.removeHB \in BOOLEAN /\ o.suppress \in BOOLEAN
        /\ o.split = 2 => o.player = "TFB"

VARIABLES
    option,         \* [player, split, removeHB, suppress]
    original,       \* the time frame
    file,           \* what the player has to play, as the messages that were written
    pass,           \* 1, and 2 for the replay
    inParts,        \* <<the messages of the frame on its way to the filter>>
    outParts,       \* <<the frame the filter sends>>
    pc,             \* of the filter: "Receive", "Dqm", "Output"
    fDirection,
    statePending,   \* a stop has been asked for
    written,        \* the messages that got into the file of this pass
    undefined       \* the player has read outside of its buffer
channels == <<inParts, outParts>>
vars == <<option, original, file, pass, channels, pc, fDirection, statePending, written, undefined>>

\* A sub time frame: for each heartbeat a hit, perhaps on a channel of the
\* trigger, or none, and two heartbeat words; before the last two the end of a
\* spill.
Words(frame, fem) ==
    LET contents == frame.contents[fem]
        Word(head, n, sig) == [head |-> head, fem |-> fem, hb |-> n, sig |-> sig]
        Heartbeat(n) ==
            (IF contents[n] = "none" THEN <<>> ELSE <<Word("T", n, contents[n] = "trigger")>>)
            \o (IF frame.spill /\ n = Len(contents) THEN <<Word("SE", n, FALSE)>> ELSE <<>>)
            \o <<Word("HB", n, FALSE), Word("HB", n, FALSE)>>
    IN  FlattenSeq([n \in DOMAIN contents |-> Heartbeat(n)])

StfOf(frame, fem) ==
    [head |-> "STF", fem |-> fem, length |-> Len(Words(frame, fem)) + 1, numMessages |-> 0]

\* The time frame in a file, before any filter.
FileOf(frame) ==
    LET stfs == FlattenSeq([k \in DOMAIN Fems |->
                    <<StfOf(frame, Fems[k])>> \o Words(frame, Fems[k])])
    IN  <<[head |-> "TF", numSource |-> Len(Fems), length |-> Len(stfs) + 1]>> \o stfs

Init ==
    /\ option \in Options /\ original \in TimeFrames
    /\ file = <<FileOf(original)>> /\ pass = 1
    /\ inParts = <<>> /\ outParts = <<>> /\ pc = "Receive" /\ fDirection = 0
    /\ statePending = FALSE /\ written = <<>> /\ undefined = FALSE

\* STFBFilePlayer of each front end, and the time frame builder.  A player ends
\* its run at a sub time frame with fewer bytes of data than its header has.
PlaySubTimeFrames ==
    /\ file # <<>> /\ pass = 1 /\ option.player = "STFB"
    /\ \A k \in DOMAIN Fems : Len(Words(original, Fems[k])) >= StfHeaderWords
    /\ inParts' = <<<<<<Head(FileOf(original))>>>> \o FlattenSeq([k \in DOMAIN Fems |->
            <<<<StfOf(original, Fems[k])>>>> \o STFBCut(Words(original, Fems[k]), option.split)])>>
    /\ file' = <<>>
    /\ UNCHANGED <<option, original, pass, outParts, pc, fDirection, statePending, written, undefined>>

\* TFBFilePlayer; outside of the buffer anything may happen, and it is not said
\* what.
PlayTimeFrame ==
    /\ file # <<>> /\ (pass = 1 => option.player = "TFB")
    /\ HasBody(FlattenSeq(file))
    /\ LET replay == Replay(FlattenSeq(file), option.split)
       IN  /\ undefined' = ~replay.inside
           /\ inParts' = IF replay.inside THEN <<replay.parts>> ELSE <<>>
    /\ file' = <<>>
    /\ UNCHANGED <<option, original, pass, outParts, pc, fDirection, statePending, written>>

\* ConditionalRun of the filter up to the frame that goes out.
Filter ==
    /\ pc = "Receive" /\ inParts # <<>>
    /\ outParts' = <<Filtered(Head(inParts), option.split, option.suppress, option.removeHB, FemSet)>>
    /\ inParts' = <<>> /\ pc' = "Dqm"
    /\ UNCHANGED <<option, original, file, pass, fDirection, statePending, written, undefined>>

\* The copy for the dqm channel is sent, or a stop interrupts that.
DqmSend ==
    /\ pc = "Dqm" /\ pc' = "Output"
    /\ UNCHANGED <<option, original, file, pass, channels, fDirection, statePending, written, undefined>>

\* The output loop: a sub-channel has room, or the next is tried; a stop ends it,
\* and the frame is gone.
OutputSend ==
    /\ pc = "Output" /\ ~statePending
    /\ fDirection' = (fDirection + 1) % fNumDestination
    /\ \/ written' = Head(outParts) /\ outParts' = <<>> /\ pc' = "Receive"
       \/ UNCHANGED <<written, outParts, pc>>
    /\ UNCHANGED <<option, original, file, pass, inParts, statePending, undefined>>

OutputStop ==
    /\ pc = "Output" /\ statePending
    /\ outParts' = <<>> /\ pc' = "Receive"
    /\ UNCHANGED <<option, original, file, pass, inParts, fDirection, statePending, written, undefined>>

StopRequest ==
    /\ ~statePending /\ statePending' = TRUE
    /\ UNCHANGED <<option, original, file, pass, channels, pc, fDirection, written, undefined>>

\* What was written is played.
StartReplay ==
    /\ pass = 1 /\ written # <<>> /\ pass' = 2
    /\ file' = written /\ written' = <<>> /\ statePending' = FALSE
    /\ UNCHANGED <<option, original, channels, pc, fDirection, undefined>>

Next ==
    \/ PlaySubTimeFrames \/ PlayTimeFrame \/ Filter \/ DqmSend
    \/ OutputSend \/ OutputStop \/ StopRequest \/ StartReplay

Spec == Init /\ [][Next]_vars

-----------------------------------------------------------------------------

Triggered(n) == \A fem \in FemSet :
    n \in DOMAIN original.contents[fem] /\ original.contents[fem][n] = "trigger"
HitsOf(units) == {u \in ToSet(units) : u.head = "T"}
AllHits == UNION {HitsOf(Words(original, fem)) : fem \in FemSet}
Even == \A f, g \in FemSet : Len(original.contents[f]) = Len(original.contents[g])

\* The filter drops no hit of a heartbeat in which all front ends of the trigger
\* have one on their channel, and, if they all have the same heartbeats, keeps
\* no other: the first time with every option, and in the replay of what was
\* filtered with data and heartbeats apart and no heartbeat removed.
TriggeredHitsKept ==
    outParts # <<>> /\ option.suppress
            /\ (pass = 2 => option.split = 1 /\ ~option.removeHB) =>
        LET kept == HitsOf(FlattenSeq(Head(outParts)))
            triggered == {u \in AllHits : Triggered(u.hb)}
        IN  triggered \subseteq kept /\ (Even => kept \subseteq triggered)

\* Every length and number of messages in a frame that was filtered is that of
\* what comes after it, and every message comes after the header of its front end.
HeadersAgree ==
    outParts # <<>> /\ option.suppress =>
        LET parts == Head(outParts)
            LengthOf(is) == Size(parts, is)
        IN  /\ parts[1][1].length = LengthOf(DOMAIN parts)
            /\ parts[2][1].length = LengthOf(2 .. Len(parts))
            /\ \A h \in StfHeaders(parts) :
                /\ parts[h][1].length = LengthOf({h} \union MessagesOf(parts, h))
                /\ parts[h][1].numMessages = Cardinality(MessagesOf(parts, h))
            /\ \A i \in 3 .. Len(parts) : i \notin StfHeaders(parts) =>
                \E h \in StfHeaders(parts) :
                    i \in MessagesOf(parts, h) /\ parts[h][1].fem = parts[i][1].fem

\* The player makes of a file the messages the filter had written, as long as the
\* number of sources is still that of the sub time frames, and no spill ends.
ReplayIsWhatWasWritten ==
    [][(PlayTimeFrame /\ pass = 2 /\ ~original.spill
            /\ Cardinality(StfHeaders(file)) = Len(Fems))
        => (~undefined' /\ Head(inParts') = Tail(file))]_vars
=============================================================================
