--------------------------- MODULE TFBFilePlayer ---------------------------
(***************************************************************************)
(* The players of exam6, which read a file and cut it into the messages    *)
(* the filters take: STFBFilePlayer.cxx for the file of a front end,       *)
(* TFBFilePlayer.cxx for a file of time frames.                            *)
(*                                                                         *)
(* A file and a message are sequences of units: the headers of a filter    *)
(* (FLT), of a time frame (TF) and of a sub time frame (STF), hits (T),    *)
(* ends of a spill (SE) and heartbeats (HB), which come in pairs.  A       *)
(* length is a number of units.                                            *)
(***************************************************************************)
EXTENDS Integers, Sequences, SequencesExt, FiniteSetsExt

Delimiter(unit) == unit.head \in {"HB", "SE"}

\* The last unit of the message that is cut at the delimiter words[p] when the
\* last message ended before words[begin]; 0 if none is cut.
\* TFBFilePlayer: before it, and the second of two heartbeats behind it.
TFBEnd1(words, begin, p) ==
    IF p = begin THEN 0
    ELSE IF p > begin + 1 \/ words[p - 1].head # "HB" THEN p - 1
    ELSE p

\* STFBFilePlayer: it looks at the word before alone.
STFBEnd1(words, begin, p) ==
    IF p = begin THEN 0
    ELSE IF words[p - 1].head = "HB" THEN p
    ELSE p - 1

\* TFBFilePlayer behind a pair of heartbeats, and behind a single one.
TFBEnd2(words, p) == IF p < Len(words) /\ words[p + 1].head = "HB" THEN p + 1 ELSE p

\* With split method 0 every delimiter ends a message, with 1 data and heartbeats
\* are apart, with 2 (of TFBFilePlayer alone) they are together.
LastUnit(player, fSplitMethod, words, begin, p) ==
    CASE fSplitMethod = 0                     -> p
      [] fSplitMethod > 0 /\ player = "STFB"  -> STFBEnd1(words, begin, p)
      [] fSplitMethod = 1 /\ player = "TFB"   -> TFBEnd1(words, begin, p)
      [] fSplitMethod = 2 /\ player = "TFB"   -> TFBEnd2(words, p)

\* At each unit: the messages so far, where the next one begins, and the unit to
\* be looked at next.
CutAt(player, fSplitMethod, words, acc, p) ==
    LET end == LastUnit(player, fSplitMethod, words, acc.begin, p)
    IN  IF p < acc.next \/ ~Delimiter(words[p]) \/ end = 0 THEN acc
        ELSE [messages |-> Append(acc.messages, SubSeq(words, acc.begin, end)),
              begin |-> end + 1, next |-> IF end > p THEN end + 1 ELSE p + 1]

\* The messages of a sub time frame; what comes after the last heartbeat is in
\* none of them.
Cut(player, fSplitMethod, words) ==
    LET acc[p \in 0 .. Len(words)] ==
            IF p = 0 THEN [messages |-> <<>>, begin |-> 1, next |-> 1]
                     ELSE CutAt(player, fSplitMethod, words, acc[p - 1], p)
    IN  acc[Len(words)].messages

STFBCut(words, fSplitMethod) == Cut("STFB", fSplitMethod, words)

\* Mutant: a heartbeat goes with the data before it.
TFBCutBehind(words, fSplitMethod) == Cut("TFB", 2, words)

TFBCut(words, fSplitMethod) == Cut("TFB", fSplitMethod, words)

\* The time frame at the start of the file, without the header of a filter.
Unfiltered(file) == IF Head(file).head = "FLT" THEN Tail(file) ELSE file

\* The player ends its run if less than a header of a time frame follows the header
\* of the time frame, which is shorter than that of a sub time frame.
HasBody(file) == Min({Head(Unfiltered(file)).length, Len(Unfiltered(file))}) > 1

\* One turn of the loop over the sources.  The player trusts the lengths and the
\* number of sources: inside is FALSE if they lead it out of what it has read.
NextSource(fSplitMethod, buf, acc) ==
    IF ~acc.inside \/ acc.pos > Len(buf) \/ buf[acc.pos].head # "STF"
            \/ acc.pos + buf[acc.pos].length > Len(buf) + 1
    THEN [acc EXCEPT !.inside = FALSE]
    ELSE LET stf == buf[acc.pos]
             words == SubSeq(buf, acc.pos + 1, acc.pos + stf.length - 1)
         IN  [parts |-> acc.parts \o <<<<stf>>>> \o TFBCut(words, fSplitMethod),
              pos |-> acc.pos + stf.length, inside |-> TRUE]

\* The messages of a time frame.
Replay(file, fSplitMethod) ==
    LET tf  == Head(Unfiltered(file))
        buf == SubSeq(Unfiltered(file), 2, Min({tf.length, Len(Unfiltered(file))}))
        acc[i \in 0 .. tf.numSource] ==
            IF i = 0 THEN [parts |-> <<<<tf>>>>, pos |-> 1, inside |-> TRUE]
                     ELSE NextSource(fSplitMethod, buf, acc[i - 1])
    IN  acc[tf.numSource]
=============================================================================
