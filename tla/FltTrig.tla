------------------------------ MODULE FltTrig ------------------------------
(***************************************************************************)
(* The filter of exam6 that leaves out the data of heartbeats without a    *)
(* trigger (exam6/flttrig.cxx; fltcoin.cxx is the version before it).  A   *)
(* time frame is a sequence of messages: its header, and for each front    *)
(* end the header of its sub time frame and the messages of that, as the   *)
(* players cut them.                                                       *)
(***************************************************************************)
EXTENDS TFBFilePlayer, FiniteSets, FiniteSetsExt

\* Of a message: its first unit tells what it is.
IsHeader(part)    == part[1].head \in {"TF", "STF"}
IsHartBeat(part)  == part[1].head = "HB"

\* The units of the messages is.
Size(parts, is) ==
    LET size[n \in 0 .. Len(parts)] ==
            IF n = 0 THEN 0 ELSE size[n - 1] + IF n \in is THEN Len(parts[n]) ELSE 0
    IN  size[Len(parts)]

\* The headers of sub time frames, and the messages between one and the next.
StfHeaders(parts) == {i \in DOMAIN parts : parts[i][1].head = "STF"}
MessagesOf(parts, h) ==
    {i \in h + 1 .. Len(parts) : \A k \in h + 1 .. i : parts[k][1].head # "STF"}

\* The blocks of a sub time frame are the indices of its messages.  If data and
\* heartbeats are apart, a heartbeat that has no data before it gets a dummy.
Dummy == 0
WithDummies(parts, h, fSplitMethod) ==
    LET is == [k \in 1 .. Cardinality(MessagesOf(parts, h)) |-> h + k]
        Block(k) ==
            IF /\ fSplitMethod = 1 /\ IsHartBeat(parts[is[k]])
               /\ k = 1 \/ IsHartBeat(parts[is[k - 1]])
            THEN <<Dummy, is[k]>> ELSE <<is[k]>>
    IN  FlattenSeq([k \in DOMAIN is |-> Block(k)])

\* Mutant: no dummies.
WithoutDummies(parts, h, fSplitMethod) ==
    [k \in 1 .. Cardinality(MessagesOf(parts, h)) |-> h + k]

Blocks(parts, h, fSplitMethod) == WithDummies(parts, h, fSplitMethod)

\* A sub time frame without blocks is left out, unless it is the last one.
BlockMap(parts, fSplitMethod) ==
    {Blocks(parts, h, fSplitMethod) : h \in {h \in StfHeaders(parts) :
        MessagesOf(parts, h) # {} \/ \A g \in StfHeaders(parts) : g <= h}}

BsizeMin(block_map) == Min({Len(blocks) : blocks \in block_map})

\* The trigger is a coincidence of all front ends in Fems: each has a hit on its
\* trigger channel in the blocks at one place that hold data.
DataAt(parts, block_map, i) ==
    {b \in {blocks[i] : blocks \in block_map} : b # Dummy /\ ~IsHartBeat(parts[b])}
Hits(parts, block_map, i, Fems) ==
    Fems \subseteq UNION {{u.fem : u \in {v \in ToSet(parts[b]) : v.sig}} :
                            b \in DataAt(parts, block_map, i)}

\* flag_sending, after the scan: data without a trigger are dropped, and what
\* comes after them, the heartbeat, if that is to be removed too.  (The flag after
\* that of the last message of all is not one.)
Untriggered(parts, fSplitMethod, fIsRemoveHB, Fems) ==
    LET block_map == BlockMap(parts, fSplitMethod)
        data == UNION {DataAt(parts, block_map, i) : i \in
                    {i \in 1 .. BsizeMin(block_map) : ~Hits(parts, block_map, i, Fems)}}
    IN  data \union IF fSplitMethod \in {0, 1} /\ fIsRemoveHB
                    THEN {b + 1 : b \in data} \intersect DOMAIN parts ELSE {}

TotalHits(parts, fSplitMethod, Fems) ==
    LET block_map == BlockMap(parts, fSplitMethod)
    IN  Cardinality({i \in 1 .. BsizeMin(block_map) : Hits(parts, block_map, i, Fems)})

-----------------------------------------------------------------------------
(* What is left gets its lengths anew. *)

Left(parts, h, dropped) == MessagesOf(parts, h) \ dropped

\* Mutant: the header stays as it is.
StfHeaderKept(parts, h, dropped) == parts[h][1]
StfHeader(parts, h, dropped) ==
    [parts[h][1] EXCEPT !.length = Size(parts, Left(parts, h, dropped)) + 1,
                        !.numMessages = Cardinality(Left(parts, h, dropped))]

\* A sub time frame of which nothing is left loses its header.
Emptied(parts, dropped) == {h \in StfHeaders(parts) : Left(parts, h, dropped) = {}}

Suppress(parts, dropped0) ==
    LET dropped == dropped0 \union Emptied(parts, dropped0)
        sent    == DOMAIN parts \ dropped
        Header(i) ==
            CASE i \in StfHeaders(parts) /\ i \notin Emptied(parts, dropped0) ->
                    <<StfHeader(parts, i, dropped0)>>
              [] parts[i][1].head = "TF" -> <<[parts[i][1] EXCEPT !.length = Size(parts, sent)]>>
              [] OTHER -> parts[i]
    IN  FlattenSeq([i \in DOMAIN parts |-> IF i \in sent THEN <<Header(i)>> ELSE <<>>])

\* The frame that goes out, with the header of the filter before it.
Filtered(parts, fSplitMethod, fIsDataSuppress, fIsRemoveHB, Fems) ==
    LET left == IF fIsDataSuppress
                THEN Suppress(parts, Untriggered(parts, fSplitMethod, fIsRemoveHB, Fems))
                ELSE parts
    IN  <<<<[head |-> "FLT", length |-> left[1][1].length + 1,
             numTrigs |-> TotalHits(parts, fSplitMethod, Fems)]>>>> \o left
=============================================================================
