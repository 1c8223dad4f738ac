--------------------------- MODULE ReadoutSampler ---------------------------
(***************************************************************************)
(* The samplers of recbe: RecbeSampler and CottriCdcMbSampler, which drop  *)
(* an event after an error, and RaiRawSampler, which sends it anyway.  An  *)
(* event is a header that names the length of the body, and the body; both *)
(* are read from a TCP stream with a timeout, after which what is missing  *)
(* is asked for once more.                                                 *)
(***************************************************************************)
EXTENDS RBCP, SequencesExt

CONSTANTS
    hsize,            \* bytes of a header
    Bodies,           \* what the front end may send: lengths of bodies, in order
    Trigs,            \* numbers that a header made of other bytes may show
    Sizes,            \* and lengths
    fNumDestination,
    SendsErrors,      \* {TRUE, FALSE}: RaiRawSampler, or the others
    DeadDestinations  \* output sub-channels nobody reads

ASSUME ReadoutAssumption ==
    /\ {hsize, fNumDestination} \subseteq Nat \ {0}
    /\ Bodies \subseteq Seq(Nat)
    /\ Trigs \cup Sizes \subseteq Nat
    /\ SendsErrors \subseteq BOOLEAN

VARIABLES
    sendsErrors,
    bodies,         \* the front end's choice
    arrived,        \* bytes that have arrived at the socket
    closed,         \* the front end has closed the connection
    taken,          \* bytes received
    pc,             \* "init", the four receives, "dqm", "out", "done"
    start,          \* where in the stream this ConditionalRun began
    nread,          \* bytes of the part being received
    header,         \* length and number as the header shows them
    receive_error,
    sentEvents,     \* what was sent while clean: number, and bytes of the stream
    clean,          \* so far every event was received from its first byte
    stopRequested

streamVars == <<sendsErrors, bodies, arrived, closed>>
readVars == <<taken, pc, start, nread, header, receive_error>>
readoutVars == <<rbcpVars, streamVars, readVars, sentEvents, clean, stopRequested>>

\* The stream of events with these bodies: where the one with number n - 1 begins.
BeginIn(bs, n) == FoldLeft(+, (n - 1) * hsize, SubSeq(bs, 1, n - 1))

\* In the stream of this front end: where it begins, and ends.
Begin(n) == BeginIn(bodies, n)
Whole(n) == [trig |-> n - 1, from |-> Begin(n), to |-> Begin(n + 1)]
Total == Begin(Len(bodies) + 1)

Wanted == IF pc \in {"header", "header2"} THEN hsize ELSE header.len
Receiving == pc \in {"header", "header2", "body", "body2"}
Again(state) == CASE state = "header" -> "header2" [] state = "body" -> "body2"

ReadoutInit ==
    /\ RBCPInit
    /\ sendsErrors \in SendsErrors
    /\ bodies \in Bodies
    /\ arrived = 0
    /\ closed = FALSE
    /\ taken = 0
    /\ pc = "init"
    /\ start = 0
    /\ nread = 0
    /\ header = [len |-> 0, trig |-> 0]
    /\ receive_error = FALSE
    /\ sentEvents = << >>
    /\ clean = TRUE
    /\ stopRequested = FALSE

\* InitTask, then PreRun with the connection.
InitTask ==
    /\ pc = "init"
    /\ \/ RBCPNext /\ pc' = pc
       \/ RBCPClose /\ pc' = "header"
    /\ UNCHANGED <<streamVars, taken, start, nread, header, receive_error, sentEvents,
                   clean, stopRequested>>

\* ConditionalRun is over: at the next one all begins anew, but for the bytes of
\* the header, which lie where those of the last one lay.
Return(ok) ==
    /\ clean' = (clean /\ ok)
    /\ start' = taken'
    /\ nread' = 0
    /\ receive_error' = FALSE
    /\ pc' = "header"

\* The header was received, in full or not: if its bytes are not those of a
\* header, anything may be in them.
HeaderRead(error) ==
    /\ receive_error' = error
    /\ header' \in
        LET events == {n \in DOMAIN bodies : Begin(n) = start}
        IN  IF ~error /\ events # {}
            THEN {[len |-> bodies[n], trig |-> n - 1] : n \in events}
            ELSE [len : Sizes, trig : Trigs]
    /\ nread' = 0
    /\ pc' = "body"
    /\ start' = start

\* The body was received, or given up.
BodyRead(error) ==
    LET failed == error \/ receive_error
        lost == failed /\ ~sendsErrors
    IN  IF lost THEN Return(taken' = start)
        ELSE /\ pc' = "dqm"
             /\ clean' = (clean /\ ~failed)
             /\ receive_error' = failed
             /\ UNCHANGED <<start, nread>>

\* Mutant: the second receive asks for the whole part again.
MissingAll == Wanted

\* What this receive asks for.
Missing == Wanted - nread

\* recv takes what has arrived, and the receive is over when it has all.
Recv ==
    /\ Receiving
    /\ LET k == IF arrived - taken < Missing THEN arrived - taken ELSE Missing
       IN  /\ k > 0 \/ Missing = 0
           /\ taken' = taken + k
           /\ IF k < Missing
              THEN nread' = nread + k
                   /\ UNCHANGED <<pc, start, header, receive_error, clean>>
              ELSE IF pc \in {"header", "header2"}
                   THEN HeaderRead(FALSE) /\ clean' = clean
                   ELSE BodyRead(FALSE) /\ header' = header
    /\ UNCHANGED <<rbcpVars, streamVars, sentEvents, stopRequested>>

\* The timeout, and the end of a closed connection if errno still says EAGAIN:
\* once more, then an error.
Timeout ==
    /\ Receiving
    /\ arrived = taken /\ Missing > 0
    /\ taken' = taken
    /\ IF pc \in {"header", "body"}
       THEN pc' = Again(pc) /\ UNCHANGED <<start, nread, header, receive_error, clean>>
       ELSE IF pc = "header2"
            THEN HeaderRead(TRUE) /\ clean' = (clean /\ nread = 0)
            ELSE BodyRead(TRUE) /\ header' = header
    /\ UNCHANGED <<rbcpVars, streamVars, sentEvents, stopRequested>>

\* Any other error, or the end of a closed connection: the first receive of the
\* header returns to the caller, that of the body is not counted as an error.
Failure ==
    /\ Receiving
    /\ closed /\ arrived = taken /\ Missing > 0
    /\ taken' = taken
    /\ CASE pc = "header" -> Return(nread = 0) /\ header' = header
         [] pc = "header2" -> HeaderRead(TRUE) /\ clean' = (clean /\ nread = 0)
         [] pc = "body" -> /\ pc' = IF receive_error /\ ~sendsErrors THEN "header"
                                                                     ELSE "dqm"
                           /\ clean' = FALSE
                           /\ start' = IF pc' = "header" THEN taken ELSE start
                           /\ nread' = 0
                           /\ receive_error' = (receive_error /\ pc' = "dqm")
                           /\ header' = header
         [] pc = "body2" -> BodyRead(TRUE) /\ header' = header
    /\ UNCHANGED <<rbcpVars, streamVars, sentEvents, stopRequested>>

\* The copy for dqm; the result is not looked at.
DqmSend ==
    /\ pc = "dqm"
    /\ pc' = "out"
    /\ UNCHANGED <<rbcpVars, streamVars, taken, start, nread, header, receive_error,
                   sentEvents, clean, stopRequested>>

OutputDirection == header.trig % fNumDestination

OutputSend ==
    /\ pc = "out"
    /\ OutputDirection \notin DeadDestinations
    /\ sentEvents' = IF clean
                     THEN Append(sentEvents, [trig |-> header.trig, from |-> start, to |-> taken])
                     ELSE sentEvents
    /\ taken' = taken
    /\ Return(TRUE)
    /\ UNCHANGED <<rbcpVars, streamVars, header, stopRequested>>

\* Mutant: the loop over the output does not look for a stop.
PostRunBetweenEvents ==
    /\ stopRequested
    /\ pc = "header" /\ nread = 0
    /\ pc' = "done"
    /\ UNCHANGED <<rbcpVars, streamVars, taken, start, nread, header, receive_error,
                   sentEvents, clean, stopRequested>>

\* A stop ends the loop over the output, with the event unsent, and the wait
\* between two ConditionalRuns.
PostRun ==
    /\ stopRequested
    /\ pc = "out" \/ (pc = "header" /\ nread = 0)
    /\ pc' = "done"
    /\ UNCHANGED <<rbcpVars, streamVars, taken, start, nread, header, receive_error,
                   sentEvents, clean, stopRequested>>

StopReadout ==
    /\ ~stopRequested /\ pc # "init"
    /\ stopRequested' = TRUE
    /\ UNCHANGED <<rbcpVars, streamVars, readVars, sentEvents, clean>>

\* The front end.
Arrive ==
    /\ pc \notin {"init", "done"}
    /\ ~closed
    /\ \E k \in 1 .. Total - arrived : arrived' = arrived + k
    /\ UNCHANGED <<rbcpVars, sendsErrors, bodies, closed, readVars, sentEvents, clean,
                   stopRequested>>

Close ==
    /\ pc \notin {"init", "done"}
    /\ ~closed
    /\ closed' = TRUE
    /\ UNCHANGED <<rbcpVars, sendsErrors, bodies, arrived, readVars, sentEvents, clean,
                   stopRequested>>

ReadoutNext ==
    \/ InitTask \/ Recv \/ Timeout \/ Failure \/ DqmSend \/ OutputSend
    \/ PostRun \/ StopReadout \/ Arrive \/ Close

ReadoutSpec == ReadoutInit /\ [][ReadoutNext]_readoutVars
    /\ WF_readoutVars(Recv) /\ WF_readoutVars(Timeout \/ Failure) /\ WF_readoutVars(DqmSend)
    /\ WF_readoutVars(OutputSend) /\ SF_readoutVars(PostRun)

-----------------------------------------------------------------------------
\* As long as nothing was given up, what was sent is the events of the front end
\* from the first on, each whole and with its own number, whatever the pieces in
\* which it arrived and however often the first receive timed out.
WholeEvents ==
    clean => \A n \in DOMAIN sentEvents : sentEvents[n] = Whole(n)

\* A stop ends the run, even if the output is dead or the connection is gone.
StopEndsRun == stopRequested ~> pc = "done"
=============================================================================
