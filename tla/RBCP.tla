-------------------------------- MODULE RBCP --------------------------------
(***************************************************************************)
(* The register access of the samplers of recbe: a request over UDP, one   *)
(* wait for an answer, no retry, and no look at the number of the answer.  *)
(***************************************************************************)
EXTENDS Integers, Sequences, FiniteSets

CONSTANT Settings    \* the registers of the option, in order, as numbers

ASSUME SettingsAssumption == Settings \in Seq(Nat)

VARIABLES
    fSequence,   \* writes begun
    asked,       \* whether the device waits for an answer
    datagrams,   \* numbers of the requests on their way
    answers,     \* answers on their way, a bag of one kind as a count
    written,     \* registers the front end has set
    reported     \* what Write returned for each register

rbcpVars == <<fSequence, asked, datagrams, answers, written, reported>>

RBCPInit ==
    /\ fSequence = 0
    /\ asked = FALSE
    /\ datagrams = {}
    /\ answers = 0
    /\ written = {}
    /\ reported = << >>

Configured == fSequence = Len(Settings) /\ ~asked

Write ==
    /\ ~asked
    /\ fSequence < Len(Settings)
    /\ fSequence' = fSequence + 1
    /\ asked' = TRUE
    /\ datagrams' = datagrams \cup {fSequence'}
    /\ UNCHANGED <<answers, written, reported>>

\* Mutant: the result is taken from the send of the request.
ReceiveNothingIsSuccess ==
    /\ asked
    /\ reported' = Append(reported, TRUE)
    /\ asked' = FALSE
    /\ UNCHANGED <<fSequence, datagrams, answers, written>>

\* Three seconds without an answer.
ReceiveNothing ==
    /\ asked
    /\ reported' = Append(reported, FALSE)
    /\ asked' = FALSE
    /\ UNCHANGED <<fSequence, datagrams, answers, written>>

\* Any answer will do.
ReceiveAnswer ==
    /\ asked
    /\ answers > 0
    /\ answers' = answers - 1
    /\ reported' = Append(reported, TRUE)
    /\ asked' = FALSE
    /\ UNCHANGED <<fSequence, datagrams, written>>

\* The front end and the network.
Executed(n) ==
    /\ n \in datagrams
    /\ datagrams' = datagrams \ {n}
    /\ written' = written \cup {Settings[n]}
    /\ answers' = answers + 1
    /\ UNCHANGED <<fSequence, asked, reported>>

RequestLost(n) ==
    /\ n \in datagrams
    /\ datagrams' = datagrams \ {n}
    /\ UNCHANGED <<fSequence, asked, answers, written, reported>>

AnswerLost ==
    /\ answers > 0
    /\ answers' = answers - 1
    /\ UNCHANGED <<fSequence, asked, datagrams, written, reported>>

RBCPNext ==
    \/ Write
    \/ ReceiveNothing
    \/ ReceiveAnswer
    \/ \E n \in datagrams : Executed(n) \/ RequestLost(n)
    \/ AnswerLost

\* All is asked for: the socket is closed, and the results are not kept.
RBCPClose ==
    /\ Configured
    /\ datagrams' = {}
    /\ answers' = 0
    /\ written' = {}
    /\ reported' = << >>
    /\ UNCHANGED <<fSequence, asked>>

\* If no write is reported as failed then all registers are set.  One failure,
\* and a late answer to that write may be taken for the answer to the next.
AllReportedAllWritten ==
    Configured /\ reported # << >> /\ (\A n \in DOMAIN reported : reported[n]) =>
        \A n \in DOMAIN Settings : Settings[n] \in written
=============================================================================
