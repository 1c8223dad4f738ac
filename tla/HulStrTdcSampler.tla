-------------------------- MODULE HulStrTdcSampler --------------------------
(***************************************************************************)
(* The sampler of elph2018: it reads words of a front end from a TCP       *)
(* socket into a buffer of a fixed number of words and sends the buffer to *)
(* the sub time frame builder beside it.  A word is a head and its place   *)
(* in the stream of the front end; a word that is put together from bytes  *)
(* of two words, or that was never received, has the place 0.              *)
(***************************************************************************)
EXTENDS Integers, Sequences, FiniteSets

CONSTANTS
    Fems,           \* front end modules
    fnByte,         \* bytes of a word
    fnWordPerCycle, \* words of the buffer
    Streams,        \* what the front ends may send in a run
    Garbled,        \* the heads a word may show that starts inside another
    MaxFaults       \* bound: pauses of a front end longer than the timeout, and
                    \* connections that fail, are closed or reset

Heads == {"Data", "Heartbeat", "ErrorRecovery", "SpillEnd", "Other"}

ASSUME SamplerAssumption ==
    /\ Fems # {} /\ IsFiniteSet(Fems)
    /\ {fnByte, fnWordPerCycle} \subseteq Nat \ {0}
    /\ MaxFaults \in Nat
    /\ Streams \subseteq [Fems -> Seq(Heads)]
    /\ Garbled \subseteq Heads

VARIABLES
    stream,     \* the heads of the words each front end sends in this run
    taken,      \* bytes of it that were received
    socket,     \* fHulSocket: "open", "closed" by the front end, or "bad"
    raw,        \* the channel from the sampler to the builder, a message long
    faults,     \* so many were there of them
    lost        \* front ends of whose words some were lost in this run

samplerVars == <<stream, taken, socket, raw, faults, lost>>

Word(head, n) == [head |-> head, n |-> n]
NoWord == Word("Other", 0)

Size == fnByte * fnWordPerCycle
Available(f) == fnByte * Len(stream[f]) - taken[f]

\* The word in bytes from + 1 .. from + fnByte of the stream: one of the front
\* end if it starts where a word starts, else bytes of two of them.
WordAt(f, from, garbled) ==
    IF from % fnByte = 0
    THEN Word(stream[f][from \div fnByte + 1], from \div fnByte + 1)
    ELSE Word(garbled, 0)

\* The first k bytes of the buffer, as the words they hold in full.
Received(f, k, garbled) ==
    [i \in 1 .. k \div fnByte |-> WordAt(f, taken[f] + fnByte * (i - 1), garbled)]

Send(f, words) ==
    /\ raw[f] = << >>
    /\ raw' = [raw EXCEPT ![f] = <<words>>]

Fault(n) ==
    /\ faults + n <= MaxFaults
    /\ faults' = faults + n

SamplerInit ==
    /\ stream \in Streams
    /\ taken = [f \in Fems |-> 0]
    /\ socket = [f \in Fems |-> "open"]
    /\ raw = [f \in Fems |-> << >>]
    /\ faults = 0
    /\ lost = {}

\* The buffer was filled.
CycleFull(f) ==
    /\ socket[f] = "open"
    /\ Available(f) >= Size
    /\ \E g \in Garbled : Send(f, Received(f, Size, g))
    /\ taken' = [taken EXCEPT ![f] = @ + Size]
    /\ UNCHANGED <<stream, socket, faults, lost>>

\* What is left of a buffer that was not filled in time: the words up to the
\* first end of a spill, nothing without one.
KeptWords(words) ==
    LET ends == {i \in DOMAIN words : words[i].head = "SpillEnd"}
    IN  IF ends = {} THEN << >>
        ELSE SubSeq(words, 1, CHOOSE i \in ends : \A j \in ends : i <= j)

\* The front end pauses after k bytes, and recv returns EAGAIN.
CycleTimeout(f) ==
    /\ socket[f] = "open"
    /\ Fault(1)
    /\ \E k \in 0 .. Size - 1, g \in Garbled :
        /\ k <= Available(f)
        /\ LET kept == KeptWords(Received(f, k, g))
           IN  /\ IF kept = << >> THEN raw' = raw ELSE Send(f, kept)
               /\ lost' = IF k = fnByte * Len(kept) THEN lost
                                                    ELSE lost \cup {f}
        /\ taken' = [taken EXCEPT ![f] = @ + k]
    /\ UNCHANGED <<stream, socket>>

\* The front end closes the connection: recv returns 0, now and from now on,
\* and the whole buffer is sent, with zeros where nothing was received.
CycleClosed(f) ==
    /\ \/ socket[f] = "open" /\ Fault(1)
       \/ socket[f] = "closed" /\ Fault(0)
    /\ socket' = [socket EXCEPT ![f] = "closed"]
    /\ \E k \in 0 .. Size - 1, g \in Garbled :
        /\ k <= IF socket[f] = "open" THEN Available(f) ELSE 0
        /\ LET words == Received(f, k, g)
           IN  Send(f, [i \in 1 .. fnWordPerCycle |->
                            IF i \in DOMAIN words THEN words[i] ELSE NoWord])
        /\ taken' = [taken EXCEPT ![f] = @ + k]
    /\ lost' = lost \cup {f}
    /\ UNCHANGED stream

\* Any other error: receive returns -1, and so it does for ever.
CycleBroken(f) ==
    /\ socket[f] = "open"
    /\ Fault(1)
    /\ socket' = [socket EXCEPT ![f] = "bad"]
    /\ lost' = lost \cup {f}
    /\ UNCHANGED <<stream, taken, raw>>

\* The sampler looks for a stop between two calls of ConditionalRun, and while
\* it waits in Send, but never in the loop over a socket that gives errors.
MayStop(f) == socket[f] # "bad"

\* A new run: the sockets are connected anew, and a front end that cannot be
\* reached leaves the sampler without one.
SamplerPreRun ==
    /\ stream' \in Streams
    /\ taken' = [f \in Fems |-> 0]
    /\ \E unreached \in SUBSET Fems :
        /\ Fault(Cardinality(unreached))
        /\ socket' = [f \in Fems |-> IF f \in unreached THEN "bad" ELSE "open"]
        /\ lost' = unreached \cup {f \in Fems : raw[f] # << >>}
    /\ raw' = raw
=============================================================================
