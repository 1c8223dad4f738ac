-------------------------- MODULE ProcessWatchdog --------------------------
(***************************************************************************)
(* The watchdog of the readout samplers (watchdog/processwatchdog.py).  It *)
(* listens to the notifications of one Redis hash, the lost segments of    *)
(* every sampler; when the same field has changed a number of times with   *)
(* short intervals, it stops that sampler, runs the reload script and      *)
(* starts the sampler again.                                               *)
(*                                                                         *)
(* Every access to Redis is a step of its own: the hash may change before  *)
(* it, and it may fail.                                                    *)
(***************************************************************************)
EXTENDS Integers, Sequences, FiniteSets

CONSTANTS
    Fields,         \* the fields of the hash, numbered in their sorted order
    Listed,         \* those that SAMPLE_TABLE has
    Threshold,      \* --consecutive-field-count
    MaxValue,       \* bound: values of a field are 1 .. MaxValue
    MaxWrites,      \* bound: commands on the hash
    MaxErrors       \* bound: connection errors

ASSUME WatchdogAssumption ==
    /\ Fields \subseteq Nat /\ IsFiniteSet(Fields)
    /\ Listed \subseteq Fields
    /\ Threshold \in Nat \ {0}
    /\ {MaxValue, MaxWrites, MaxErrors} \subseteq Nat

Deleted == 0
Values  == 0 .. MaxValue
Hash    == [Fields -> Values]
NoHash  == <<>>
NoField == -1

VARIABLES
    hash,           \* the Redis hash, Deleted where it has no field
    commands,       \* the state each sampler was last told to be in
    writes, errors, \* number of commands on the hash, and of connection errors
    doing,             \* "Down", "Listen", "Read", "Count", "Find", "Stop", "Script", "Run", "Wait", "Dead"
    notices,        \* the notifications the subscription has queued
    last_hash,      \* the hash at the last look, NoHash before the first
    changed_fields, \* what is left to do of the changes of that look
    last_changed_field, consecutive_field_count,
    recent,         \* was the last change handled within the timeout?
    unread,         \* history: field -> its changes since the last look
    looked,         \* history: field -> its changes that look has found
    seen            \* history: changes of that field in a row, since the count was last zero

external == <<hash, commands, writes, errors>>
counting == <<last_changed_field, consecutive_field_count, recent>>
history  == <<unread, looked, seen>>
watchdogVars == <<external, doing, notices, last_hash, changed_fields, counting, history>>

None == [f \in Fields |-> 0]

WatchdogInit ==
    /\ hash \in {h \in Hash : \A f \in Fields : h[f] <= 1}
    /\ commands = [f \in Fields |-> "RUN"]
    /\ writes = 0 /\ errors = 0
    /\ doing = "Down" /\ notices = <<>>
    /\ last_hash = NoHash /\ changed_fields = {}
    /\ last_changed_field = NoField /\ consecutive_field_count = 0 /\ recent = FALSE
    /\ unread = None /\ looked = None /\ seen = 0

-----------------------------------------------------------------------------
(* The time frame builder that writes the hash, and the time. *)

Subscribed == doing \notin {"Down", "Dead"}

\* HSET, also of the value that is there, or HDEL.
WriteHash(f, v) ==
    /\ writes < MaxWrites
    /\ v = Deleted => hash[f] # Deleted
    /\ hash' = [hash EXCEPT ![f] = v]
    /\ writes' = writes + 1
    /\ notices' = IF Subscribed
                  THEN Append(notices, IF v = Deleted THEN "hdel" ELSE "hset") ELSE notices
    /\ unread' = IF hash[f] # v THEN [unread EXCEPT ![f] = @ + 1] ELSE unread
    /\ UNCHANGED <<commands, errors, doing, last_hash, changed_fields, counting, looked, seen>>

\* The timeout since the last change was handled passes.
Tick ==
    /\ recent /\ Subscribed
    /\ recent' = FALSE
    /\ UNCHANGED <<external, doing, notices, last_hash, changed_fields,
                   last_changed_field, consecutive_field_count, history>>

Told(state) == [commands EXCEPT ![last_changed_field] = state]

\* A connection error ends main: its variables and its subscription are gone.
\* The PUBLISH that failed may have been done all the same.
ConnectionError ==
    /\ doing \in {"Listen", "Read", "Find", "Stop", "Run", "Wait"}
    /\ errors < MaxErrors
    /\ errors' = errors + 1
    /\ \/ UNCHANGED commands
       \/ doing = "Stop" /\ commands' = Told("STOP")
       \/ doing = "Run" /\ commands' = Told("RUN")
    /\ doing' = "Down" /\ notices' = <<>>
    /\ last_hash' = NoHash /\ changed_fields' = {}
    /\ last_changed_field' = NoField /\ consecutive_field_count' = 0 /\ recent' = FALSE
    /\ unread' = None /\ looked' = None /\ seen' = 0
    /\ UNCHANGED <<hash, writes>>

-----------------------------------------------------------------------------
(* main *)

\* Three seconds after an error, and at the start; the hash is not looked at.
Subscribe ==
    /\ doing = "Down"
    /\ doing' = "Listen"
    /\ UNCHANGED <<external, notices, last_hash, changed_fields, counting, history>>

\* Mutant: a deletion is not one of the events that are looked at.
EventsNoDelete == {"hset", "hmset"}

Events == {"hset", "hmset", "hdel"}

Listen ==
    /\ doing = "Listen" /\ notices # <<>>
    /\ notices' = Tail(notices)
    /\ doing' = IF Head(notices) \in Events THEN "Read" ELSE "Listen"
    /\ UNCHANGED <<external, last_hash, changed_fields, counting, history>>

\* The fields whose values differ; at the first look, all that are there.
get_changed_fields(previous, current) ==
    IF previous = NoHash THEN {f \in Fields : current[f] # Deleted}
    ELSE {f \in Fields : previous[f] # current[f]}

\* hgetall: several changes since the last look are one.
Read ==
    /\ doing = "Read"
    /\ changed_fields' = get_changed_fields(last_hash, hash)
    /\ last_hash' = hash
    /\ doing' = IF changed_fields' = {} THEN "Listen" ELSE "Count"
    /\ looked' = unread /\ unread' = None
    /\ UNCHANGED <<external, notices, counting, seen>>

\* The changes of a look are handled in the order of their names.
First(fields) == CHOOSE f \in fields : \A g \in fields : f <= g

\* The loop goes on with the next change of that look.
NextChange ==
    /\ changed_fields' = changed_fields \ {First(changed_fields)}
    /\ doing' = IF changed_fields' = {} THEN "Listen" ELSE "Count"

\* Mutant: the count goes on without a look at the time or the field.
IsConsecutiveAlways(f) == last_changed_field # NoField

IsConsecutive(f) == f = last_changed_field /\ recent

Skipped(f) == last_hash[f] = Deleted \/ f \notin Listed

\* The count of the changed field, and what comes of it.
Count ==
    /\ doing = "Count"
    /\ LET f == First(changed_fields)
           count == IF IsConsecutive(f) THEN consecutive_field_count + 1 ELSE 1
           skip == count >= Threshold /\ Skipped(f)
       IN  /\ last_changed_field' = f
           /\ consecutive_field_count' = IF skip THEN 0 ELSE count
           /\ seen' = IF skip THEN 0 ELSE looked[f] + (IF f = last_changed_field THEN seen ELSE 0)
           /\ IF count >= Threshold /\ ~skip
              THEN doing' = "Find" /\ UNCHANGED changed_fields
              ELSE NextChange
    /\ recent' = TRUE
    /\ UNCHANGED <<external, notices, last_hash, unread, looked>>

\* The count starts anew, whether the script was run or not.
Done ==
    /\ consecutive_field_count' = 0 /\ seen' = 0
    /\ NextChange
    /\ UNCHANGED <<external, notices, last_hash, last_changed_field, recent, unread, looked>>

\* make_recbe_sampler_instance looks the sampler up by its IP, which it may have
\* registered or not.
FindNone == doing = "Find" /\ Done

Find ==
    /\ doing = "Find"
    /\ doing' = "Stop"
    /\ UNCHANGED <<external, notices, last_hash, changed_fields, counting, history>>

\* The command is published; nothing waits for the sampler to obey.
PublishStop ==
    /\ doing = "Stop"
    /\ commands' = Told("STOP")
    /\ doing' = "Script"
    /\ UNCHANGED <<hash, writes, errors, notices, last_hash, changed_fields, counting, history>>

\* Mutant: a script that returns an error ends the sequence.
run_script_checked ==
    /\ doing = "Script"
    /\ \/ doing' = "Run" /\ UNCHANGED <<changed_fields, consecutive_field_count, seen>>
       \/ consecutive_field_count' = 0 /\ seen' = 0 /\ NextChange
    /\ UNCHANGED <<external, notices, last_hash, last_changed_field, recent, unread, looked>>

\* The return code is shown and not looked at.
run_script ==
    /\ doing = "Script"
    /\ doing' = "Run"
    /\ UNCHANGED <<external, notices, last_hash, changed_fields, counting, history>>

\* The script cannot be started: an exception that nobody handles.
ScriptMissing ==
    /\ doing = "Script"
    /\ doing' = "Dead"
    /\ UNCHANGED <<external, notices, last_hash, changed_fields, counting, history>>

PublishRun ==
    /\ doing = "Run"
    /\ commands' = Told("RUN")
    /\ doing' = "Wait"
    /\ UNCHANGED <<hash, writes, errors, notices, last_hash, changed_fields, counting, history>>

\* state_wait only reports.
state_wait == doing = "Wait" /\ Done

WatchdogStep ==
    \/ Subscribe \/ Listen \/ Read \/ Count
    \/ FindNone \/ Find \/ PublishStop \/ run_script \/ PublishRun \/ state_wait

WatchdogNext ==
    \/ \E f \in Fields, v \in Values : WriteHash(f, v)
    \/ Tick \/ ConnectionError \/ ScriptMissing
    \/ WatchdogStep

WatchdogSpec == WatchdogInit /\ [][WatchdogNext]_watchdogVars

\* The watchdog goes on and the script ends; nothing is assumed of the writer.
WatchdogFairSpec == WatchdogSpec /\ WF_watchdogVars(WatchdogStep)

-----------------------------------------------------------------------------
(* Properties. *)

\* Every variable has its type.
WatchdogTypeOK ==
    /\ hash \in Hash
    /\ commands \in [Fields -> {"RUN", "STOP"}]
    /\ writes \in Nat /\ errors \in Nat /\ seen \in Nat
    /\ doing \in {"Down", "Listen", "Read", "Count", "Find", "Stop", "Script", "Run", "Wait", "Dead"}
    /\ notices \in Seq({"hset", "hdel"})
    /\ last_hash \in Hash \union {NoHash}
    /\ changed_fields \subseteq Fields
    /\ last_changed_field \in Fields \union {NoField}
    /\ consecutive_field_count \in 0 .. Threshold
    /\ recent \in BOOLEAN
    /\ unread \in [Fields -> Nat] /\ looked \in [Fields -> Nat]

\* When all notifications are handled the watchdog knows the hash as it is,
\* although it reads it some time after the notification, and reads it once for
\* several changes.  Only before the first notification it knows nothing.
NothingMissed ==
    (doing = "Listen" /\ notices = <<>> /\ last_hash # NoHash) => last_hash = hash

\* What is counted really happened: the field has changed that many times, in a
\* row, since it was last counted anew.  One change too many is counted after a
\* connection: the first look takes every field there is for a changed one.
CountIsEarned == consecutive_field_count <= seen + 1

\* A sampler that was told to stop is the one in hand, or was left behind by an
\* error: as many as there were errors.
StoppedIsInHand ==
    Cardinality({f \in Fields : commands[f] = "STOP"}
                \ (IF doing \in {"Script", "Run", "Dead"} THEN {last_changed_field} ELSE {}))
        <= errors

\* The watchdog catches up with the hash.
CatchesUp ==
    (Subscribed /\ last_hash # NoHash /\ last_hash # hash)
        ~> (last_hash = hash \/ ~Subscribed)

=============================================================================
