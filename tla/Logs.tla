-------------------------------- MODULE Logs --------------------------------
(***************************************************************************)
(* Log records on their way from log() of a logger (R/logger.R,            *)
(* src/logger.c, src/logger-sdk.cc) into the ring buffer of the in-memory  *)
(* logger provider (src/in-memory-log-exporter.h), and out of it again     *)
(* (R/logger-provider-memory.R).                                           *)
(*                                                                         *)
(* The processor is the simple one: log() exports before it returns.  A    *)
(* record is its number and its severity: its body, its attributes and the *)
(* ids of its span context are data that nothing here depends on.          *)
(***************************************************************************)
EXTENDS Integers, Sequences

CONSTANTS
    Loggers,     \* the logger objects R code creates
    Severities,  \* the log severities in use, as numbers
    Capacity,    \* buffer_size of the provider
    MaxRecords   \* bound on the records that are exported

ASSUME LogsAssumption ==
    /\ Severities \subseteq 1..24
    /\ Capacity \in Nat \ {0}   \* as_count(positive = TRUE)
    /\ MaxRecords \in Nat

VARIABLES
    minimum,   \* of a logger: minimum_severity, or NotCreated
    ring,      \* InMemoryLogData::records_
    shutdown,  \* InMemoryLogRecordExporter::shutdown_
    exported,  \* records exported since the last get_logs() (history)
    count,     \* all records ever exported (history)
    returned   \* the records get_logs() returned so far (history)

vars == <<minimum, ring, shutdown, exported, count, returned>>

NotCreated == 0
Records == [no : 1..MaxRecords, severity : Severities]

TypeOK ==
    /\ minimum \in [Loggers -> Severities \cup {NotCreated}]
    /\ ring \in Seq(Records)
    /\ shutdown \in BOOLEAN
    /\ exported \in Seq(Records)
    /\ count \in 0..MaxRecords
    /\ returned \in Seq(Records)

Init ==
    /\ minimum = [l \in Loggers |-> NotCreated]
    /\ ring = <<>>
    /\ shutdown = FALSE
    /\ exported = <<>>
    /\ count = 0
    /\ returned = <<>>

-----------------------------------------------------------------------------
(* The exporter *)

\* The newest n elements of a sequence.
Newest(q, n) == IF Len(q) <= n THEN q ELSE SubSeq(q, Len(q) - n + 1, Len(q))

\* Mutant: a full ring takes no more records.
AddUnlessFull(q, r) == IF Len(q) = Capacity THEN q ELSE Append(q, r)

\* InMemoryLogData::Add: the oldest records make room.
Add(q, r) == Append(Newest(q, Capacity - 1), r)

\* InMemoryLogRecordExporter::Export: nothing is kept after the shutdown.
Export(record) ==
    IF shutdown THEN UNCHANGED <<ring, exported, count>>
    ELSE /\ ring' = Add(ring, record)
         /\ exported' = Append(exported, record)
         /\ count' = count + 1

-----------------------------------------------------------------------------
(* The logger *)

GetLogger(l, severity) ==
    /\ minimum[l] = NotCreated
    /\ minimum' = [minimum EXCEPT ![l] = severity]
    /\ UNCHANGED <<ring, shutdown, exported, count, returned>>

SetMinimumSeverity(l, severity) ==
    /\ minimum[l] # NotCreated
    /\ minimum' = [minimum EXCEPT ![l] = severity]
    /\ UNCHANGED <<ring, shutdown, exported, count, returned>>

IsEnabled(l, severity) == minimum[l] <= severity

\* log(): a record below the minimum severity is not even created.
Log(l, severity) ==
    /\ minimum[l] # NotCreated
    /\ count < MaxRecords
    /\ IF IsEnabled(l, severity)
       THEN Export([no |-> count + 1, severity |-> severity])
       ELSE UNCHANGED <<ring, exported, count>>
    /\ UNCHANGED <<minimum, shutdown, returned>>

-----------------------------------------------------------------------------
(* The provider *)

\* Mutant: the buffer is not erased.
GetLogsKeeps ==
    /\ returned' = returned \o ring
    /\ UNCHANGED <<minimum, ring, shutdown, exported, count>>

\* get_logs() empties the ring, also after the shutdown.
GetLogs ==
    /\ returned' = returned \o ring
    /\ ring' = <<>>
    /\ exported' = <<>>
    /\ UNCHANGED <<minimum, shutdown, count>>

\* There is no memory to convert the records: the ring is empty by then, and
\* get_logs() returns an empty list.
GetLogsFails ==
    /\ ring # <<>>
    /\ ring' = <<>>
    /\ exported' = <<>>
    /\ UNCHANGED <<minimum, shutdown, count, returned>>

Shutdown ==
    /\ shutdown' = TRUE
    /\ UNCHANGED <<minimum, ring, exported, count, returned>>

LogStep(l) ==
    \E severity \in Severities :
      \/ GetLogger(l, severity)
      \/ SetMinimumSeverity(l, severity)
      \/ Log(l, severity)

Next ==
    \/ \E l \in Loggers : LogStep(l)
    \/ GetLogs
    \/ GetLogsFails
    \/ Shutdown

Spec == Init /\ [][Next]_vars
-----------------------------------------------------------------------------
(* Properties *)

\* The ring holds the newest records of all that were exported since it was
\* last read, as many as fit ("the oldest log records are dropped", docs of
\* logger_provider_memory; InMemoryLogData::Add).
NewestKept == ring = Newest(exported, Capacity)

\* get_logs() returns every record at most once, and the records in the order
\* they were emitted, over any number of calls (InMemoryLogData::Get).
ReturnedInOrder ==
    LET all == returned \o ring
    IN \A i, j \in DOMAIN all : i < j => all[i].no < all[j].no
=============================================================================
