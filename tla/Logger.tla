------------------------------- MODULE Logger -------------------------------
(* The log of the process: Logger (source/Logger/Logger.cpp, MaaUtils/       *)
(* Logger.h) and the file it writes, with several threads logging, one of    *)
(* them starting the log, and the detached threads that delete old files.    *)
(*                                                                           *)
(* trace_mutex_ is held for the closing half of rotate, for the opening half *)
(* of open and for the writing of a record, and these are single steps; what *)
(* the code does without it, the counting included, is steps of its own.     *)
(* What a thread has still to do is its agenda, first thing first.           *)
EXTENDS Integers, Sequences, FiniteSets

CONSTANTS
  Threads,     \* the threads that log
  Main,        \* the one that calls start_logging
  MaxLogSize,  \* size in records at which a log is rotated
  kMaxCount,   \* records between two automatic flushes
  MaxRecords,  \* bound: records logged by a thread
  MaxFlushes,  \* bound: calls of flush
  MaxRaces,    \* bound: increments of log_count_ that race with another thread
  MaxStarts    \* bound: calls of start_logging

ASSUME LoggerAssumption ==
  /\ IsFiniteSet(Threads) /\ Main \in Threads
  /\ MaxLogSize \in Nat \ {0}
  /\ kMaxCount \in Nat /\ kMaxCount > 2 * Cardinality(Threads)
  /\ MaxRecords \in Nat /\ MaxFlushes \in Nat /\ MaxRaces \in Nat /\ MaxStarts \in Nat

Records  == Threads \X (1..MaxRecords)
Cleaners == 1..MaxStarts

VARIABLES
  log_path_,   \* "none", or "set" to the log file of the directory
  log_count_,  \* records since the last automatic flush
  ofs_,        \* "closed", or open on the "file", or on one since "removed"; "gone",
               \* when ~Logger has closed it
  file,        \* the log file: whether it exists, is a week old; its size, up
               \* to MaxLogSize; the records in it
  saved,       \* the records in the backups
  agenda,      \* what each thread has to do
  seen,        \* the log_count_ each thread has loaded and not yet stored
  made,        \* records each thread has logged
  starts,      \* calls of start_logging
  flushes,     \* calls of flush
  exiting,     \* main has returned, and ~Logger is run
  cleaner,     \* where each remove_old_files is
  races,       \* increments of log_count_ made in two steps
  written,     \* history: records that went into the log file
  removed,     \* history: records deleted with it
  failed       \* history: {"copy", "open", "size", "overlap"} that have happened

threadVars  == <<agenda, seen, made>>
historyVars == <<written, removed, failed>>
vars == <<log_path_, log_count_, ofs_, file, saved, starts, flushes, cleaner, exiting, races,
          threadVars, historyVars>>

NoFile == [exists |-> FALSE, old |-> FALSE, size |-> 0, records |-> {}]
NewFile == [NoFile EXCEPT !.exists = TRUE]

\* A process that has not started its log yet, though it may have logged, with
\* no log file or with one of an earlier process.
Init ==
  /\ log_path_ = "none" /\ log_count_ \in 0..(kMaxCount - 1)
  /\ ofs_ = "closed"
  /\ file \in {NoFile} \cup [exists : {TRUE}, old : BOOLEAN,
                             size : 0..MaxLogSize, records : {{}}]
  /\ saved = {}
  /\ agenda = [t \in Threads |-> <<>>]
  /\ seen = [t \in Threads |-> 0]
  /\ made = [t \in Threads |-> 0]
  /\ starts = 0 /\ flushes = 0
  /\ cleaner = [i \in Cleaners |-> "off"]
  /\ exiting = FALSE
  /\ races = 0
  /\ written = {} /\ removed = {} /\ failed = {}

Smaller(a, b) == IF a <= b THEN a ELSE b

Todo(t, op) == agenda[t] # <<>> /\ Head(agenda[t]) = op

\* The first thing on t's agenda is replaced by these.
Instead(t, ops) == agenda' = [agenda EXCEPT ![t] = ops \o Tail(@)]
Done(t) == Instead(t, <<>>)

\* One record of the logger itself; it stands for the few lines of one message.
Note == <<"count", "note">>

-----------------------------------------------------------------------------
\* The calls.

\* LogInfo << ...: the stream is made now, the record written at its end.
Log(t) ==
  /\ ~exiting
  /\ agenda[t] = <<>>
  /\ made[t] < MaxRecords
  /\ made' = [made EXCEPT ![t] = @ + 1]
  /\ agenda' = [agenda EXCEPT ![t] = <<"count", "write">>]
  /\ UNCHANGED <<log_path_, log_count_, ofs_, file, saved, seen, starts, flushes,
                 cleaner, exiting, races, historyVars>>

\* Logger::flush
Flush(t) ==
  /\ ~exiting
  /\ agenda[t] = <<>>
  /\ flushes < MaxFlushes
  /\ flushes' = flushes + 1
  /\ agenda' = [agenda EXCEPT ![t] = <<"flush">>]
  /\ UNCHANGED <<log_path_, log_count_, ofs_, file, saved, seen, made, starts,
                 cleaner, exiting, races, historyVars>>

\* Logger::start_logging with the directory of the log, or with an empty path.
StartLogging(path) ==
  /\ ~exiting
  /\ agenda[Main] = <<>>
  /\ starts < MaxStarts
  /\ starts' = starts + 1
  /\ log_path_' = path
  /\ agenda' = [agenda EXCEPT ![Main] = <<"cleanup", "reinit">> \o Note]
  /\ UNCHANGED <<flushes, log_count_, ofs_, file, saved, seen, made, cleaner, exiting, races,
                 historyVars>>

\* The program is over and its threads are: ~Logger calls close, which logs first.
Exit ==
  /\ ~exiting
  /\ \A t \in Threads : agenda[t] = <<>>
  /\ exiting' = TRUE
  /\ agenda' = [agenda EXCEPT ![Main] = Note \o <<"close">>]
  /\ UNCHANGED <<log_path_, log_count_, ofs_, file, saved, seen, made, starts, flushes,
                 cleaner, races, historyVars>>

-----------------------------------------------------------------------------
\* count_and_check_flush

\* log_count_ becomes n, and at kMaxCount a flush is due.
Counted(t, n) ==
  /\ log_count_' = n
  /\ IF n < kMaxCount THEN Done(t)
     ELSE Instead(t, <<"reset">> \o Note \o <<"flush">>)

Count(t) ==
  /\ Todo(t, "count")
  /\ Counted(t, log_count_ + 1)
  /\ UNCHANGED <<log_path_, ofs_, file, saved, seen, made, starts, flushes, cleaner,
                 exiting, races, historyVars>>

\* No lock guards log_count_: the increment may also be a load ...
CountLoads(t) ==
  /\ Todo(t, "count")
  /\ races < MaxRaces
  /\ races' = races + 1
  /\ seen' = [seen EXCEPT ![t] = log_count_]
  /\ Instead(t, <<"store">>)
  /\ UNCHANGED <<log_path_, log_count_, ofs_, file, saved, made, starts, flushes,
                 cleaner, exiting, historyVars>>

\* ... and, after whatever the others did, a store.
CountStores(t) ==
  /\ Todo(t, "store")
  /\ Counted(t, seen[t] + 1)
  /\ seen' = [seen EXCEPT ![t] = 0]
  /\ UNCHANGED <<log_path_, ofs_, file, saved, made, starts, flushes, cleaner, exiting, races,
                 historyVars>>

Reset(t) ==
  /\ Todo(t, "reset")
  /\ log_count_' = 0
  /\ Done(t)
  /\ UNCHANGED <<log_path_, ofs_, file, saved, seen, made, starts, flushes, cleaner,
                 exiting, races, historyVars>>

-----------------------------------------------------------------------------
\* ~LogStream

Write(t) ==
  /\ Todo(t, "write") \/ Todo(t, "note")
  /\ LET record == IF Todo(t, "write") THEN {<<t, made[t]>>} ELSE {}
     IN  IF ofs_ = "file"
         THEN /\ file' = [file EXCEPT !.old = FALSE, !.size = Smaller(@ + 1, MaxLogSize),
                                      !.records = @ \cup record]
              /\ written' = written \cup record
         ELSE UNCHANGED <<file, written>>
  /\ Done(t)
  /\ UNCHANGED <<log_path_, log_count_, ofs_, saved, seen, made, starts, flushes,
                 cleaner, exiting, races, removed, failed>>

-----------------------------------------------------------------------------
\* flush and reinit: rotate, then open.

Opening(t) == Todo(t, "open append") \/ Todo(t, "open trunc")

\* Another thread is between its rotate and its open.
Overlap(t) ==
  IF \E u \in Threads \ {t} : Opening(u) THEN {"overlap"} ELSE {}

Flushing(t) == Todo(t, "flush") \/ Todo(t, "reinit")

\* rotate, before the lock: there is no file to rotate.
RotateNothing(t) ==
  /\ Flushing(t)
  /\ log_path_ = "none" \/ ~file.exists
  /\ Instead(t, <<"open append">>)
  /\ failed' = failed \cup Overlap(t)
  /\ UNCHANGED <<log_path_, log_count_, ofs_, file, saved, seen, made, starts, flushes,
                 cleaner, exiting, races, written, removed>>

\* There is one.
RotateLooks(t) ==
  /\ Flushing(t)
  /\ log_path_ = "set" /\ file.exists
  /\ Instead(t, IF Todo(t, "flush") THEN <<"flush rotates">> ELSE <<"reinit rotates">>)
  /\ UNCHANGED <<log_path_, log_count_, ofs_, file, saved, seen, made, starts, flushes,
                 cleaner, exiting, races, historyVars>>

Rotating(t) == Todo(t, "flush rotates") \/ Todo(t, "reinit rotates")

\* Mutant: a log that is not rotated is not opened again.
RotateKeeps_Closed(t) ==
  /\ Rotating(t)
  /\ file.exists /\ file.size < MaxLogSize
  /\ ofs_' = "closed"
  /\ Done(t)
  /\ failed' = failed \cup Overlap(t)
  /\ UNCHANGED <<log_path_, log_count_, file, saved, seen, made, starts, flushes,
                 cleaner, exiting, races, written, removed>>

\* rotate, with the lock: the log is not full.
RotateKeeps(t) ==
  /\ Rotating(t)
  /\ file.exists /\ file.size < MaxLogSize
  /\ ofs_' = "closed"
  /\ Instead(t, <<"open append">>)
  /\ failed' = failed \cup Overlap(t)
  /\ UNCHANGED <<log_path_, log_count_, file, saved, seen, made, starts, flushes,
                 cleaner, exiting, races, written, removed>>

\* The log is full: it is copied, or the copy fails, which goes unnoticed.
RotateCopies(t) ==
  /\ Rotating(t)
  /\ file.exists /\ file.size >= MaxLogSize
  /\ ofs_' = "closed"
  /\ \/ saved' = saved \cup file.records /\ failed' = failed \cup Overlap(t)
     \/ saved' = saved /\ failed' = failed \cup {"copy"} \cup Overlap(t)
  /\ Instead(t, <<"open trunc">> \o (IF Todo(t, "flush rotates") THEN Note ELSE <<>>))
  /\ UNCHANGED <<log_path_, log_count_, file, seen, made, starts, flushes, cleaner,
                 exiting, races, written, removed>>

\* The file has gone since: file_size throws, and all of the call with it.
RotateThrows(t) ==
  /\ Rotating(t)
  /\ ~file.exists
  /\ ofs_' = "closed"
  /\ agenda' = [agenda EXCEPT ![t] = <<>>]
  /\ failed' = failed \cup {"size"}
  /\ UNCHANGED <<log_path_, log_count_, file, saved, seen, made, starts, flushes,
                 cleaner, exiting, races, written, removed>>

\* open with no path returns at once.
OpenNothing(t) ==
  /\ Opening(t)
  /\ log_path_ = "none"
  /\ Done(t)
  /\ UNCHANGED <<log_path_, log_count_, ofs_, file, saved, seen, made, starts, flushes,
                 cleaner, exiting, races, historyVars>>

\* Mutant: open(rotated) for open(!rotated).
Open_Inverted(t) ==
  /\ Opening(t)
  /\ log_path_ = "set"
  /\ ofs_' = "file"
  /\ file' = IF Todo(t, "open trunc") /\ file.exists THEN file ELSE NewFile
  /\ Done(t)
  /\ UNCHANGED <<log_path_, log_count_, saved, seen, made, starts, flushes, cleaner,
                 exiting, races, historyVars>>

\* ofs_ is opened on the file of that name, appending to it or emptying it.
Open(t) ==
  /\ Opening(t)
  /\ log_path_ = "set"
  /\ ofs_' = "file"
  /\ file' = IF Todo(t, "open append") /\ file.exists THEN file ELSE NewFile
  /\ Done(t)
  /\ UNCHANGED <<log_path_, log_count_, saved, seen, made, starts, flushes, cleaner,
                 exiting, races, historyVars>>

\* The file cannot be opened: ofs_ stays closed, and nobody is told.
OpenFails(t) ==
  /\ Opening(t)
  /\ log_path_ = "set"
  /\ ofs_' = "closed"
  /\ failed' = failed \cup {"open"}
  /\ Done(t)
  /\ UNCHANGED <<log_path_, log_count_, file, saved, seen, made, starts, flushes,
                 cleaner, exiting, races, written, removed>>

\* create_directories throws before the lock: ofs_ is left as it is.
OpenThrows(t) ==
  /\ Opening(t)
  /\ log_path_ = "set"
  /\ agenda' = [agenda EXCEPT ![t] = <<>>]
  /\ failed' = failed \cup {"open"}
  /\ UNCHANGED <<log_path_, log_count_, ofs_, file, saved, seen, made, starts, flushes,
                 cleaner, exiting, races, written, removed>>

\* close
Close(t) ==
  /\ Todo(t, "close")
  /\ ofs_' = IF ofs_ = "closed" THEN "closed" ELSE "gone"
  /\ Done(t)
  /\ UNCHANGED <<log_path_, log_count_, file, saved, seen, made, starts, flushes, cleaner,
                 exiting, races, historyVars>>

-----------------------------------------------------------------------------
\* cleanup and remove_old_files, on a thread of its own.

Cleanup(t) ==
  /\ Todo(t, "cleanup")
  /\ cleaner' = IF log_path_ = "none" THEN cleaner
                ELSE [cleaner EXCEPT ![starts] = "looks"]
  /\ Done(t)
  /\ UNCHANGED <<log_path_, log_count_, ofs_, file, saved, seen, made, starts, flushes,
                 exiting, races, historyVars>>

\* It looks at the age of the log file, ...
CleanerLooks(i) ==
  /\ cleaner[i] = "looks"
  /\ cleaner' = [cleaner EXCEPT ![i] =
                   IF file.exists /\ file.old THEN "removes" ELSE "done"]
  /\ UNCHANGED <<log_path_, log_count_, ofs_, file, saved, starts, flushes, exiting, races,
                 threadVars, historyVars>>

\* ... and then removes it, open or not.
CleanerRemoves(i) ==
  /\ cleaner[i] = "removes"
  /\ cleaner' = [cleaner EXCEPT ![i] = "done"]
  /\ file' = NoFile
  /\ removed' = removed \cup file.records
  /\ ofs_' = IF ofs_ = "file" THEN "removed" ELSE ofs_
  /\ UNCHANGED <<log_path_, log_count_, saved, starts, flushes, exiting, races, threadVars,
                 written, failed>>

-----------------------------------------------------------------------------
Step(t) ==
  \/ Count(t) \/ CountLoads(t) \/ CountStores(t) \/ Reset(t)
  \/ Write(t)
  \/ RotateNothing(t) \/ RotateLooks(t) \/ RotateKeeps(t)
  \/ RotateCopies(t) \/ RotateThrows(t)
  \/ OpenNothing(t) \/ Open(t) \/ OpenFails(t) \/ OpenThrows(t)
  \/ Close(t) \/ Cleanup(t)

Next ==
  \/ \E t \in Threads : Log(t) \/ Flush(t) \/ Step(t)
  \/ \E path \in {"none", "set"} : StartLogging(path)
  \/ Exit
  \/ \E i \in Cleaners : CleanerLooks(i) \/ CleanerRemoves(i)

Spec == Init /\ [][Next]_vars

-----------------------------------------------------------------------------
\* Properties.

Ops == {"count", "store", "reset", "write", "note", "cleanup", "flush", "reinit",
        "flush rotates", "reinit rotates", "open append", "open trunc", "close"}

TypeOK ==
  /\ log_path_ \in {"none", "set"}
  /\ log_count_ \in Nat
  /\ ofs_ \in {"closed", "file", "removed", "gone"}
  /\ file \in [exists : BOOLEAN, old : BOOLEAN, size : 0..MaxLogSize, records : SUBSET Records]
  /\ saved \subseteq Records
  /\ \A t \in Threads : \A i \in DOMAIN agenda[t] : agenda[t][i] \in Ops
  /\ seen \in [Threads -> Nat]
  /\ made \in [Threads -> 0..MaxRecords]
  /\ starts \in 0..MaxStarts /\ flushes \in 0..MaxFlushes
  /\ cleaner \in [Cleaners -> {"off", "looks", "removes", "done"}]
  /\ exiting \in BOOLEAN
  /\ races \in 0..MaxRaces
  /\ written \subseteq Records /\ removed \subseteq Records
  /\ failed \subseteq {"copy", "open", "size", "overlap"}

\* A record that went into the log file stays in it, goes to a backup with it,
\* or is deleted with it, however records and flushes of several threads
\* interleave; except if a copy failed or one thread's rotate came between
\* another's rotate and open, which are the two ways to lose records.
RecordsKept ==
  failed \cap {"copy", "overlap"} = {} =>
    written \subseteq file.records \cup saved \cup removed

Reopening(t) ==
  \E i \in DOMAIN agenda[t] :
    agenda[t][i] \in {"reinit", "reinit rotates", "open append", "open trunc"}

\* Every flush is brought to its end. It is not left between closing and opening:
\* no record finds the log closed, once it has been started, unless a thread is
\* about to open it, or the file could not be opened or vanished from under a
\* rotate. And the records that an automatic flush writes, which are counted as
\* any, do not set off another: the count passes kMaxCount by less than one for
\* each thread, which resets it before it counts again, and, for each race lost, by
\* one more for each other thread, whose reset may have been overwritten.
FlushesComplete ==
  /\ log_path_ = "set" /\ ofs_ = "closed" =>
       \/ \E t \in Threads : Reopening(t)
       \/ failed \cap {"open", "size"} # {}
  /\ log_count_ < kMaxCount + Cardinality(Threads) + races * (Cardinality(Threads) - 1)

\* remove_old_files deletes what is older than a week, so no record of this
\* process.
OnlyOldRemoved == removed = {}
=============================================================================
