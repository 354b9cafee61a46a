------------------------------ MODULE EventLog ------------------------------
(***************************************************************************)
(* The append-only JSONL log (crates/replay/src/log.rs) on a machine that  *)
(* may stop at any moment.  The file is a sequence of pieces: the whole    *)
(* JSON of event n, a cut one, or a newline.  A line parses when it is one *)
(* whole JSON.  What is written but not yet synchronized may be lost from  *)
(* the end when the power fails; a killed process loses nothing written.   *)
(***************************************************************************)
EXTENDS Integers, Sequences, FiniteSetsExt

CONSTANTS
  MaxEvents,   \* bound on the events appended
  Reopens      \* whether a log that has events is opened again

ASSUME LogConstants == MaxEvents \in Nat /\ Reopens \in BOOLEAN

VARIABLES
  file,      \* the file's pieces
  onDisk,    \* how many of them are synchronized
  writer,    \* "closed", "open", or "writing" while append runs
  next,      \* next_sequence of the writer, the last one's when closed
  start,     \* Len(file) when the append in progress began
  safe       \* how many events have been synchronized since the log began

vars == <<file, onDisk, writer, next, start, safe>>

Whole(n) == [kind |-> "whole", seq |-> n]
Cut(n) == [kind |-> "cut", seq |-> n]
Newline == [kind |-> "newline", seq |-> 0]

Init ==
  /\ file = <<>> /\ onDisk = 0
  /\ writer = "closed" /\ next = 0
  /\ start = 0
  /\ safe = 0

-----------------------------------------------------------------------------
(* load_events: the events of the file, or the error of the first line it  *)
(* cannot accept.  A line goes by the index of its first piece.            *)
Ends == {i \in 1..Len(file) : file[i] = Newline}

(* Empty lines are skipped.                                                *)
Lines == {i \in 1..Len(file) \ Ends : i = 1 \/ i - 1 \in Ends}

Parses(i) == file[i].kind = "whole" /\ (i = Len(file) \/ i + 1 \in Ends)

(* An unparsable last line without a newline is an interrupted append.     *)
Interrupted(i) == ~Parses(i) /\ i..Len(file) \intersect Ends = {}
Readable == {i \in Lines : ~Interrupted(i)}

Before(i) == {j \in Readable : j < i}

(* validate_event expects as many as were read before. *)
LoadFails == \E i \in Readable : ~Parses(i) \/ file[i].seq # Cardinality(Before(i))

(* How many events are loaded. *)
Loaded == Cardinality(Readable)

-----------------------------------------------------------------------------
Open ==
  /\ writer = "closed"
  /\ file = <<>> \/ Reopens
  /\ ~LoadFails
  /\ writer' = "open"
  /\ next' = IF Readable = {} THEN 0 ELSE file[Max(Readable)].seq + 1
  /\ UNCHANGED <<file, onDisk, start, safe>>

(* append buffers the JSON and its newline and flushes them: they reach    *)
(* the file in one write or in several.                                    *)
Begin ==
  /\ writer = "open" /\ next < MaxEvents
  /\ writer' = "writing"
  /\ start' = Len(file)
  /\ UNCHANGED <<file, onDisk, next, safe>>

Stages == <<<<>>, <<Cut(next)>>, <<Whole(next)>>, <<Whole(next), Newline>>>>

Written == SubSeq(file, start + 1, Len(file))

Write ==
  /\ writer = "writing"
  /\ \E from, to \in 1..Len(Stages) :
       /\ from < to /\ Written = Stages[from]
       /\ file' = SubSeq(file, 1, start) \o Stages[to]
  /\ UNCHANGED <<onDisk, writer, next, start, safe>>

(* Mutant: append returns with the line still in the buffer. *)
Unflushed == writer = "writing"

Flushed == writer = "writing" /\ Written = Stages[Len(Stages)]

(* Mutant: sync_data is asked for before the buffer is flushed. *)
SyncEarly ==
  /\ Flushed
  /\ onDisk' = start
  /\ safe' = next + 1
  /\ writer' = "open" /\ next' = next + 1
  /\ UNCHANGED <<file, start>>

(* Lifecycle and outcome events are synchronized before append returns.    *)
Sync ==
  /\ Flushed
  /\ onDisk' = Len(file)
  /\ safe' = next + 1
  /\ writer' = "open" /\ next' = next + 1
  /\ UNCHANGED <<file, start>>

Return ==
  /\ Flushed
  /\ writer' = "open" /\ next' = next + 1
  /\ UNCHANGED <<file, onDisk, start, safe>>

-----------------------------------------------------------------------------
(* The controller is killed: what it wrote is still in the file. *)
Kill ==
  /\ writer # "closed"
  /\ writer' = "closed"
  /\ UNCHANGED <<file, onDisk, next, start, safe>>

(* The power fails: some of what was not synchronized is lost. *)
PowerLoss ==
  /\ writer' = "closed"
  /\ \E kept \in onDisk..Len(file) :
       file' = SubSeq(file, 1, kept) \o
               (IF kept < Len(file) /\ file[kept + 1].kind = "whole"
                THEN <<Cut(file[kept + 1].seq)>> ELSE <<>>)
  /\ onDisk' = Len(file')
  /\ UNCHANGED <<next, start, safe>>

Next == Open \/ Begin \/ Write \/ Sync \/ Return \/ Kill \/ PowerLoss

Spec == Init /\ [][Next]_vars

-----------------------------------------------------------------------------

(* Whenever and however the machine stops, the log still loads, with every *)
(* event up to the last synchronized one: a torn line is never an error.   *)
NothingSyncedIsLost == ~LoadFails /\ Loaded >= safe

(* Whoever loads the log while the match writes it reads every event that  *)
(* append has returned for, and at most the one being appended besides.    *)
ReadersKeepUp ==
  writer # "closed" => /\ ~LoadFails
                       /\ Loaded \in {next, next + 1}
=============================================================================
