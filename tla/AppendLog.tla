----------------------------- MODULE AppendLog -----------------------------
(***************************************************************************)
(* The three classes that append entries to a text file, one line each.    *)
(* `program` says which one runs:                                          *)
(*                                                                         *)
(*   "broker"   Persistent::MessageBroker of Persistent.cpp, which loads   *)
(*              the file into its queue when it starts                     *)
(*   "eventlog" EventLog of eventlog.cpp, which starts with an empty list  *)
(*              and only prints the file                                   *)
(*   "storage"  DistributedLogStorage of read_write_file.cpp, which keeps  *)
(*              nothing in memory and reads lines back at an offset        *)
(*                                                                         *)
(* The first two push to memory and then open, write and close the file;   *)
(* the third has one stream open all the time, whose state outlives each   *)
(* call.  All ignore every error on the way.  A process may die between    *)
(* any two steps and be started again on the same file.  A line is the     *)
(* sequence of pieces between two newlines: a write cut short by a full    *)
(* disk or by the death of the process leaves a piece that is not whole    *)
(* and no newline, and the next write goes on in the same line.            *)
(*                                                                         *)
(* Messages with a newline in them are outside the model.  Persistent.cpp  *)
(* and read_write_file.cpp would write such a message as several lines and *)
(* read each back as a message of its own; here a line that is read is the *)
(* message that was written.  The entries of eventlog.cpp do contain one,  *)
(* that of ctime, and are counted as a line each: they are only printed.   *)
(***************************************************************************)
EXTENDS Naturals, Sequences, SequencesExt

CONSTANTS Messages,   \* what is added, each message once
          NoMessage,  \* no call of addMessage or appendEvent in progress
          MaxStarts   \* bound on the number of times the process starts

ASSUME NoMessageAssumption == NoMessage \notin Messages
ASSUME StartsAssumption == MaxStarts \in Nat

VARIABLES program,  \* "broker", "eventlog" or "storage"
          file,     \* the lines of the file, which outlives the process
          torn,     \* the last line has no newline yet
          up,       \* the process runs
          stream,   \* logFile of the storage: "good", "eof" or "failed"; the
                    \* others open a new stream each time
          memory,   \* messageQueue or events: a sequence of lines; for the
                    \* storage history: what appendEvent was called with
          current,  \* in memory, and not yet tried to write
          taken,    \* what consumers took since the process started
          skipped,  \* lines of the file when it started, and not loaded
          clean,    \* history: nothing failed and no read ran into the end of
                    \* the file since the process started
          everTorn, \* history: some write was cut short
          added,    \* history: the messages of which a call has begun
          written,  \* history: the messages written in full, in order
          starts    \* history: how often the process has been started

files == <<file, torn, everTorn, written>>
logVars == <<program, files, up, stream, memory, current, taken, skipped,
             clean, added, starts>>

Programs == {"broker", "eventlog", "storage"}
StreamStates == {"good", "eof", "failed"}

Whole(m) == [message |-> m, whole |-> TRUE]
Part(m)  == [message |-> m, whole |-> FALSE]

(* The file after a piece was written: a torn last line goes on.           *)
Extended(piece) ==
    IF torn THEN Front(file) \o <<Append(Last(file), piece)>>
            ELSE Append(file, <<piece>>)

-----------------------------------------------------------------------------
(* A name that starts with Bug marks what a plausible mistake would make   *)
(* of the definition after it; no behaviour of the specification uses it.  *)

LogInit ==
    /\ program \in Programs
    /\ file = <<>> /\ torn = FALSE
    /\ up = FALSE /\ stream = "good"
    /\ memory = <<>> /\ current = NoMessage /\ taken = <<>>
    /\ skipped = <<>>
    /\ clean = TRUE /\ everTorn = FALSE
    /\ added = {} /\ written = <<>>
    /\ starts = 0

(* getline also returns a last line without a newline, so the broker loads *)
(* a torn line like any other.                                             *)
OpenFile ==
    /\ memory' = IF program = "broker" THEN file ELSE <<>>
    /\ skipped' = IF program = "broker" THEN <<>> ELSE file
    /\ stream' = "good"
    /\ clean' = ~torn

(* The file is there and cannot be opened: the broker starts empty, the    *)
(* storage with a failed stream, and neither says so.                      *)
MissFile ==
    /\ \/ program = "broker" /\ file # <<>>
       \/ program = "storage"
    /\ memory' = <<>>
    /\ skipped' = file
    /\ stream' = IF program = "storage" THEN "failed" ELSE "good"
    /\ clean' = FALSE

(* The constructor.                                                        *)
Start ==
    /\ ~up /\ starts < MaxStarts
    /\ up' = TRUE
    /\ starts' = starts + 1
    /\ taken' = <<>>
    /\ OpenFile \/ MissFile
    /\ UNCHANGED <<program, files, current, added>>

(* addMessage and appendEvent begin: the entry is in memory only.          *)
Add(m) ==
    /\ up /\ current = NoMessage
    /\ m \notin added
    /\ added' = added \cup {m}
    /\ current' = m
    /\ memory' = Append(memory, <<Whole(m)>>)
    /\ UNCHANGED <<program, files, up, stream, taken, skipped, clean, starts>>

(* The call returns, whatever became of the entry.                         *)
Return ==
    /\ up /\ current # NoMessage
    /\ current' = NoMessage
    /\ UNCHANGED <<program, up, memory, taken, skipped, added, starts>>

(* The file is opened without ios::app and truncated.                      *)
BugWriteTruncates ==
    /\ stream = "good"
    /\ file' = <<<<Whole(current)>>>>
    /\ torn' = FALSE
    /\ written' = Append(written, current)
    /\ UNCHANGED <<stream, everTorn, clean>>
    /\ Return

(* The newline is forgotten.                                               *)
BugWriteNoNewline ==
    /\ stream = "good"
    /\ file' = Extended(Whole(current))
    /\ torn' = TRUE
    /\ written' = Append(written, current)
    /\ UNCHANGED <<stream, everTorn, clean>>
    /\ Return

(* persistMessage, and the same in the two appendEvent: content and        *)
(* newline reach the file.                                                 *)
Write ==
    /\ stream = "good"
    /\ file' = Extended(Whole(current))
    /\ torn' = FALSE
    /\ written' = Append(written, current)
    /\ UNCHANGED <<stream, everTorn, clean>>
    /\ Return

(* The file could not be opened: the call returns as if it had worked.     *)
OpenFails ==
    /\ program # "storage"
    /\ clean' = FALSE
    /\ UNCHANGED <<files, stream>>
    /\ Return

(* Only part of the line reaches the file.  The error is ignored, but the  *)
(* stream of the storage is in the failed state from now on.               *)
WriteCutShort ==
    /\ stream = "good"
    /\ file' = Extended(Part(current))
    /\ torn' = TRUE
    /\ stream' = IF program = "storage" THEN "failed" ELSE stream
    /\ clean' = FALSE /\ everTorn' = TRUE
    /\ UNCHANGED written
    /\ Return

(* write, put and flush do nothing on a stream that is not good.  Whether  *)
(* the attempt makes a stream at the end of its file fail depends on the   *)
(* library.                                                                *)
Drop ==
    /\ stream # "good"
    /\ stream' \in {stream, "failed"}
    /\ UNCHANGED <<files, clean>>
    /\ Return

(* The end of the file is met in the last line even if it has a newline.   *)
BugAfterReading(n) == IF n >= Len(file) THEN "eof" ELSE "good"

(* How getline leaves the stream: it fails when there is no n-th line, and *)
(* meets the end of the file in a line without a newline.                  *)
AfterReading(n) ==
    IF n > Len(file) THEN "failed"
    ELSE IF torn /\ n = Len(file) THEN "eof" ELSE "good"

(* readEvent at an offset in the n-th line, or at the end of the file or   *)
(* behind it.  seekg forgets that the end was reached, but not a failure,  *)
(* after which readEvent changes nothing.                                  *)
ReadEvent(n) ==
    /\ program = "storage"
    /\ up /\ current = NoMessage
    /\ stream # "failed"
    /\ stream' = AfterReading(n)
    /\ clean' = (clean /\ n <= Len(file))
    /\ UNCHANGED <<program, files, up, memory, current, taken, skipped, added,
                   starts>>

(* retrieveMessage: a no-op on an empty queue.                             *)
Take ==
    /\ up /\ current = NoMessage
    /\ program = "broker"
    /\ memory # <<>>
    /\ taken' = Append(taken, Head(memory))
    /\ memory' = Tail(memory)
    /\ UNCHANGED <<program, files, up, stream, current, skipped, clean, added,
                   starts>>

(* The process ends or dies, in the middle of a call or not; what was in   *)
(* memory is gone.                                                         *)
Stop ==
    /\ up
    /\ up' = FALSE
    /\ memory' = <<>> /\ current' = NoMessage /\ taken' = <<>>
    /\ stream' = "good"
    /\ UNCHANGED <<program, files, skipped, clean, added, starts>>

LogNext ==
    \/ Start
    \/ \E m \in Messages : Add(m)
    \/ Write
    \/ OpenFails
    \/ WriteCutShort
    \/ Drop
    \/ \E n \in 1..(Len(file) + 1) : ReadEvent(n)
    \/ Take
    \/ Stop

LogSpec == LogInit /\ [][LogNext]_logVars

-----------------------------------------------------------------------------
Pieces == [message : Messages, whole : BOOLEAN]

LogTypeOK ==
    /\ program \in Programs
    /\ \A s \in {file, memory, taken, skipped} : s \in Seq(Seq(Pieces))
    /\ torn \in BOOLEAN /\ up \in BOOLEAN
    /\ clean \in BOOLEAN /\ everTorn \in BOOLEAN
    /\ torn => file # <<>> /\ ~Last(Last(file)).whole
    /\ stream \in StreamStates /\ (stream # "good" => program = "storage")
    /\ current \in Messages \cup {NoMessage}
    /\ added \subseteq Messages /\ written \in Seq(Messages)
    /\ starts \in 0..MaxStarts

(* The places of the whole pieces in a file: line and piece, in order.     *)
WholePlaces(lines) ==
    UNION {{<<i, j>> : j \in {j \in DOMAIN lines[i] : lines[i][j].whole}} :
             i \in DOMAIN lines}

Before(p, q) == p[1] < q[1] \/ (p[1] = q[1] /\ p[2] < q[2])

(* Nothing that reached the file is ever lost, doubled or reordered there, *)
(* however often the process died: its whole pieces are what was written,  *)
(* in order.  And every line stands for one message unless some write was  *)
(* cut short.                                                              *)
FileKeepsWritten ==
    /\ \E at \in [DOMAIN written -> WholePlaces(file)] :
         /\ WholePlaces(file) = {at[k] : k \in DOMAIN written}
         /\ \A k \in DOMAIN written : file[at[k][1]][at[k][2]].message = written[k]
         /\ \A j, k \in DOMAIN written : j < k => Before(at[j], at[k])
    /\ ~everTorn => \A i \in DOMAIN file : Len(file[i]) = 1

(* Memory mirrors the file: as long as no file operation of this process   *)
(* failed, the lines it found, what consumers took and what is still       *)
(* queued are the file, but for the entry that is being written.  In       *)
(* particular a restarted broker offers everything again, in order.  What  *)
(* is appended to the storage gets into the file, whatever was read in     *)
(* between, as long as no read ran into the end of the file.               *)
MemoryMirrorsFile ==
    up /\ clean =>
        skipped \o taken \o memory =
            IF current = NoMessage THEN file
                                   ELSE Append(file, <<Whole(current)>>)
=============================================================================
