------------------------------ MODULE WalWriter ------------------------------
(***************************************************************************)
(* replay/wal.py: one JSONL file, appended to by every thread of the actor *)
(* pool through one WalWriter.  The lock covers numbering and buffering;   *)
(* a batch is written, fsynced and, on an OSError, put back outside of it  *)
(* - or, when the directory cannot be made, lost to its caller.            *)
(*                                                                         *)
(* A line reaches the file in two pieces, the second one with the newline: *)
(* a batch is larger than the stream's buffer, so the operating system     *)
(* sees it as several appends that end anywhere in a line.                 *)
(***************************************************************************)
EXTENDS Integers, SequencesExt

CONSTANTS Writers,    \* pool threads
          Main,       \* the thread of the monitor loop
          BatchSize,  \* events that fill a batch (64)
          MaxEvents,  \* bound: the highest sequence number
          MaxFaults,  \* bound: OSErrors
          MaxCrashes  \* bound: ends of the process

ASSUME WalAssumption ==
  /\ IsFiniteSet(Writers) /\ Writers # {} /\ Main \notin Writers
  /\ BatchSize \in Nat \ {0}
  /\ MaxEvents \in Nat /\ MaxFaults \in Nat /\ MaxCrashes \in Nat

VARIABLES
  seq,       \* _seq
  buffer,    \* _buffer
  batch,     \* the lines each thread is appending, outside the lock
  written,   \* how many pieces of its batch each thread has appended
  file,      \* the pieces in the file
  synced,    \* how many of them would survive a power cut
  acked,     \* history: the lines whose append returned
  dropped,   \* history: the lines whose append raised to its caller
  base,      \* history: _seq when this process started
  overlapped,\* history: two batches have been appended at the same time
  faults,    \* OSErrors so far, to bound them
  crashes    \* processes so far; a line remembers which one wrote it

vars == <<seq, buffer, batch, written, file, synced, acked, dropped, base, overlapped,
          faults, crashes>>

-----------------------------------------------------------------------------
Threads == Writers \union {Main}

Lines == [seq : 1..MaxEvents, process : 0..MaxCrashes]
Pieces == [line : Lines, last : BOOLEAN]

\* The pieces of a sequence of lines.
Cut(lines) == [i \in 1..(2 * Len(lines)) |->
                 [line |-> lines[(i + 1) \div 2], last |-> i % 2 = 0]]

\* Where a line starts that json.loads accepts.
Parses(f, i) ==
  /\ i < Len(f) /\ f[i] = [line |-> f[i].line, last |-> FALSE]
  /\ f[i + 1] = [line |-> f[i].line, last |-> TRUE]
  /\ i = 1 \/ f[i - 1].last
WholeLines(f) == {i \in DOMAIN f : Parses(f, i)}

\* WalReader: the lines it yields, by where they start.
Event(i) == file[i].line

\* _read_last_sequence walks back to a line that parses.  One mutant looks at
\* the last line alone, the other returns the number that comes next.
LastLineSequence(f) ==
  IF Len(f) > 1 /\ Parses(f, Len(f) - 1) THEN f[Len(f)].line.seq ELSE 0
NextSequence(f) == IF WholeLines(f) = {} THEN 1 ELSE f[Max(WholeLines(f))].line.seq + 1
LastSequence(f) == IF WholeLines(f) = {} THEN 0 ELSE f[Max(WholeLines(f))].line.seq

Idle(w) == batch[w] = <<>>

TypeOK ==
  /\ seq \in 0..MaxEvents /\ base \in 0..seq
  /\ buffer \in Seq(Lines) /\ batch \in [Threads -> Seq(Lines)]
  /\ written \in [Threads -> Nat] /\ \A w \in Threads : written[w] <= 2 * Len(batch[w])
  /\ file \in Seq(Pieces) /\ synced \in 0..Len(file)
  /\ acked \subseteq Lines /\ dropped \subseteq Lines /\ overlapped \in BOOLEAN
  /\ faults \in 0..MaxFaults /\ crashes \in 0..MaxCrashes

Init ==
  /\ seq = 0 /\ buffer = <<>> /\ base = 0
  /\ batch = [w \in Threads |-> <<>>] /\ written = [w \in Threads |-> 0]
  /\ file = <<>> /\ synced = 0 /\ acked = {} /\ dropped = {}
  /\ overlapped = FALSE /\ faults = 0 /\ crashes = 0

\* The lock is released with the lines in w's hand.
Take(w, lines) ==
  /\ batch' = [batch EXCEPT ![w] = lines] /\ buffer' = <<>>
  /\ overlapped' = (overlapped \/ \E v \in Threads : ~Idle(v))

\* WalWriter.write on a pool thread: number the event, buffer it, and take the
\* batch once full.  What the loop's own thread writes comes between cycles, as
\* if from a thread of the pool.
Write(w) ==
  /\ Idle(w) /\ Idle(Main) /\ seq < MaxEvents
  /\ seq' = seq + 1
  /\ LET lines == Append(buffer, [seq |-> seq', process |-> crashes])
     IN  IF Len(lines) >= BatchSize THEN Take(w, lines)
         ELSE buffer' = lines /\ UNCHANGED <<batch, overlapped>>
  /\ UNCHANGED <<written, file, synced, acked, dropped, base, faults, crashes>>

\* WalWriter.flush, called by PaperTradingEngine.run_once when a cycle has
\* ended and no actor runs.
Flush ==
  /\ \A w \in Threads : Idle(w)
  /\ buffer # <<>> /\ Take(Main, buffer)
  /\ UNCHANGED <<seq, written, file, synced, acked, dropped, base, faults, crashes>>

\* _flush_lines: the next k pieces of the batch reach the end of the file.
AppendPieces(w) ==
  /\ \E k \in 1..(2 * Len(batch[w]) - written[w]) :
       /\ file' = file \o SubSeq(Cut(batch[w]), written[w] + 1, written[w] + k)
       /\ written' = [written EXCEPT ![w] = @ + k]
  /\ UNCHANGED <<seq, buffer, batch, synced, acked, dropped, base, overlapped, faults, crashes>>

\* fsync once everything is written; the mutant does not flush the stream first.
WrittenInPart(w) == written[w] > 0
WrittenOut(w) == written[w] = 2 * Len(batch[w])

Release(w) ==
  /\ batch' = [batch EXCEPT ![w] = <<>>]
  /\ written' = [written EXCEPT ![w] = 0]

Sync(w) ==
  /\ ~Idle(w) /\ WrittenOut(w)
  /\ synced' = Len(file) /\ acked' = acked \union ToSet(batch[w])
  /\ Release(w)
  /\ UNCHANGED <<seq, buffer, file, dropped, base, overlapped, faults, crashes>>

\* What the buffer holds after a failed append; the mutant forgets what was
\* buffered meanwhile.
RebufferedAlone(w) == batch[w]
Rebuffered(w) == batch[w] \o buffer

\* An OSError, after any part of the batch has reached the file.
FailAppend(w) ==
  /\ ~Idle(w) /\ faults < MaxFaults
  /\ faults' = faults + 1
  /\ buffer' = Rebuffered(w)
  /\ Release(w)
  /\ UNCHANGED <<seq, file, synced, acked, dropped, base, overlapped, crashes>>

\* An OSError of the mkdir ahead of the try: it goes through write or flush to
\* their caller, and the batch belongs to nobody any more.
DropBatch(w) ==
  /\ ~Idle(w) /\ written[w] = 0 /\ faults < MaxFaults
  /\ faults' = faults + 1
  /\ dropped' = dropped \union ToSet(batch[w])
  /\ Release(w)
  /\ UNCHANGED <<seq, buffer, file, synced, acked, base, overlapped, crashes>>

\* The process ends (PaperTradingEngine.shutdown does not flush the log
\* either), a power cut may take what was not synced, and a new WalWriter
\* opens the file.  When an OSError keeps it from reading the last number, it
\* starts again from 0.
CrashAndReopen ==
  /\ crashes < MaxCrashes
  /\ crashes' = crashes + 1
  /\ \E n \in synced..Len(file) :
       file' = SubSeq(file, 1, n) /\ synced' = n
  /\ \/ seq' = LastSequence(file') /\ UNCHANGED faults
     \/ seq' = 0 /\ faults < MaxFaults /\ faults' = faults + 1
  /\ base' = seq'
  /\ buffer' = <<>>
  /\ batch' = [w \in Threads |-> <<>>] /\ written' = [w \in Threads |-> 0]
  /\ UNCHANGED <<acked, dropped, overlapped>>

Next ==
  \/ \E w \in Writers : Write(w)
  \/ Flush
  \/ \E w \in Threads : AppendPieces(w) \/ Sync(w) \/ FailAppend(w) \/ DropBatch(w)
  \/ CrashAndReopen

Spec == Init /\ [][Next]_vars

-----------------------------------------------------------------------------
(* What the log promises.                                                    *)

\* While a process lives, every event it has numbered is in one place: in the
\* buffer, in the hands of one thread, acknowledged, or in a batch whose mkdir
\* raised to its caller.  No lock handover and no failed append loses or
\* doubles one silently.
NothingDropped ==
  \A n \in (base + 1)..seq :
    LET e == [seq |-> n, process |-> crashes]
    IN  Cardinality({w \in Threads : e \in ToSet(batch[w])})
          + Cardinality({i \in DOMAIN buffer : buffer[i] = e})
          + Cardinality(acked \intersect {e}) + Cardinality(dropped \intersect {e}) = 1

\* Both pieces of an acknowledged line are where a power cut leaves them.
AckedIsOnDisk ==
  \A e \in acked, b \in BOOLEAN :
    [line |-> e, last |-> b] \in ToSet(SubSeq(file, 1, synced))

\* As long as no two batches overlapped and no OSError came, a number in the
\* file names one event, however often the process crashed in mid-line: a new
\* process never reuses a number it can read.
SoloNumbersNameOneEvent ==
  ~overlapped /\ faults = 0 =>
    \A i, j \in WholeLines(file) : Event(i).seq = Event(j).seq => Event(i) = Event(j)

\* The log as its callers see it: the events that wait in the buffer or in a
\* thread's hands, and those of which the file has both pieces.
Held == ToSet(buffer) \union UNION {ToSet(batch[w]) : w \in Threads}
Ends(f, b) == {q.line : q \in {r \in ToSet(f) : r.last = b}}
Stored == Ends(file, FALSE) \intersect Ends(file, TRUE)

Log == INSTANCE EventLog WITH Events <- Lines, held <- Held, stored <- Stored,
                              durable <- acked, lost <- dropped

\* Batches, handovers of the lock, appends in pieces and out of order, failed
\* appends and torn lines make up a log: nothing accepted is forgotten before a
\* crash unless an exception says so, nothing written is changed (I3), nothing
\* acknowledged is lost.
ImplementsEventLog == Log!Spec
=============================================================================
