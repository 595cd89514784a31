--------------------------- MODULE WalWriterProofs ---------------------------
(***************************************************************************)
(* Theorems about WalWriter, for every number of threads, every size of a  *)
(* batch and every number of OSErrors and crashes.                         *)
(***************************************************************************)
EXTENDS WalWriter, SequenceTheorems, FiniteSetTheorems, TLAPS

-----------------------------------------------------------------------------
(* The invariants.                                                           *)

\* What this process has numbered.
Numbered == {l \in Lines : l.process = crashes /\ l.seq > base /\ l.seq <= seq}

\* No line occurs twice in a sequence.
Distinct(lines) == \A i, j \in DOMAIN lines : lines[i] = lines[j] => i = j

\* The lines of a buffer b and of the batches h in the threads' hands are among
\* those numbered, no line is in two places, and every one is somewhere.
Own(b, h, numbered) ==
  ToSet(b) \subseteq numbered /\ \A w \in Threads : ToSet(h[w]) \subseteq numbered

OnePlace(b, h, a) ==
  /\ Distinct(b) /\ \A w \in Threads : Distinct(h[w])
  /\ \A w \in Threads : ToSet(h[w]) \intersect (ToSet(b) \union a) = {}
  /\ \A v, w \in Threads : v # w => ToSet(h[v]) \intersect ToSet(h[w]) = {}
  /\ ToSet(b) \intersect a = {}

SomePlace(b, h, a, numbered) ==
  \A e \in numbered : e \in ToSet(b) \/ e \in a \/ \E w \in Threads : e \in ToSet(h[w])

Placed(b, h, a, numbered) ==
  Own(b, h, numbered) /\ OnePlace(b, h, a) /\ SomePlace(b, h, a, numbered)

\* What the writer is done with, for good or ill.
Gone == acked \union dropped

\* Such an event is nobody's future number.
GoneIsPast == \A e \in Gone : e.process <= crashes /\ (e.process = crashes => e.seq <= seq)

LinesArePlaced ==
  Placed(buffer, batch, Gone, Numbered) /\ GoneIsPast /\ acked \intersect dropped = {}

\* Nor does the file hold a line that is yet to be numbered.
FileIsPast ==
  \A i \in 1..Len(file) : LET e == file[i].line
                         IN  e.process <= crashes /\ (e.process = crashes => e.seq <= seq)

\* What a thread has written of its batch is in the file, and what has been
\* acknowledged is in the part of it that is safe.
WrittenIsInFile ==
  \A w \in Threads : \A k \in 1..written[w] : \E i \in 1..Len(file) : file[i] = Cut(batch[w])[k]

AckedIsSynced ==
  \A e \in acked, b \in BOOLEAN : \E i \in 1..synced : file[i] = [line |-> e, last |-> b]

\* The lines of its batch that a thread has not completed in the file.
Unwritten(w) == {m \in DOMAIN batch[w] : 2 * m > written[w]}

Ascending(lines) == \A i, j \in DOMAIN lines : i < j => lines[i].seq < lines[j].seq

\* Only one batch h[w] is on its way, and the buffer b continues it.
InSequence(b, h) ==
  /\ \A v, w \in Threads : h[v] # <<>> /\ h[w] # <<>> => v = w
  /\ Ascending(b) /\ \A w \in Threads : Ascending(h[w])
  /\ \A w \in Threads : \A m \in DOMAIN h[w], k \in DOMAIN b : h[w][m].seq < b[k].seq

\* The lines that can be read are numbered upwards, and everything still to be
\* written is above them.
FileIsAscending == \A i, j \in WholeLines(file) : i < j => Event(i).seq < Event(j).seq

RestIsAbove ==
  \A i \in WholeLines(file) :
    /\ Event(i).seq <= seq
    /\ \A w \in Threads : \A m \in Unwritten(w) : Event(i).seq < batch[w][m].seq
    /\ \A k \in DOMAIN buffer : Event(i).seq < buffer[k].seq

InOrder ==
  ~overlapped /\ faults = 0 => InSequence(buffer, batch) /\ FileIsAscending /\ RestIsAbove

IInv == /\ TypeOK /\ LinesArePlaced /\ FileIsPast /\ WrittenIsInFile /\ AckedIsSynced
        /\ InOrder

-----------------------------------------------------------------------------
(* The operators.                                                            *)

\* A non-empty set of positions has a last one: among its upper parts one is
\* minimal.
LEMMA HasMaximum ==
  ASSUME NEW n \in Nat, NEW T \in SUBSET (1..n), T # {}
  PROVE  Max(T) \in T /\ \A y \in T : y <= Max(T)
<1> DEFINE Up(x) == {k \in T : k >= x}
           F == {Up(x) : x \in T}
<1>1. IsFiniteSet(1..n)
  BY FS_Interval
<1>2. F \subseteq FiniteSubsetsOf(1..n)
  <2> SUFFICES ASSUME NEW x \in T PROVE Up(x) \in FiniteSubsetsOf(1..n)
    OBVIOUS
  <2>1. Up(x) \in SUBSET (1..n)
    OBVIOUS
  <2>2. IsFiniteSet(Up(x))
    BY <1>1, <2>1, FS_Subset
  <2> QED BY <2>1, <2>2 DEF FiniteSubsetsOf
<1>3. F # {}
  OBVIOUS
<1>4. \E U \in F : \A V \in F : ~(<<V, U>> \in StrictSubsetOrdering(1..n))
  BY <1>2, <1>3, FS_StrictSubsetOrderingWellFounded, WFMin
<1>5. PICK x \in T : \A V \in F : ~(<<V, Up(x)>> \in StrictSubsetOrdering(1..n))
  BY <1>4
<1>6. \A y \in T : y <= x
  <2> SUFFICES ASSUME NEW y \in T, ~(y <= x) PROVE FALSE
    OBVIOUS
  <2>1. x \in Int /\ y \in Int /\ y > x
    OBVIOUS
  <2>2. Up(y) \subseteq Up(x)
    <3>1. \A k \in T : k \in Int /\ (k >= y => k >= x)
      BY <2>1
    <3> QED BY <3>1
  <2>3. x \in Up(x) /\ x \notin Up(y)
    BY <2>1
  <2>4. Up(y) \in SUBSET (1..n) /\ Up(x) \in SUBSET (1..n) /\ Up(y) \in F
    OBVIOUS
  <2> HIDE DEF Up, F
  <2>5. <<Up(y), Up(x)>> \in StrictSubsetOrdering(1..n)
    BY <2>2, <2>3, <2>4 DEF StrictSubsetOrdering
  <2> QED BY <1>5, <2>4, <2>5
<1>7. \E z \in T : \A y \in T : z >= y
  BY <1>6
<1>8. Max(T) \in T /\ \A y \in T : Max(T) >= y
  BY <1>7, Zenon DEF Max
<1> QED BY <1>8

\* The pieces of a batch.
LEMMA CutIs ==
  ASSUME NEW lines \in Seq(Lines)
  PROVE  /\ Cut(lines) \in Seq(Pieces) /\ Len(Cut(lines)) = 2 * Len(lines)
         /\ \A k \in 1..(2 * Len(lines)) :
              /\ (k + 1) \div 2 \in 1..Len(lines)
              /\ Cut(lines)[k] = [line |-> lines[(k + 1) \div 2], last |-> k % 2 = 0]
<1>1. Len(lines) \in Nat /\ \A m \in 1..Len(lines) : lines[m] \in Lines
  BY LenProperties, ElementOfSeq
<1>2. \A k \in 1..(2 * Len(lines)) : (k + 1) \div 2 \in 1..Len(lines)
  <2> DEFINE n == Len(lines)
  <2>1. n \in Nat
    BY <1>1
  <2> HIDE DEF n
  <2>2. \A k \in 1..(2 * n) : (k + 1) \div 2 \in 1..n
    BY <2>1
  <2> QED BY <2>2 DEF n
<1>3. \A k \in 1..(2 * Len(lines)) :
        Cut(lines)[k] = [line |-> lines[(k + 1) \div 2], last |-> k % 2 = 0]
  BY DEF Cut
<1>4. \A k \in 1..(2 * Len(lines)) : Cut(lines)[k] \in Pieces
  <2> SUFFICES ASSUME NEW k \in 1..(2 * Len(lines)) PROVE Cut(lines)[k] \in Pieces
    OBVIOUS
  <2> DEFINE l == lines[(k + 1) \div 2]  b == (k % 2 = 0)
  <2>1. l \in Lines
    BY <1>1, <1>2
  <2>2. b \in BOOLEAN
    OBVIOUS
  <2>3. Cut(lines)[k] = [line |-> l, last |-> b]
    BY <1>3
  <2> HIDE DEF l, b
  <2> QED BY <2>1, <2>2, <2>3 DEF Pieces
<1>5. 2 * Len(lines) \in Nat
  BY <1>1
<1>6. Cut(lines) \in [1..(2 * Len(lines)) -> Pieces]
  BY <1>4 DEF Cut
<1>7. Cut(lines) \in Seq(Pieces) /\ Len(Cut(lines)) = 2 * Len(lines)
  BY <1>5, <1>6, IsASeq, LenProperties
<1> QED BY <1>2, <1>3, <1>7

LEMMA PiecesOfLines ==
  ASSUME NEW lines \in Seq(Lines), NEW k \in 1..(2 * Len(lines))
  PROVE  Cut(lines)[k].line \in ToSet(lines)
<1> DEFINE m == (k + 1) \div 2  b == (k % 2 = 0)
<1>1. m \in 1..Len(lines) /\ Cut(lines)[k] = [line |-> lines[m], last |-> b]
  BY CutIs
<1> HIDE DEF m, b
<1>2. m \in DOMAIN lines /\ Cut(lines)[k].line = lines[m]
  BY <1>1, LenProperties
<1> QED BY <1>2 DEF ToSet

LEMMA PieceIs ==
  ASSUME NEW f \in Seq(Pieces), NEW i \in 1..Len(f)
  PROVE  f[i].line \in Lines /\ f[i].line.seq \in Int /\ f[i].line.process \in Int
<1>1. f[i] \in Pieces
  BY ElementOfSeq
<1>2. f[i].line \in Lines
  BY <1>1 DEF Pieces
<1> QED BY <1>2, WalAssumption DEF Lines

\* The numbers that a process finds.
LEMMA WholeLineIs ==
  ASSUME NEW f \in Seq(Pieces), NEW i \in WholeLines(f)
  PROVE  /\ i \in 1..Len(f) /\ i + 1 \in 1..Len(f)
         /\ f[i].line \in Lines /\ f[i + 1].line = f[i].line
         /\ f[i].last = FALSE /\ f[i + 1].last = TRUE
<1>1. i \in 1..Len(f) /\ Len(f) \in Nat /\ i < Len(f)
  BY LenProperties DEF WholeLines, Parses
<1>2. f[i] \in Pieces
  BY <1>1, ElementOfSeq
<1>3. f[i] = [line |-> f[i].line, last |-> FALSE] /\ f[i + 1] = [line |-> f[i].line, last |-> TRUE]
  BY DEF WholeLines, Parses
<1>4. f[i].last = FALSE /\ f[i + 1].line = f[i].line /\ f[i + 1].last = TRUE
  BY <1>3
<1> QED BY <1>1, <1>2, <1>4 DEF Pieces

LEMMA LastSequenceIs ==
  ASSUME NEW f \in Seq(Pieces)
  PROVE  /\ LastSequence(f) \in 0..MaxEvents
         /\ WholeLines(f) # {} => \E i \in WholeLines(f) :
              LastSequence(f) = f[i].line.seq /\ \A j \in WholeLines(f) : j <= i
<1>1. CASE WholeLines(f) = {}
  BY <1>1, WalAssumption DEF LastSequence
<1>2. CASE WholeLines(f) # {}
  <2>1. WholeLines(f) \in SUBSET (1..Len(f)) /\ Len(f) \in Nat
    BY LenProperties DEF WholeLines
  <2>2. Max(WholeLines(f)) \in WholeLines(f) /\ \A j \in WholeLines(f) : j <= Max(WholeLines(f))
    BY <1>2, <2>1, HasMaximum
  <2>3. LastSequence(f) = f[Max(WholeLines(f))].line.seq
    BY <1>2 DEF LastSequence
  <2>4. f[Max(WholeLines(f))].line \in Lines
    BY <2>2, WholeLineIs
  <2>5. LastSequence(f) \in 1..MaxEvents
    BY <2>3, <2>4 DEF Lines
  <2> QED BY <2>2, <2>3, <2>5, WalAssumption
<1> QED BY <1>1, <1>2

-----------------------------------------------------------------------------
(* What the actions do to the file.                                          *)

LEMMA AppendedFile ==
  ASSUME TypeOK, NEW w \in Threads, AppendPieces(w)
  PROVE  \E k \in 1..(2 * Len(batch[w]) - written[w]) :
           /\ file' \in Seq(Pieces) /\ Len(file') = Len(file) + k
           /\ \A i \in 1..Len(file) : file'[i] = file[i]
           /\ \A i \in 1..k : file'[Len(file) + i] = Cut(batch[w])[written[w] + i]
           /\ written' = [written EXCEPT ![w] = written[w] + k]
<1>1. batch[w] \in Seq(Lines) /\ file \in Seq(Pieces) /\ written[w] \in Nat
  BY DEF TypeOK
<1>2. Len(batch[w]) \in Nat /\ Len(file) \in Nat
  BY <1>1, LenProperties
<1>3. PICK k \in 1..(2 * Len(batch[w]) - written[w]) :
        /\ file' = file \o SubSeq(Cut(batch[w]), written[w] + 1, written[w] + k)
        /\ written' = [written EXCEPT ![w] = written[w] + k]
  BY DEF AppendPieces
<1> DEFINE c == Cut(batch[w])  a == written[w]  n == Len(batch[w])
           s == SubSeq(c, a + 1, a + k)
<1>4. a \in Nat /\ n \in Nat /\ k \in 1..(2 * n - a)
  BY <1>1, <1>2
<1>5. c \in Seq(Pieces) /\ Len(c) = 2 * n
  BY <1>1, CutIs
<1> HIDE DEF c, a, n
<1>6. a + 1 \in Int /\ a + k \in Int /\ (a + k) - (a + 1) + 1 = k /\ a + 1 <= a + k
  BY <1>4
<1>7. \A i \in (a + 1)..(a + k) : c[i] \in Pieces
  <2>1. \A i \in (a + 1)..(a + k) : i \in 1..Len(c)
    BY <1>4, <1>5
  <2> QED BY <1>5, <2>1, ElementOfSeq
<1>8. s \in Seq(Pieces) /\ Len(s) = k /\ \A i \in 1..k : s[i] = c[(a + 1) + i - 1]
  BY <1>6, <1>7, SubSeqProperties
<1>9. \A i \in 1..k : (a + 1) + i - 1 = a + i
  BY <1>4
<1>10. file' = file \o s
  BY <1>3 DEF c, a
<1> HIDE DEF s
<1>11. /\ file' \in Seq(Pieces) /\ Len(file') = Len(file) + k
       /\ \A i \in 1..(Len(file) + k) :
            file'[i] = IF i <= Len(file) THEN file[i] ELSE s[i - Len(file)]
  BY <1>1, <1>8, <1>10, ConcatProperties
<1>12. \A i \in 1..Len(file) : file'[i] = file[i]
  BY <1>2, <1>4, <1>11
<1>13. \A i \in 1..k : file'[Len(file) + i] = c[a + i]
  <2> SUFFICES ASSUME NEW i \in 1..k PROVE file'[Len(file) + i] = c[a + i]
    OBVIOUS
  <2>1. Len(file) + i \in 1..(Len(file) + k) /\ ~(Len(file) + i <= Len(file))
        /\ Len(file) + i - Len(file) = i
    BY <1>2, <1>4
  <2> QED BY <1>8, <1>9, <1>11, <2>1
<1> QED BY <1>3, <1>11, <1>12, <1>13 DEF c, a

\* A piece of the longer file was there before, or is of a line of the batch.
LEMMA AppendedPiece ==
  ASSUME TypeOK, NEW w \in Threads, AppendPieces(w), NEW i \in 1..Len(file')
  PROVE  (i \in 1..Len(file) /\ file'[i] = file[i]) \/ file'[i].line \in ToSet(batch[w])
<1>1. batch[w] \in Seq(Lines) /\ Len(batch[w]) \in Nat /\ written[w] \in Nat /\ Len(file) \in Nat
  BY LenProperties DEF TypeOK
<1>2. PICK k \in 1..(2 * Len(batch[w]) - written[w]) :
        /\ Len(file') = Len(file) + k
        /\ \A j \in 1..Len(file) : file'[j] = file[j]
        /\ \A j \in 1..k : file'[Len(file) + j] = Cut(batch[w])[written[w] + j]
  BY AppendedFile
<1> DEFINE a == written[w]  n == Len(batch[w])  f == Len(file)
<1>3. a \in Nat /\ n \in Nat /\ f \in Nat /\ k \in 1..(2 * n - a) /\ i \in 1..(f + k)
  BY <1>1, <1>2
<1>4. CASE i \in 1..Len(file)
  BY <1>2, <1>4
<1>5. CASE i \notin 1..Len(file)
  <2> HIDE DEF a, n, f
  <2>1. i \notin 1..f
    BY <1>5 DEF f
  <2>2. i - f \in 1..k /\ f + (i - f) = i
    BY <1>3, <2>1
  <2>3. a + (i - f) \in 1..(2 * n)
    <3>1. i - f \in Int /\ 1 <= i - f /\ i - f <= 2 * n - a
      BY <1>3, <2>2
    <3> QED BY <1>3, <3>1
  <2>4. file'[i] = Cut(batch[w])[a + (i - f)]
    BY <1>2, <2>2 DEF a, f
  <2>5. a + (i - f) \in 1..(2 * Len(batch[w]))
    BY <2>3 DEF n
  <2> QED BY <1>1, <2>4, <2>5, PiecesOfLines
<1> QED BY <1>4, <1>5

LEMMA CutOffFile ==
  ASSUME TypeOK, NEW n \in synced..Len(file), file' = SubSeq(file, 1, n)
  PROVE  /\ n \in Nat /\ n <= Len(file) /\ file' \in Seq(Pieces) /\ Len(file') = n
         /\ \A i \in 1..n : file'[i] = file[i]
<1>1. file \in Seq(Pieces) /\ synced \in Nat /\ Len(file) \in Nat
  BY LenProperties DEF TypeOK
<1>2. n \in Nat /\ n <= Len(file) /\ n - 1 + 1 = n
  BY <1>1
<1>3. \A i \in 1..n : file[i] \in Pieces
  <2>1. \A i \in 1..n : i \in 1..Len(file)
    BY <1>1, <1>2
  <2> QED BY <1>1, <2>1, ElementOfSeq
<1>4. /\ SubSeq(file, 1, n) \in Seq(Pieces) /\ Len(SubSeq(file, 1, n)) = IF 1 <= n THEN n - 1 + 1 ELSE 0
      /\ \A i \in 1..(n - 1 + 1) : SubSeq(file, 1, n)[i] = file[1 + i - 1]
  BY <1>2, <1>3, SubSeqProperties
<1>5. \A i \in 1..n : 1 + i - 1 = i
  BY <1>2
<1>6. (IF 1 <= n THEN n - 1 + 1 ELSE 0) = n
  BY <1>2
<1> QED BY <1>2, <1>4, <1>5, <1>6

-----------------------------------------------------------------------------
(* Types.                                                                    *)

\* The line that Write numbers.
NewLine == [seq |-> seq + 1, process |-> crashes]

LEMMA WriteIs ==
  ASSUME TypeOK, NEW w \in Writers, Write(w)
  PROVE  /\ w \in Threads /\ NewLine \in Lines
         /\ Append(buffer, NewLine) \in Seq(Lines)
         /\ \/ Take(w, Append(buffer, NewLine))
            \/ buffer' = Append(buffer, NewLine) /\ UNCHANGED <<batch, overlapped>>
<1>1. NewLine \in Lines
  <2>1. seq + 1 \in 1..MaxEvents /\ crashes \in 0..MaxCrashes
    BY WalAssumption DEF Write, TypeOK
  <2> QED BY <2>1 DEF NewLine, Lines
<1>2. Append(buffer, NewLine) \in Seq(Lines)
  BY <1>1, AppendProperties DEF TypeOK
<1> QED BY <1>1, <1>2 DEF Write, NewLine, Threads

LEMMA TakeTypes ==
  ASSUME TypeOK, NEW w \in Threads, NEW lines \in Seq(Lines), Idle(w), Take(w, lines),
         written' = written
  PROVE  /\ buffer' \in Seq(Lines) /\ batch' \in [Threads -> Seq(Lines)]
         /\ overlapped' \in BOOLEAN
         /\ \A v \in Threads : written'[v] <= 2 * Len(batch'[v])
<1>1. buffer' \in Seq(Lines) /\ batch' \in [Threads -> Seq(Lines)] /\ overlapped' \in BOOLEAN
  BY DEF TypeOK, Take
<1>2. written[w] = 0
  <2>1. written[w] \in Nat /\ written[w] <= 2 * Len(<<>>)
    BY DEF TypeOK, Idle
  <2> QED BY <2>1
<1>3. Len(lines) \in Nat /\ batch'[w] = lines
  BY LenProperties DEF Take, TypeOK
<1>4. \A v \in Threads : v # w => batch'[v] = batch[v]
  BY DEF Take, TypeOK
<1>5. written'[w] <= 2 * Len(batch'[w])
  BY <1>2, <1>3
<1> QED BY <1>1, <1>4, <1>5 DEF TypeOK

LEMMA ReleaseTypes ==
  ASSUME TypeOK, NEW w \in Threads, Release(w)
  PROVE  /\ batch' \in [Threads -> Seq(Lines)] /\ written' \in [Threads -> Nat]
         /\ batch'[w] = <<>> /\ written'[w] = 0
         /\ \A v \in Threads : v # w => batch'[v] = batch[v] /\ written'[v] = written[v]
         /\ \A v \in Threads : written'[v] <= 2 * Len(batch'[v])
<1>1. batch' \in [Threads -> Seq(Lines)] /\ written' \in [Threads -> Nat]
  BY DEF TypeOK, Release
<1>2. batch'[w] = <<>> /\ written'[w] = 0
  BY DEF TypeOK, Release
<1>3. \A v \in Threads : v # w => batch'[v] = batch[v] /\ written'[v] = written[v]
  BY DEF TypeOK, Release
<1>4. written'[w] <= 2 * Len(batch'[w])
  <2>1. 0 <= 2 * Len(<<>>)
    OBVIOUS
  <2> QED BY <1>2, <2>1
<1> QED BY <1>1, <1>2, <1>3, <1>4 DEF TypeOK

LEMMA InitTypeOK == Init => TypeOK
<1> SUFFICES ASSUME Init PROVE TypeOK
  OBVIOUS
<1>1. <<>> \in Seq(Lines) /\ <<>> \in Seq(Pieces) /\ Len(<<>>) = 0
  OBVIOUS
<1>2. batch \in [Threads -> Seq(Lines)] /\ written \in [Threads -> Nat]
  BY <1>1 DEF Init
<1>3. \A w \in Threads : written[w] <= 2 * Len(batch[w])
  <2>1. 0 <= 2 * Len(<<>>)
    OBVIOUS
  <2> QED BY <2>1 DEF Init
<1>4. seq \in 0..MaxEvents /\ base \in 0..seq /\ faults \in 0..MaxFaults /\ crashes \in 0..MaxCrashes
  BY WalAssumption DEF Init
<1>5. synced \in 0..Len(file)
  BY <1>1 DEF Init
<1> QED BY <1>1, <1>2, <1>3, <1>4, <1>5 DEF Init, TypeOK

LEMMA BatchIsLines ==
  ASSUME TypeOK, NEW w \in Threads
  PROVE  ToSet(batch[w]) \subseteq Lines
<1>1. batch[w] \in Seq(Lines)
  BY DEF TypeOK
<1>2. \A i \in DOMAIN batch[w] : batch[w][i] \in Lines
  BY <1>1
<1> QED BY <1>2 DEF ToSet

LEMMA NextTypeOK ==
  ASSUME TypeOK, [Next]_vars
  PROVE  TypeOK'
<1>0. /\ seq \in 0..MaxEvents /\ base \in 0..seq /\ Len(file) \in Nat /\ synced \in 0..Len(file)
      /\ file \in Seq(Pieces)
  BY LenProperties DEF TypeOK
<1>1. ASSUME NEW w \in Writers, Write(w) PROVE TypeOK'
  <2>1. seq' \in 0..MaxEvents /\ base' \in 0..seq'
    BY <1>0, <1>1, WalAssumption DEF Write
  <2>2. UNCHANGED <<written, file, synced, acked, dropped, base, faults, crashes>> /\ Idle(w)
    BY <1>1 DEF Write
  <2>3. CASE Take(w, Append(buffer, NewLine))
    BY <1>1, <2>1, <2>2, <2>3, WriteIs, TakeTypes DEF TypeOK
  <2>4. CASE buffer' = Append(buffer, NewLine) /\ UNCHANGED <<batch, overlapped>>
    BY <1>1, <2>1, <2>2, <2>4, WriteIs DEF TypeOK
  <2> QED BY <1>1, <2>3, <2>4, WriteIs
<1>2. CASE Flush
  <2>1. Main \in Threads /\ Idle(Main) /\ Take(Main, buffer)
    BY <1>2 DEF Flush, Threads
  <2>2. UNCHANGED <<seq, written, file, synced, acked, dropped, base, faults, crashes>>
    BY <1>2 DEF Flush
  <2> QED BY <2>1, <2>2, TakeTypes DEF TypeOK
<1>3. ASSUME NEW w \in Threads, AppendPieces(w) PROVE TypeOK'
  <2>1. PICK k \in 1..(2 * Len(batch[w]) - written[w]) :
          /\ file' \in Seq(Pieces) /\ Len(file') = Len(file) + k
          /\ written' = [written EXCEPT ![w] = written[w] + k]
    BY <1>3, AppendedFile
  <2>2. UNCHANGED <<seq, buffer, batch, synced, acked, dropped, base, overlapped, faults, crashes>>
    BY <1>3 DEF AppendPieces
  <2>3. written[w] \in Nat /\ Len(batch[w]) \in Nat
    BY LenProperties DEF TypeOK
  <2>4. k \in Nat /\ written[w] + k \in Nat /\ written[w] + k <= 2 * Len(batch[w])
    BY <2>3
  <2>5. written' \in [Threads -> Nat] /\ \A v \in Threads : written'[v] <= 2 * Len(batch'[v])
    BY <2>1, <2>2, <2>4 DEF TypeOK
  <2>6. synced' \in 0..Len(file')
    BY <1>0, <2>1, <2>2, <2>4
  <2> QED BY <2>1, <2>2, <2>5, <2>6 DEF TypeOK
<1>4. ASSUME NEW w \in Threads, Sync(w) PROVE TypeOK'
  <2>1. UNCHANGED <<seq, buffer, file, dropped, base, overlapped, faults, crashes>> /\ Release(w)
    BY <1>4 DEF Sync
  <2>2. acked' \subseteq Lines
    BY <1>4, BatchIsLines DEF Sync, TypeOK
  <2>3. synced' \in 0..Len(file')
    BY <1>0, <1>4, <2>1 DEF Sync
  <2> QED BY <2>1, <2>2, <2>3, ReleaseTypes DEF TypeOK
<1>5. ASSUME NEW w \in Threads, FailAppend(w) PROVE TypeOK'
  <2>1. UNCHANGED <<seq, file, synced, acked, dropped, base, overlapped, crashes>> /\ Release(w)
    BY <1>5 DEF FailAppend
  <2>2. buffer' \in Seq(Lines)
    <3>1. batch[w] \in Seq(Lines) /\ buffer \in Seq(Lines)
      BY DEF TypeOK
    <3> QED BY <1>5, <3>1, ConcatProperties DEF FailAppend, Rebuffered
  <2>3. faults' \in 0..MaxFaults
    BY <1>5, WalAssumption DEF FailAppend, TypeOK
  <2> QED BY <2>1, <2>2, <2>3, ReleaseTypes DEF TypeOK
<1>6. CASE CrashAndReopen
  <2>1. PICK n \in synced..Len(file) : file' = SubSeq(file, 1, n) /\ synced' = n
    BY <1>6 DEF CrashAndReopen
  <2>2. n \in Nat /\ file' \in Seq(Pieces) /\ Len(file') = n
    BY <2>1, CutOffFile
  <2>3. synced' \in 0..Len(file')
    BY <2>1, <2>2
  <2>4. seq' \in {LastSequence(file'), 0} /\ base' = seq' /\ UNCHANGED <<acked, dropped, overlapped>>
    BY <1>6 DEF CrashAndReopen
  <2>5. seq' \in 0..MaxEvents /\ base' \in 0..seq'
    BY <2>2, <2>4, LastSequenceIs, WalAssumption
  <2>10. faults' \in 0..MaxFaults
    BY <1>6, WalAssumption DEF CrashAndReopen, TypeOK
  <2>6. crashes' \in 0..MaxCrashes
    BY <1>6, WalAssumption DEF CrashAndReopen, TypeOK
  <2>7. <<>> \in Seq(Lines) /\ 0 <= 2 * Len(<<>>)
    OBVIOUS
  <2>8. batch' = [w \in Threads |-> <<>>] /\ written' = [w \in Threads |-> 0] /\ buffer' = <<>>
    BY <1>6 DEF CrashAndReopen
  <2>9. /\ batch' \in [Threads -> Seq(Lines)] /\ written' \in [Threads -> Nat]
        /\ \A w \in Threads : written'[w] <= 2 * Len(batch'[w])
    BY <2>7, <2>8
  <2> QED BY <2>2, <2>3, <2>4, <2>5, <2>6, <2>7, <2>8, <2>9, <2>10 DEF TypeOK
<1>7. CASE UNCHANGED vars
  BY <1>7 DEF vars, TypeOK
<1>8. ASSUME NEW w \in Threads, DropBatch(w) PROVE TypeOK'
  <2>1. UNCHANGED <<seq, buffer, file, synced, acked, base, overlapped, crashes>> /\ Release(w)
    BY <1>8 DEF DropBatch
  <2>2. dropped' \subseteq Lines
    BY <1>8, BatchIsLines DEF DropBatch, TypeOK
  <2>3. faults' \in 0..MaxFaults
    BY <1>8, WalAssumption DEF DropBatch, TypeOK
  <2> QED BY <2>1, <2>2, <2>3, ReleaseTypes DEF TypeOK
<1> QED BY <1>1, <1>2, <1>3, <1>4, <1>5, <1>6, <1>7, <1>8 DEF Next

-----------------------------------------------------------------------------
(* Where the lines are.                                                      *)

LEMMA ToSetAppend ==
  ASSUME NEW b \in Seq(Lines), NEW l \in Lines
  PROVE  /\ ToSet(Append(b, l)) = ToSet(b) \union {l}
         /\ Distinct(b) /\ l \notin ToSet(b) => Distinct(Append(b, l))
<1> DEFINE c == Append(b, l)  n == Len(b)
<1>1. n \in Nat /\ DOMAIN b = 1..n
  BY LenProperties
<1>2. DOMAIN c = 1..(n + 1) /\ (\A i \in 1..n : c[i] = b[i]) /\ c[n + 1] = l
  <2>1. c \in Seq(Lines) /\ Len(c) = n + 1 /\ (\A i \in 1..n : c[i] = b[i]) /\ c[n + 1] = l
    BY AppendProperties
  <2> QED BY <2>1, LenProperties
<1> HIDE DEF c, n
<1>3. \A i \in 1..(n + 1) : i \in 1..n \/ i = n + 1
  BY <1>1
<1>4. \A i \in 1..n : i \in 1..(n + 1)
  BY <1>1
<1>5. n + 1 \in 1..(n + 1)
  BY <1>1
<1>6. ToSet(c) = ToSet(b) \union {l}
  BY <1>1, <1>2, <1>3, <1>4, <1>5 DEF ToSet
<1>7. Distinct(b) /\ l \notin ToSet(b) => Distinct(c)
  BY <1>1, <1>2, <1>3 DEF ToSet, Distinct
<1> QED BY <1>6, <1>7 DEF c

LEMMA ToSetConcat ==
  ASSUME NEW a \in Seq(Lines), NEW b \in Seq(Lines)
  PROVE  /\ ToSet(a \o b) = ToSet(a) \union ToSet(b)
         /\ Distinct(a) /\ Distinct(b) /\ ToSet(a) \intersect ToSet(b) = {} => Distinct(a \o b)
<1> DEFINE c == a \o b  m == Len(a)  n == Len(b)
<1>1. m \in Nat /\ n \in Nat /\ DOMAIN a = 1..m /\ DOMAIN b = 1..n
  BY LenProperties
<1>2. DOMAIN c = 1..(m + n) /\ \A i \in 1..(m + n) : c[i] = IF i <= m THEN a[i] ELSE b[i - m]
  <2>1. /\ c \in Seq(Lines) /\ Len(c) = m + n
        /\ \A i \in 1..(m + n) : c[i] = IF i <= m THEN a[i] ELSE b[i - m]
    BY ConcatProperties
  <2> QED BY <2>1, LenProperties
<1> HIDE DEF c, m, n
<1>3. \A i \in 1..m : i \in 1..(m + n) /\ c[i] = a[i]
  BY <1>1, <1>2
<1>4. \A i \in 1..n : m + i \in 1..(m + n) /\ c[m + i] = b[i]
  <2> SUFFICES ASSUME NEW i \in 1..n PROVE m + i \in 1..(m + n) /\ c[m + i] = b[i]
    OBVIOUS
  <2>1. m + i \in 1..(m + n) /\ ~(m + i <= m) /\ (m + i) - m = i
    BY <1>1
  <2> QED BY <1>2, <2>1
<1>5. \A i \in 1..(m + n) : \/ i \in 1..m /\ c[i] = a[i]
                            \/ i - m \in 1..n /\ c[i] = b[i - m]
  BY <1>1, <1>2
<1>6. ToSet(c) = ToSet(a) \union ToSet(b)
  <2>1. \A x \in ToSet(c) : x \in ToSet(a) \union ToSet(b)
    BY <1>1, <1>2, <1>5 DEF ToSet
  <2>2. \A x \in ToSet(a) : x \in ToSet(c)
    BY <1>1, <1>2, <1>3 DEF ToSet
  <2>3. \A x \in ToSet(b) : x \in ToSet(c)
    BY <1>1, <1>2, <1>4 DEF ToSet
  <2> QED BY <2>1, <2>2, <2>3
<1>7. ASSUME Distinct(a), Distinct(b), ToSet(a) \intersect ToSet(b) = {},
             NEW i \in 1..(m + n), NEW j \in 1..(m + n), c[i] = c[j]
      PROVE  i = j
  <2>1. i - m = j - m => i = j
    BY <1>1
  <2>2. ~(\E k \in 1..m, l \in 1..n : a[k] = b[l])
    BY <1>1, <1>7 DEF ToSet
  <2>3. \A k, l \in 1..m : a[k] = a[l] => k = l
    BY <1>1, <1>7 DEF Distinct
  <2>4. \A k, l \in 1..n : b[k] = b[l] => k = l
    BY <1>1, <1>7 DEF Distinct
  <2> QED BY <1>5, <1>7, <2>1, <2>2, <2>3, <2>4
<1>8. Distinct(a) /\ Distinct(b) /\ ToSet(a) \intersect ToSet(b) = {} => Distinct(c)
  BY <1>2, <1>7 DEF Distinct
<1> QED BY <1>6, <1>8 DEF c

LEMMA NothingInEmpty == ToSet(<<>>) = {} /\ Distinct(<<>>)
BY DEF ToSet, Distinct

\* A new line goes into the buffer.
LEMMA AppendedPlaced ==
  ASSUME NEW b \in Seq(Lines), NEW h, NEW a, NEW num, NEW l \in Lines,
         Placed(b, h, a, num), l \notin num, l \notin a
  PROVE  Placed(Append(b, l), h, a, num \union {l})
<1>1. l \notin ToSet(b) /\ \A w \in Threads : l \notin ToSet(h[w])
  BY DEF Placed, Own
<1>2. ToSet(Append(b, l)) = ToSet(b) \union {l} /\ Distinct(Append(b, l))
  BY <1>1, ToSetAppend DEF Placed, OnePlace
<1>3. Own(Append(b, l), h, num \union {l}) /\ SomePlace(Append(b, l), h, a, num \union {l})
  BY <1>2 DEF Placed, Own, SomePlace
<1>4. OnePlace(Append(b, l), h, a)
  BY <1>1, <1>2 DEF Placed, OnePlace
<1> QED BY <1>3, <1>4 DEF Placed

\* The buffer goes into an idle thread's hands.
LEMMA HandedOverPlaced ==
  ASSUME NEW b, NEW h \in [Threads -> Seq(Lines)], NEW a, NEW num, NEW w \in Threads,
         h[w] = <<>>, Placed(b, h, a, num)
  PROVE  Placed(<<>>, [h EXCEPT ![w] = b], a, num)
<1> DEFINE g == [h EXCEPT ![w] = b]
<1>1. g[w] = b /\ \A v \in Threads : v # w => g[v] = h[v]
  OBVIOUS
<1> HIDE DEF g
<1>2. Own(<<>>, g, num)
  BY <1>1, NothingInEmpty DEF Placed, Own
<1>3. SomePlace(<<>>, g, a, num)
  <2> SUFFICES ASSUME NEW e \in num PROVE e \in a \/ \E v \in Threads : e \in ToSet(g[v])
    BY DEF SomePlace
  <2>1. CASE e \in ToSet(b)
    BY <1>1, <2>1
  <2>2. ASSUME NEW v \in Threads, e \in ToSet(h[v]) PROVE \E u \in Threads : e \in ToSet(g[u])
    BY <1>1, <2>2, NothingInEmpty
  <2> QED BY <2>1, <2>2 DEF Placed, SomePlace
<1>4. OnePlace(<<>>, g, a)
  BY <1>1, NothingInEmpty DEF Placed, OnePlace
<1> QED BY <1>2, <1>3, <1>4 DEF Placed, g

\* A batch is acknowledged, or dropped.
LEMMA AcknowledgedPlaced ==
  ASSUME NEW b, NEW h \in [Threads -> Seq(Lines)], NEW a, NEW num, NEW w \in Threads,
         Placed(b, h, a, num)
  PROVE  Placed(b, [h EXCEPT ![w] = <<>>], a \union ToSet(h[w]), num)
<1> DEFINE g == [h EXCEPT ![w] = <<>>]
<1>1. g[w] = <<>> /\ \A v \in Threads : v # w => g[v] = h[v]
  OBVIOUS
<1> HIDE DEF g
<1>2. Own(b, g, num)
  BY <1>1, NothingInEmpty DEF Placed, Own
<1>3. SomePlace(b, g, a \union ToSet(h[w]), num)
  BY <1>1 DEF Placed, SomePlace
<1>4. OnePlace(b, g, a \union ToSet(h[w]))
  BY <1>1, NothingInEmpty DEF Placed, OnePlace
<1> QED BY <1>2, <1>3, <1>4 DEF Placed, g

\* A batch goes back into the buffer.
LEMMA GivenBackPlaced ==
  ASSUME NEW b \in Seq(Lines), NEW h \in [Threads -> Seq(Lines)], NEW a, NEW num,
         NEW w \in Threads, Placed(b, h, a, num)
  PROVE  Placed(h[w] \o b, [h EXCEPT ![w] = <<>>], a, num)
<1> DEFINE g == [h EXCEPT ![w] = <<>>]
<1>1. g[w] = <<>> /\ \A v \in Threads : v # w => g[v] = h[v]
  OBVIOUS
<1>2. ToSet(h[w] \o b) = ToSet(h[w]) \union ToSet(b) /\ Distinct(h[w] \o b)
  <2>1. h[w] \in Seq(Lines) /\ Distinct(h[w]) /\ Distinct(b) /\ ToSet(h[w]) \intersect ToSet(b) = {}
    BY DEF Placed, OnePlace
  <2> QED BY <2>1, ToSetConcat
<1> HIDE DEF g
<1>3. Own(h[w] \o b, g, num)
  BY <1>1, <1>2, NothingInEmpty DEF Placed, Own
<1>4. SomePlace(h[w] \o b, g, a, num)
  BY <1>1, <1>2 DEF Placed, SomePlace
<1>5. OnePlace(h[w] \o b, g, a)
  BY <1>1, <1>2, NothingInEmpty DEF Placed, OnePlace
<1> QED BY <1>3, <1>4, <1>5 DEF Placed, g

LEMMA InitPlaced == Init => LinesArePlaced
<1> SUFFICES ASSUME Init PROVE LinesArePlaced
  OBVIOUS
<1>1. Numbered = {}
  BY DEF Init, Numbered, Lines
<1> QED BY <1>1, NothingInEmpty DEF Init, LinesArePlaced, Gone, GoneIsPast, Placed, Own, OnePlace, SomePlace

LEMMA WriteNumbers ==
  ASSUME TypeOK, GoneIsPast, NEW w \in Writers, Write(w)
  PROVE  /\ Numbered' = Numbered \union {NewLine} /\ NewLine \notin Numbered
         /\ NewLine \notin Gone
<1>1. seq' = seq + 1 /\ UNCHANGED <<base, crashes>>
  BY DEF Write
<1>2. seq \in Int /\ base \in Int /\ base <= seq
  BY WalAssumption DEF TypeOK
<1>3. NewLine \in Lines /\ NewLine.seq = seq + 1 /\ NewLine.process = crashes
  BY WriteIs DEF NewLine
<1>4. \A l \in Lines : l.process = crashes /\ l.seq = seq + 1 => l = NewLine
  BY DEF NewLine, Lines
<1>5. \A l \in Lines : l.seq \in Int
  BY DEF Lines
<1>6. NewLine \notin Numbered
  BY <1>2, <1>3 DEF Numbered
<1>7. NewLine \notin Gone
  BY <1>2, <1>3 DEF GoneIsPast
<1>8. \A l \in Lines : l.seq <= seq + 1 <=> l.seq <= seq \/ l.seq = seq + 1
  BY <1>2, <1>5
<1>9. Numbered' = {l \in Lines : l.process = crashes /\ l.seq > base /\ l.seq <= seq + 1}
  BY <1>1 DEF Numbered
<1>10. seq + 1 > base
  BY <1>2
<1> QED BY <1>3, <1>4, <1>6, <1>7, <1>8, <1>9, <1>10 DEF Numbered

LEMMA NextPlaced ==
  ASSUME TypeOK, LinesArePlaced, [Next]_vars
  PROVE  LinesArePlaced'
<1>0. /\ Placed(buffer, batch, Gone, Numbered) /\ GoneIsPast /\ acked \intersect dropped = {}
      /\ buffer \in Seq(Lines) /\ batch \in [Threads -> Seq(Lines)]
      /\ seq \in Int /\ crashes \in Int /\ \A e \in Gone : e.seq \in Int /\ e.process \in Int
  <2>1. seq \in Int /\ crashes \in Int
    BY DEF TypeOK
  <2>2. \A e \in Lines : e.seq \in Int /\ e.process \in Int
    BY DEF Lines
  <2>3. Gone \subseteq Lines /\ buffer \in Seq(Lines) /\ batch \in [Threads -> Seq(Lines)]
    BY DEF TypeOK, Gone
  <2> QED BY <2>1, <2>2, <2>3 DEF LinesArePlaced
<1>1. ASSUME NEW w \in Writers, Write(w) PROVE LinesArePlaced'
  <2> DEFINE lines == Append(buffer, NewLine)
  <2>1. /\ NewLine \in Lines /\ w \in Threads /\ batch[w] = <<>>
        /\ \/ Take(w, lines)
           \/ buffer' = lines /\ UNCHANGED batch
    BY <1>1, WriteIs DEF Write, Idle
  <2>2. Placed(lines, batch, Gone, Numbered')
    BY <1>0, <1>1, <2>1, AppendedPlaced, WriteNumbers
  <2>3. Gone' = Gone /\ seq' = seq + 1 /\ crashes' = crashes
    BY <1>1 DEF Write, Gone
  <2> HIDE DEF lines
  <2>4. Placed(buffer', batch', Gone', Numbered')
    <3>1. CASE Take(w, lines)
      BY <1>0, <2>1, <2>2, <2>3, <3>1, HandedOverPlaced DEF Take
    <3>2. CASE buffer' = lines /\ UNCHANGED batch
      BY <2>2, <2>3, <3>2
    <3> QED BY <2>1, <3>1, <3>2
  <2>5. GoneIsPast'
    BY <1>0, <2>3 DEF GoneIsPast
  <2> QED BY <1>0, <1>1, <2>4, <2>5 DEF Write, LinesArePlaced
<1>2. CASE Flush
  <2>1. Main \in Threads /\ batch[Main] = <<>> /\ Take(Main, buffer)
    BY <1>2 DEF Flush, Threads, Idle
  <2>2. UNCHANGED <<seq, base, crashes, acked, dropped>> /\ Gone' = Gone
    BY <1>2 DEF Flush, Gone
  <2>3. Placed(buffer', batch', Gone', Numbered')
    BY <1>0, <2>1, <2>2, HandedOverPlaced DEF Take, Numbered
  <2>4. GoneIsPast'
    BY <1>0, <2>2 DEF GoneIsPast
  <2> QED BY <1>0, <2>2, <2>3, <2>4 DEF LinesArePlaced
<1>3. ASSUME NEW w \in Threads, AppendPieces(w) PROVE LinesArePlaced'
  BY <1>0, <1>3 DEF AppendPieces, LinesArePlaced, Gone, GoneIsPast, Numbered
<1>4. ASSUME NEW w \in Threads, Sync(w) PROVE LinesArePlaced'
  <2>1. /\ acked' = acked \union ToSet(batch[w]) /\ batch' = [batch EXCEPT ![w] = <<>>]
        /\ UNCHANGED <<seq, buffer, dropped, base, crashes>>
    BY <1>4 DEF Sync, Release
  <2>2. Gone' = Gone \union ToSet(batch[w]) /\ ToSet(batch[w]) \intersect Gone = {}
    BY <1>0, <2>1 DEF Gone, Placed, OnePlace
  <2>3. Placed(buffer', batch', Gone', Numbered')
    BY <1>0, <2>1, <2>2, AcknowledgedPlaced DEF Numbered
  <2>4. GoneIsPast'
    BY <1>0, <2>1, <2>2 DEF GoneIsPast, Placed, Own, Numbered
  <2> QED BY <1>0, <2>1, <2>2, <2>3, <2>4 DEF LinesArePlaced, Gone
<1>5. ASSUME NEW w \in Threads, FailAppend(w) PROVE LinesArePlaced'
  <2>1. /\ buffer' = batch[w] \o buffer /\ batch' = [batch EXCEPT ![w] = <<>>]
        /\ UNCHANGED <<seq, base, crashes, acked, dropped>> /\ Gone' = Gone
    BY <1>5 DEF FailAppend, Release, Rebuffered, Gone
  <2>2. Placed(buffer', batch', Gone', Numbered')
    BY <1>0, <2>1, GivenBackPlaced DEF Numbered
  <2>3. GoneIsPast'
    BY <1>0, <2>1 DEF GoneIsPast
  <2> QED BY <1>0, <2>1, <2>2, <2>3 DEF LinesArePlaced
<1>6. CASE CrashAndReopen
  <2>1. /\ base' = seq' /\ crashes' = crashes + 1 /\ UNCHANGED <<acked, dropped>> /\ buffer' = <<>>
        /\ batch' = [w \in Threads |-> <<>>] /\ Gone' = Gone
    BY <1>6 DEF CrashAndReopen, Gone
  <2>2. Numbered' = {}
    <3>1. seq' \in Int
      BY <1>6, NextTypeOK, WalAssumption DEF TypeOK, Next
    <3>2. \A l \in Lines : l.seq \in Int
      BY DEF Lines
    <3> QED BY <2>1, <3>1, <3>2 DEF Numbered
  <2>3. Placed(buffer', batch', Gone', Numbered')
    BY <2>1, <2>2, NothingInEmpty DEF Placed, Own, OnePlace, SomePlace
  <2>4. GoneIsPast'
    BY <1>0, <2>1 DEF GoneIsPast
  <2> QED BY <1>0, <2>1, <2>3, <2>4 DEF LinesArePlaced
<1>7. CASE UNCHANGED vars
  BY <1>0, <1>7 DEF vars, LinesArePlaced, Gone, GoneIsPast, Numbered
<1>8. ASSUME NEW w \in Threads, DropBatch(w) PROVE LinesArePlaced'
  <2>1. /\ dropped' = dropped \union ToSet(batch[w]) /\ batch' = [batch EXCEPT ![w] = <<>>]
        /\ UNCHANGED <<seq, buffer, acked, base, crashes>>
    BY <1>8 DEF DropBatch, Release
  <2>2. Gone' = Gone \union ToSet(batch[w]) /\ ToSet(batch[w]) \intersect Gone = {}
    BY <1>0, <2>1 DEF Gone, Placed, OnePlace
  <2>3. Placed(buffer', batch', Gone', Numbered')
    BY <1>0, <2>1, <2>2, AcknowledgedPlaced DEF Numbered
  <2>4. GoneIsPast'
    BY <1>0, <2>1, <2>2 DEF GoneIsPast, Placed, Own, Numbered
  <2> QED BY <1>0, <2>1, <2>2, <2>3, <2>4 DEF LinesArePlaced, Gone
<1> QED BY <1>1, <1>2, <1>3, <1>4, <1>5, <1>6, <1>7, <1>8 DEF Next

-----------------------------------------------------------------------------
(* What is in the file.                                                      *)

\* Everything that was written out is in the file, both pieces of every line.
LEMMA BothPiecesWritten ==
  ASSUME TypeOK, WrittenIsInFile, NEW w \in Threads, WrittenOut(w),
         NEW e \in ToSet(batch[w]), NEW b \in BOOLEAN
  PROVE  \E i \in 1..Len(file) : file[i] = [line |-> e, last |-> b]
<1>1. batch[w] \in Seq(Lines) /\ Len(batch[w]) \in Nat /\ written[w] = 2 * Len(batch[w])
  BY LenProperties DEF TypeOK, WrittenOut
<1>2. PICK m \in 1..Len(batch[w]) : batch[w][m] = e
  BY <1>1 DEF ToSet
<1> DEFINE k == IF b THEN 2 * m ELSE 2 * m - 1
<1>3. k \in 1..written[w] /\ (k + 1) \div 2 = m /\ (k % 2 = 0) = b
  <2> DEFINE n == Len(batch[w])
  <2>1. n \in Nat /\ m \in 1..n /\ written[w] = 2 * n
    BY <1>1
  <2> HIDE DEF n
  <2>2. CASE b
    <3>1. 2 * m \in 1..(2 * n) /\ (2 * m + 1) \div 2 = m /\ (2 * m) % 2 = 0
      BY <2>1
    <3> QED BY <2>1, <2>2, <3>1
  <2>3. CASE ~b
    <3>1. 2 * m - 1 \in 1..(2 * n) /\ (2 * m - 1 + 1) \div 2 = m /\ (2 * m - 1) % 2 # 0
      BY <2>1
    <3> QED BY <2>1, <2>3, <3>1
  <2> QED BY <2>2, <2>3
<1> HIDE DEF k
<1>4. Cut(batch[w])[k] = [line |-> e, last |-> b]
  BY <1>1, <1>2, <1>3, CutIs
<1> QED BY <1>3, <1>4 DEF WrittenIsInFile

LEMMA NextWritten ==
  ASSUME TypeOK, WrittenIsInFile, [Next]_vars
  PROVE  WrittenIsInFile'
<1>0. /\ batch \in [Threads -> Seq(Lines)] /\ written \in [Threads -> Nat] /\ Len(file) \in Nat
      /\ file \in Seq(Pieces)
  BY LenProperties DEF TypeOK
<1>1. ASSUME NEW w \in Threads, NEW lines, Idle(w), UNCHANGED <<file, written>>,
             batch' = [batch EXCEPT ![w] = lines]
      PROVE  WrittenIsInFile'
  <2>1. written[w] = 0
    <3>1. written[w] <= 2 * Len(<<>>)
      BY <1>1 DEF TypeOK, Idle
    <3> QED BY <1>0, <3>1
  <2>2. \A v \in Threads : v # w => batch'[v] = batch[v]
    BY <1>0, <1>1
  <2>3. \A v \in Threads : \A k \in 1..written[v] : batch'[v] = batch[v]
    BY <2>1, <2>2
  <2> QED BY <1>1, <2>3 DEF WrittenIsInFile
<1>2. ASSUME NEW w \in Writers, Write(w) PROVE WrittenIsInFile'
  <2>1. UNCHANGED <<file, written>> /\ Idle(w) /\ w \in Threads
    BY <1>2 DEF Write, Threads
  <2>2. CASE Take(w, Append(buffer, NewLine))
    BY <1>1, <2>1, <2>2 DEF Take
  <2>3. CASE UNCHANGED batch
    BY <2>1, <2>3 DEF WrittenIsInFile
  <2> QED BY <1>2, <2>2, <2>3, WriteIs
<1>3. CASE Flush
  BY <1>1, <1>3 DEF Flush, Take, Threads
<1>4. ASSUME NEW w \in Threads, AppendPieces(w) PROVE WrittenIsInFile'
  <2>1. PICK n \in 1..(2 * Len(batch[w]) - written[w]) :
          /\ Len(file') = Len(file) + n
          /\ \A i \in 1..Len(file) : file'[i] = file[i]
          /\ \A i \in 1..n : file'[Len(file) + i] = Cut(batch[w])[written[w] + i]
          /\ written' = [written EXCEPT ![w] = written[w] + n]
    BY <1>4, AppendedFile
  <2>2. batch' = batch
    BY <1>4 DEF AppendPieces
  <2>3. n \in Nat
    <3>1. Len(batch[w]) \in Nat /\ written[w] \in Nat
      BY <1>0, LenProperties
    <3> QED BY <3>1
  <2>4. \A i \in 1..Len(file) : i \in 1..Len(file')
    BY <1>0, <2>1, <2>3
  <2> SUFFICES ASSUME NEW v \in Threads, NEW k \in 1..written'[v]
               PROVE  \E i \in 1..Len(file') : file'[i] = Cut(batch[v])[k]
    BY <2>2 DEF WrittenIsInFile
  <2>5. CASE k \in 1..written[v]
    <3>1. PICK i \in 1..Len(file) : file[i] = Cut(batch[v])[k]
      BY <2>5 DEF WrittenIsInFile
    <3> QED BY <2>1, <2>4, <3>1
  <2>6. CASE k \notin 1..written[v]
    <3>1. v = w /\ k \in 1..(written[w] + n) /\ written[w] \in Nat
      BY <1>0, <2>1, <2>6
    <3>2. k - written[w] \in 1..n /\ written[w] + (k - written[w]) = k
      BY <2>3, <2>6, <3>1
    <3>3. Len(file) + (k - written[w]) \in 1..Len(file')
      <4>1. Len(file) \in Nat /\ Len(file') = Len(file) + n
        BY <1>0, <2>1
      <4>2. k - written[w] \in 1..n
        BY <3>2
      <4> QED BY <2>3, <4>1, <4>2
    <3>4. file'[Len(file) + (k - written[w])] = Cut(batch[w])[k]
      BY <2>1, <3>2
    <3> QED BY <3>1, <3>3, <3>4
  <2> QED BY <2>5, <2>6
<1>5. ASSUME NEW w \in Threads, Sync(w) \/ FailAppend(w) \/ DropBatch(w) PROVE WrittenIsInFile'
  <2>1. Release(w) /\ file' = file
    BY <1>5 DEF Sync, FailAppend, DropBatch
  <2>2. \A v \in Threads : \A k \in 1..written'[v] :
          v # w /\ batch'[v] = batch[v] /\ k \in 1..written[v]
    BY <2>1, ReleaseTypes
  <2> QED BY <2>1, <2>2 DEF WrittenIsInFile
<1>6. CASE CrashAndReopen
  BY <1>6 DEF CrashAndReopen, WrittenIsInFile
<1>7. CASE UNCHANGED vars
  BY <1>7 DEF vars, WrittenIsInFile
<1> QED BY <1>2, <1>3, <1>4, <1>5, <1>6, <1>7 DEF Next

\* What reaches the file was numbered before, by this process.
LEMMA NextFileIsPast ==
  ASSUME TypeOK, LinesArePlaced, FileIsPast, [Next]_vars
  PROVE  FileIsPast'
<1>0. /\ seq \in Nat /\ crashes \in Nat /\ Len(file) \in Nat /\ file \in Seq(Pieces)
      /\ batch \in [Threads -> Seq(Lines)] /\ written \in [Threads -> Nat]
  BY LenProperties DEF TypeOK
<1>1. ASSUME UNCHANGED <<file, crashes>>, seq' = seq \/ seq' = seq + 1 PROVE FileIsPast'
  <2> SUFFICES ASSUME NEW i \in 1..Len(file), file[i].line.process = crashes
               PROVE  file[i].line.seq <= seq'
    BY <1>1 DEF FileIsPast
  <2>1. file[i].line.seq <= seq /\ file[i].line.seq \in Int
    BY <1>0, PieceIs DEF FileIsPast
  <2> QED BY <1>0, <1>1, <2>1
<1>2. ASSUME NEW w \in Threads, AppendPieces(w) PROVE FileIsPast'
  <2>1. UNCHANGED <<seq, crashes>>
    BY <1>2 DEF AppendPieces
  <2> SUFFICES ASSUME NEW i \in 1..Len(file')
               PROVE  /\ file'[i].line.process <= crashes
                      /\ file'[i].line.process = crashes => file'[i].line.seq <= seq
    BY <2>1 DEF FileIsPast
  <2>2. CASE i \in 1..Len(file) /\ file'[i] = file[i]
    BY <2>2 DEF FileIsPast
  <2>3. CASE file'[i].line \in ToSet(batch[w])
    <3>1. file'[i].line.process = crashes /\ file'[i].line.seq <= seq
      BY <2>3 DEF LinesArePlaced, Placed, Own, Numbered
    <3> QED BY <1>0, <3>1
  <2> QED BY <1>2, <2>2, <2>3, AppendedPiece
<1>3. CASE CrashAndReopen
  <2>1. PICK n \in synced..Len(file) : file' = SubSeq(file, 1, n)
    BY <1>3 DEF CrashAndReopen
  <2>2. /\ n \in Nat /\ n <= Len(file) /\ Len(file') = n /\ \A i \in 1..n : file'[i] = file[i]
    BY <2>1, CutOffFile
  <2>3. crashes' = crashes + 1
    BY <1>3 DEF CrashAndReopen
  <2>4. ASSUME NEW i \in 1..Len(file')
        PROVE  file'[i].line.process <= crashes' /\ file'[i].line.process # crashes'
    <3>1. i \in 1..n
      BY <2>2
    <3>2. i \in 1..Len(file)
      BY <1>0, <2>2, <3>1
    <3>3. file'[i] = file[i]
      BY <2>2, <3>1
    <3>4. file[i].line.process \in Int /\ file[i].line.process <= crashes
      BY <1>0, <3>2, PieceIs DEF FileIsPast
    <3> QED BY <1>0, <2>3, <3>3, <3>4
  <2> QED BY <2>4 DEF FileIsPast
<1> QED BY <1>1, <1>2, <1>3 DEF Next, Write, Flush, Sync, FailAppend, DropBatch, vars

LEMMA NextSynced ==
  ASSUME TypeOK, WrittenIsInFile, AckedIsSynced, [Next]_vars
  PROVE  AckedIsSynced'
<1>0. Len(file) \in Nat /\ synced \in Nat /\ synced <= Len(file)
  BY LenProperties DEF TypeOK
<1>1. ASSUME NEW w \in Threads, AppendPieces(w) PROVE AckedIsSynced'
  <2>1. \A i \in 1..Len(file) : file'[i] = file[i]
    BY <1>1, AppendedFile
  <2>2. UNCHANGED <<synced, acked>> /\ \A i \in 1..synced : i \in 1..Len(file)
    BY <1>0, <1>1 DEF AppendPieces
  <2> QED BY <2>1, <2>2 DEF AckedIsSynced
<1>2. ASSUME NEW w \in Threads, Sync(w) PROVE AckedIsSynced'
  <2>1. /\ synced' = Len(file) /\ acked' = acked \union ToSet(batch[w]) /\ file' = file
        /\ WrittenOut(w)
    BY <1>2 DEF Sync
  <2>2. \A i \in 1..synced : i \in 1..Len(file)
    BY <1>0
  <2>3. \A e \in acked, b \in BOOLEAN : \E i \in 1..Len(file) : file[i] = [line |-> e, last |-> b]
    BY <2>2 DEF AckedIsSynced
  <2> QED BY <2>1, <2>3, BothPiecesWritten DEF AckedIsSynced
<1>3. CASE CrashAndReopen
  <2>1. PICK n \in synced..Len(file) : file' = SubSeq(file, 1, n) /\ synced' = n
    BY <1>3 DEF CrashAndReopen
  <2>2. n \in Nat /\ \A i \in 1..n : file'[i] = file[i]
    BY <2>1, CutOffFile
  <2>3. acked' = acked /\ \A i \in 1..synced : i \in 1..n
    BY <1>0, <1>3, <2>2 DEF CrashAndReopen
  <2> QED BY <2>1, <2>2, <2>3 DEF AckedIsSynced
<1>4. ASSUME NEW w \in Threads, Write(w) \/ Flush \/ FailAppend(w) \/ DropBatch(w) \/ UNCHANGED vars
      PROVE  AckedIsSynced'
  BY <1>4 DEF Write, Flush, FailAppend, DropBatch, vars, AckedIsSynced
<1> QED BY <1>1, <1>2, <1>3, <1>4 DEF Next, Threads

-----------------------------------------------------------------------------
(* The order of the numbers.                                                 *)

LEMMA AppendedInSequence ==
  ASSUME NEW b \in Seq(Lines), NEW h \in [Threads -> Seq(Lines)], NEW l \in Lines,
         InSequence(b, h), \A e \in ToSet(b) : e.seq < l.seq,
         \A w \in Threads : \A e \in ToSet(h[w]) : e.seq < l.seq
  PROVE  InSequence(Append(b, l), h)
<1> DEFINE c == Append(b, l)  n == Len(b)
<1>1. n \in Nat /\ DOMAIN b = 1..n
  BY LenProperties
<1>2. DOMAIN c = 1..(n + 1) /\ (\A i \in 1..n : c[i] = b[i]) /\ c[n + 1] = l
  <2>1. c \in Seq(Lines) /\ Len(c) = n + 1 /\ (\A i \in 1..n : c[i] = b[i]) /\ c[n + 1] = l
    BY AppendProperties
  <2> QED BY <2>1, LenProperties
<1> HIDE DEF c, n
<1>3. \A i \in 1..(n + 1) : i \in 1..n \/ i = n + 1
  BY <1>1
<1>4. \A i \in 1..n : b[i].seq < l.seq
  BY <1>1 DEF ToSet
<1>5. \A w \in Threads : \A m \in DOMAIN h[w] : h[w][m].seq < l.seq
  BY DEF ToSet
<1>6. Ascending(c)
  <2> SUFFICES ASSUME NEW i \in 1..(n + 1), NEW j \in 1..(n + 1), i < j
               PROVE  c[i].seq < c[j].seq
    BY <1>2 DEF Ascending
  <2>1. i \in 1..n
    BY <1>1
  <2>2. CASE j \in 1..n
    BY <1>1, <1>2, <2>1, <2>2 DEF InSequence, Ascending
  <2>3. CASE j = n + 1
    BY <1>2, <1>4, <2>1, <2>3
  <2> QED BY <1>3, <2>2, <2>3
<1>7. \A w \in Threads : \A m \in DOMAIN h[w], k \in DOMAIN c : h[w][m].seq < c[k].seq
  BY <1>1, <1>2, <1>3, <1>5 DEF InSequence
<1> QED BY <1>6, <1>7 DEF InSequence, c

\* With nothing else in hand, the buffer may be handed over.
LEMMA HandedOverInSequence ==
  ASSUME NEW b, NEW h \in [Threads -> Seq(Lines)], NEW w \in Threads,
         InSequence(b, h), \A v \in Threads : h[v] = <<>>
  PROVE  InSequence(<<>>, [h EXCEPT ![w] = b])
<1> DEFINE g == [h EXCEPT ![w] = b]
<1>1. g[w] = b /\ \A v \in Threads : v # w => g[v] = <<>>
  OBVIOUS
<1> HIDE DEF g
<1>2. DOMAIN <<>> = {}
  OBVIOUS
<1>3. \A v, u \in Threads : g[v] # <<>> /\ g[u] # <<>> => v = u
  BY <1>1
<1>4. Ascending(<<>>) /\ \A v \in Threads : Ascending(g[v])
  BY <1>1, <1>2 DEF InSequence, Ascending
<1> QED BY <1>2, <1>3, <1>4 DEF InSequence, g

LEMMA ReleasedInSequence ==
  ASSUME NEW b, NEW h \in [Threads -> Seq(Lines)], NEW w \in Threads, InSequence(b, h)
  PROVE  InSequence(b, [h EXCEPT ![w] = <<>>])
<1> DEFINE g == [h EXCEPT ![w] = <<>>]
<1>1. g[w] = <<>> /\ \A v \in Threads : v # w => g[v] = h[v]
  OBVIOUS
<1> HIDE DEF g
<1>2. DOMAIN <<>> = {}
  OBVIOUS
<1>3. \A v, u \in Threads : g[v] # <<>> /\ g[u] # <<>> => v = u
  BY <1>1 DEF InSequence
<1>4. \A v \in Threads : Ascending(g[v])
  BY <1>1, <1>2 DEF InSequence, Ascending
<1>5. \A v \in Threads : \A m \in DOMAIN g[v], k \in DOMAIN b : g[v][m].seq < b[k].seq
  BY <1>1, <1>2 DEF InSequence
<1> QED BY <1>3, <1>4, <1>5 DEF InSequence, g

\* What can be read after an append: what could be before, and the lines that the
\* append has completed.
LEMMA AppendedLines ==
  ASSUME TypeOK, NEW w \in Threads, AppendPieces(w), NEW i \in WholeLines(file')
  PROVE  \/ i \in WholeLines(file) /\ file'[i] = file[i]
         \/ /\ i >= Len(file)
            /\ \E m \in DOMAIN batch[w] :
                 /\ 2 * m > written[w] /\ 2 * m <= written'[w]
                 /\ i + 1 = Len(file) + (2 * m - written[w]) /\ file'[i].line = batch[w][m]
<1>1. /\ batch[w] \in Seq(Lines) /\ Len(batch[w]) \in Nat /\ DOMAIN batch[w] = 1..Len(batch[w])
      /\ file \in Seq(Pieces) /\ Len(file) \in Nat /\ DOMAIN file = 1..Len(file)
      /\ written \in [Threads -> Nat]
  BY LenProperties DEF TypeOK
<1>2. PICK k \in 1..(2 * Len(batch[w]) - written[w]) :
        /\ file' \in Seq(Pieces) /\ Len(file') = Len(file) + k
        /\ \A j \in 1..Len(file) : file'[j] = file[j]
        /\ \A j \in 1..k : file'[Len(file) + j] = Cut(batch[w])[written[w] + j]
        /\ written' = [written EXCEPT ![w] = written[w] + k]
  BY AppendedFile
<1> DEFINE a == written[w]  n == Len(batch[w])  f == Len(file)
<1>3. /\ a \in Nat /\ n \in Nat /\ f \in Nat /\ k \in 1..(2 * n - a) /\ written'[w] = a + k
      /\ Len(file') = f + k
  BY <1>1, <1>2
<1>4. i \in 1..(f + k) /\ i + 1 \in 1..(f + k) /\ Parses(file', i)
      /\ file'[i + 1].line = file'[i].line /\ file'[i + 1].last = TRUE
  BY <1>2, <1>3, WholeLineIs DEF WholeLines
<1>5. CASE i + 1 <= f
  <2>1. i \in 1..f /\ i + 1 \in 1..f /\ i < f
    BY <1>3, <1>4, <1>5
  <2>2. file'[i] = file[i] /\ file'[i + 1] = file[i + 1]
    BY <1>2, <2>1
  <2>3. i = 1 \/ file[i - 1].last
    <3>1. CASE i = 1
      BY <3>1
    <3>2. CASE i # 1
      <4>1. i - 1 \in 1..f
        BY <1>3, <2>1, <3>2
      <4>2. file'[i - 1] = file[i - 1]
        BY <1>2, <4>1
      <4> QED BY <1>4, <3>2, <4>2 DEF Parses
    <3> QED BY <3>1, <3>2
  <2>4. Parses(file, i)
    BY <1>4, <2>1, <2>2, <2>3 DEF Parses
  <2> QED BY <1>1, <2>1, <2>2, <2>4 DEF WholeLines
<1>6. CASE ~(i + 1 <= f)
  <2> DEFINE j == i + 1 - f  q == a + j
  <2>1. j \in 1..k /\ q \in 1..(2 * n) /\ q > a /\ q <= a + k /\ i >= f /\ f + j = i + 1
    <3> HIDE DEF a, n, f
    <3>1. i \in Int /\ j \in Int /\ j >= 1 /\ j <= k /\ i >= f /\ f + j = i + 1
      BY <1>3, <1>4, <1>6
    <3>2. q \in 1..(2 * n) /\ q > a /\ q <= a + k
      BY <1>3, <3>1
    <3> QED BY <3>1, <3>2, <1>3
  <2>2. file'[i + 1] = Cut(batch[w])[q]
    BY <1>2, <2>1
  <2> HIDE DEF j
  <2>3. (q + 1) \div 2 \in 1..n /\ Cut(batch[w])[q] = [line |-> batch[w][(q + 1) \div 2], last |-> q % 2 = 0]
    BY <1>1, <2>1, CutIs
  <2>4. q % 2 = 0 /\ file'[i].line = batch[w][(q + 1) \div 2]
    <3> DEFINE z == (q % 2 = 0)  l == batch[w][(q + 1) \div 2]
    <3>1. z \in BOOLEAN /\ file'[i + 1] = [line |-> l, last |-> z]
      BY <2>2, <2>3
    <3> HIDE DEF z, l
    <3>2. z = TRUE /\ file'[i].line = l
      BY <1>4, <3>1
    <3> QED BY <3>2 DEF z, l
  <2>5. 2 * ((q + 1) \div 2) = q
    <3> HIDE DEF q, n, a
    <3>1. q \in Int /\ q % 2 = 0
      BY <2>1, <2>4
    <3> QED BY <3>1
  <2>6. i + 1 = f + (q - a)
    BY <1>3, <2>1
  <2> DEFINE m == (q + 1) \div 2
  <2>7. m \in DOMAIN batch[w] /\ 2 * m = q /\ file'[i].line = batch[w][m]
    BY <1>1, <2>3, <2>4, <2>5
  <2> HIDE DEF q, m
  <2> QED BY <1>3, <2>1, <2>6, <2>7
<1> QED BY <1>5, <1>6

\* What can be read after a crash could be before.
LEMMA CutOffLines ==
  ASSUME TypeOK, NEW n \in synced..Len(file), file' = SubSeq(file, 1, n),
         NEW i \in WholeLines(file')
  PROVE  i \in WholeLines(file) /\ file'[i] = file[i]
<1>1. /\ n \in Nat /\ n <= Len(file) /\ Len(file) \in Nat /\ file' \in Seq(Pieces)
      /\ Len(file') = n /\ \A j \in 1..n : file'[j] = file[j] /\ DOMAIN file = 1..Len(file)
  BY CutOffFile, LenProperties DEF TypeOK
<1>2. i \in 1..n /\ i + 1 \in 1..n /\ Parses(file', i)
  BY <1>1, WholeLineIs DEF WholeLines
<1>3. file'[i] = file[i] /\ file'[i + 1] = file[i + 1] /\ i < Len(file) /\ i \in DOMAIN file
  BY <1>1, <1>2
<1>4. i = 1 \/ file[i - 1].last
  <2>1. CASE i = 1
    BY <2>1
  <2>2. CASE i # 1
    <3>1. i - 1 \in 1..n
      BY <1>1, <1>2, <2>2
    <3>2. file'[i - 1] = file[i - 1]
      BY <1>1, <3>1
    <3> QED BY <1>2, <2>2, <3>2 DEF Parses
  <2> QED BY <2>1, <2>2
<1> QED BY <1>2, <1>3, <1>4 DEF Parses, WholeLines

LEMMA EventIs ==
  ASSUME TypeOK, NEW i \in WholeLines(file)
  PROVE  Event(i) \in Lines /\ Event(i).seq \in Int /\ i \in Int /\ i + 1 <= Len(file)
<1>1. file \in Seq(Pieces) /\ Len(file) \in Nat
  BY LenProperties DEF TypeOK
<1>2. Event(i) \in Lines /\ i \in 1..Len(file) /\ i + 1 \in 1..Len(file)
  BY <1>1, WholeLineIs DEF Event
<1> QED BY <1>1, <1>2 DEF Lines

LEMMA InitInOrder == Init => InOrder
<1> SUFFICES ASSUME Init PROVE InSequence(buffer, batch) /\ FileIsAscending /\ RestIsAbove
  BY DEF InOrder
<1>1. DOMAIN <<>> = {}
  OBVIOUS
<1>2. WholeLines(file) = {}
  BY <1>1 DEF Init, WholeLines
<1>3. InSequence(buffer, batch)
  BY <1>1 DEF Init, InSequence, Ascending
<1> QED BY <1>2, <1>3 DEF FileIsAscending, RestIsAbove

\* The lines of the file before a step that leaves the file alone are those after it.
LEMMA WriteInOrder ==
  ASSUME TypeOK, LinesArePlaced, InSequence(buffer, batch), FileIsAscending, RestIsAbove,
         NEW w \in Writers, Write(w), ~overlapped'
  PROVE  InSequence(buffer', batch') /\ FileIsAscending' /\ RestIsAbove'
<1> DEFINE lines == Append(buffer, NewLine)
<1>1. /\ buffer \in Seq(Lines) /\ batch \in [Threads -> Seq(Lines)] /\ seq \in Int
      /\ NewLine \in Lines /\ NewLine.seq = seq + 1 /\ w \in Threads /\ batch[w] = <<>>
  BY WriteIs DEF TypeOK, NewLine, Write, Idle
<1>2. /\ seq' = seq + 1 /\ UNCHANGED <<file, written>>
      /\ Take(w, lines) \/ (buffer' = lines /\ UNCHANGED <<batch, overlapped>>)
  BY WriteIs DEF Write
<1>3. \A l \in Numbered : l.seq \in Int /\ l.seq <= seq
  BY DEF Numbered, Lines
<1>4. InSequence(lines, batch)
  <2>1. \A e \in ToSet(buffer) : e.seq < NewLine.seq
    BY <1>1, <1>3 DEF LinesArePlaced, Placed, Own
  <2>2. \A v \in Threads : \A e \in ToSet(batch[v]) : e.seq < NewLine.seq
    BY <1>1, <1>3 DEF LinesArePlaced, Placed, Own
  <2> QED BY <1>1, <2>1, <2>2, AppendedInSequence
<1>5. \A i \in WholeLines(file) : \A k \in DOMAIN lines : Event(i).seq < lines[k].seq
  <2>1. \A i \in WholeLines(file) : Event(i).seq \in Int /\ Event(i).seq < seq + 1
    BY <1>1, EventIs DEF RestIsAbove
  <2> SUFFICES ASSUME NEW i \in WholeLines(file), NEW k \in DOMAIN lines
               PROVE  Event(i).seq < lines[k].seq
    OBVIOUS
  <2>2. lines[k] \in ToSet(buffer) \union {NewLine}
    <3>1. ToSet(lines) = ToSet(buffer) \union {NewLine}
      BY <1>1, ToSetAppend
    <3>2. lines[k] \in ToSet(lines)
      BY DEF ToSet
    <3> QED BY <3>1, <3>2
  <2> HIDE DEF lines
  <2>3. CASE lines[k] = NewLine
    BY <1>1, <2>1, <2>3
  <2>4. CASE lines[k] \in ToSet(buffer)
    BY <2>4 DEF ToSet, RestIsAbove
  <2> QED BY <2>2, <2>3, <2>4
<1> HIDE DEF lines
<1>6. FileIsAscending'
  BY <1>2 DEF FileIsAscending, Event
<1>7. \A i \in WholeLines(file) : Event(i).seq <= seq'
  BY <1>1, <1>2, EventIs DEF RestIsAbove
<1>8. CASE buffer' = lines /\ UNCHANGED <<batch, overlapped>>
  BY <1>2, <1>4, <1>5, <1>6, <1>7, <1>8 DEF RestIsAbove, Unwritten, Event
<1>9. CASE Take(w, lines)
  <2>1. /\ \A v \in Threads : batch[v] = <<>>
        /\ buffer' = <<>> /\ batch' = [batch EXCEPT ![w] = lines]
    BY <1>9 DEF Take, Idle
  <2>2. InSequence(buffer', batch')
    BY <1>1, <1>4, <2>1, HandedOverInSequence
  <2>3. batch'[w] = lines /\ \A v \in Threads : v # w => batch'[v] = <<>>
    BY <1>1, <2>1
  <2>4. DOMAIN <<>> = {}
    OBVIOUS
  <2>5. \A i \in WholeLines(file) : \A v \in Threads : \A m \in DOMAIN batch'[v] :
          Event(i).seq < batch'[v][m].seq
    BY <1>5, <2>3, <2>4
  <2> QED BY <1>2, <1>6, <1>7, <2>1, <2>2, <2>4, <2>5 DEF RestIsAbove, Unwritten, Event
<1> QED BY <1>2, <1>8, <1>9

LEMMA FlushInOrder ==
  ASSUME TypeOK, InSequence(buffer, batch), FileIsAscending, RestIsAbove, Flush
  PROVE  InSequence(buffer', batch') /\ FileIsAscending' /\ RestIsAbove'
<1>1. /\ buffer \in Seq(Lines) /\ batch \in [Threads -> Seq(Lines)] /\ Main \in Threads
      /\ \A v \in Threads : batch[v] = <<>>
      /\ buffer' = <<>> /\ batch' = [batch EXCEPT ![Main] = buffer]
      /\ UNCHANGED <<seq, file, written>>
  BY DEF TypeOK, Flush, Take, Idle, Threads
<1>2. InSequence(buffer', batch')
  BY <1>1, HandedOverInSequence
<1>3. batch'[Main] = buffer /\ \A v \in Threads : v # Main => batch'[v] = <<>>
  BY <1>1
<1>4. DOMAIN <<>> = {}
  OBVIOUS
<1>5. \A i \in WholeLines(file) : \A v \in Threads : \A m \in DOMAIN batch'[v] :
        Event(i).seq < batch'[v][m].seq
  BY <1>3, <1>4 DEF RestIsAbove
<1> QED BY <1>1, <1>2, <1>4, <1>5 DEF FileIsAscending, RestIsAbove, Unwritten, Event

LEMMA SyncInOrder ==
  ASSUME TypeOK, InSequence(buffer, batch), FileIsAscending, RestIsAbove,
         NEW w \in Threads, Sync(w)
  PROVE  InSequence(buffer', batch') /\ FileIsAscending' /\ RestIsAbove'
<1>1. /\ batch \in [Threads -> Seq(Lines)] /\ batch' = [batch EXCEPT ![w] = <<>>]
      /\ UNCHANGED <<seq, file, buffer>> /\ Release(w)
  BY DEF TypeOK, Sync, Release
<1>2. InSequence(buffer', batch')
  BY <1>1, ReleasedInSequence
<1>3. \A v \in Threads : v # w => batch'[v] = batch[v] /\ written'[v] = written[v]
  BY <1>1, ReleaseTypes
<1>4. batch'[w] = <<>> /\ DOMAIN <<>> = {}
  BY <1>1
<1> QED BY <1>1, <1>2, <1>3, <1>4 DEF FileIsAscending, RestIsAbove, Unwritten, Event

LEMMA CrashInOrder ==
  ASSUME TypeOK, FileIsAscending, CrashAndReopen, seq' = LastSequence(file')
  PROVE  InSequence(buffer', batch') /\ FileIsAscending' /\ RestIsAbove'
<1>1. PICK n \in synced..Len(file) : file' = SubSeq(file, 1, n)
  BY DEF CrashAndReopen
<1>2. /\ buffer' = <<>> /\ batch' = [w \in Threads |-> <<>>] /\ seq' = LastSequence(file')
      /\ DOMAIN <<>> = {}
  BY DEF CrashAndReopen
<1>3. \A i \in WholeLines(file') : i \in WholeLines(file) /\ file'[i].line.seq = Event(i).seq
  BY <1>1, CutOffLines DEF Event
<1>4. FileIsAscending'
  BY <1>3 DEF FileIsAscending, Event
<1>5. InSequence(buffer', batch')
  BY <1>2 DEF InSequence, Ascending
<1>6. \A j \in WholeLines(file') : file'[j].line.seq <= seq'
  <2> SUFFICES ASSUME NEW j \in WholeLines(file') PROVE file'[j].line.seq <= seq'
    OBVIOUS
  <2>1. file' \in Seq(Pieces)
    BY <1>1, CutOffFile
  <2>2. PICK i \in WholeLines(file') : seq' = file'[i].line.seq /\ j <= i
    BY <1>2, <2>1, LastSequenceIs
  <2>3. /\ Event(i).seq \in Int /\ Event(j).seq \in Int /\ i \in Int /\ j \in Int
        /\ i \in WholeLines(file) /\ j \in WholeLines(file)
        /\ seq' = Event(i).seq /\ file'[j].line.seq = Event(j).seq
    BY <1>3, <2>2, EventIs
  <2>4. CASE j = i
    BY <2>3, <2>4
  <2>5. CASE j < i
    BY <2>3, <2>5 DEF FileIsAscending
  <2> QED BY <2>2, <2>3, <2>4, <2>5
<1> QED BY <1>2, <1>4, <1>5, <1>6 DEF RestIsAbove, Unwritten, Event

LEMMA AppendInOrder ==
  ASSUME TypeOK, LinesArePlaced, InSequence(buffer, batch), FileIsAscending, RestIsAbove,
         NEW w \in Threads, AppendPieces(w)
  PROVE  InSequence(buffer', batch') /\ FileIsAscending' /\ RestIsAbove'
<1>1. UNCHANGED <<seq, buffer, batch>>
  BY DEF AppendPieces
<1>2. /\ written \in [Threads -> Nat] /\ batch \in [Threads -> Seq(Lines)] /\ Len(file) \in Nat
      /\ \A v \in Threads : DOMAIN batch[v] \subseteq Nat
  BY LenProperties DEF TypeOK
<1>3. written' \in [Threads -> Nat] /\ \A v \in Threads : written'[v] >= written[v]
  <2>1. PICK k \in 1..(2 * Len(batch[w]) - written[w]) :
          written' = [written EXCEPT ![w] = written[w] + k]
    BY AppendedFile
  <2>2. k \in Nat
    <3>1. Len(batch[w]) \in Nat /\ written[w] \in Nat
      BY <1>2, LenProperties
    <3> QED BY <3>1
  <2> QED BY <1>2, <2>1, <2>2
<1> DEFINE Old(i) == i \in WholeLines(file) /\ file'[i].line = Event(i)
           New(i, m) == /\ i \in Int /\ i >= Len(file) /\ m \in Unwritten(w) /\ 2 * m <= written'[w]
                        /\ i + 1 = Len(file) + (2 * m - written[w])
                        /\ file'[i].line = batch[w][m]
<1>4. \A i \in WholeLines(file') : Old(i) \/ \E m \in DOMAIN batch[w] : New(i, m)
  <2> SUFFICES ASSUME NEW i \in WholeLines(file'), ~Old(i)
               PROVE  \E m \in DOMAIN batch[w] : New(i, m)
    OBVIOUS
  <2>1. i \in Int
    <3>1. file' \in Seq(Pieces)
      BY AppendedFile
    <3>2. i \in 1..Len(file') /\ Len(file') \in Nat
      BY <3>1, WholeLineIs, LenProperties
    <3> QED BY <3>2
  <2> QED BY <2>1, AppendedLines DEF Event, Unwritten
<1>5. \A m \in DOMAIN batch[w] : /\ batch[w][m] \in Lines /\ batch[w][m].seq \in Int
                                 /\ batch[w][m].seq <= seq
  BY <1>2 DEF LinesArePlaced, Placed, Own, Numbered, ToSet, Lines
<1>6. \A m, n \in DOMAIN batch[w] : m < n => batch[w][m].seq < batch[w][n].seq
  BY DEF InSequence, Ascending
<1>7. FileIsAscending'
  <2> SUFFICES ASSUME NEW i \in WholeLines(file'), NEW j \in WholeLines(file'), i < j
               PROVE  file'[i].line.seq < file'[j].line.seq
    BY DEF FileIsAscending, Event
  <2>1. CASE Old(i) /\ Old(j)
    BY <2>1 DEF FileIsAscending
  <2>2. ASSUME Old(i), NEW m \in DOMAIN batch[w], New(j, m) PROVE file'[i].line.seq < file'[j].line.seq
    BY <2>2 DEF RestIsAbove
  <2>3. ASSUME NEW m \in DOMAIN batch[w], New(i, m), Old(j) PROVE FALSE
    <3>1. j \in Int /\ j + 1 <= Len(file)
      BY <2>3, EventIs
    <3>2. i \in Int /\ i >= Len(file)
      BY <2>3
    <3> QED BY <1>2, <3>1, <3>2
  <2>4. ASSUME NEW m \in DOMAIN batch[w], New(i, m), NEW n \in DOMAIN batch[w], New(j, n)
        PROVE  file'[i].line.seq < file'[j].line.seq
    <3>1. m \in Nat /\ n \in Nat /\ written[w] \in Nat
      BY <1>2
    <3>2. /\ i < j /\ i \in Int /\ j \in Int /\ Len(file) \in Nat
          /\ i + 1 = Len(file) + (2 * m - written[w])
          /\ j + 1 = Len(file) + (2 * n - written[w])
      BY <1>2, <2>4
    <3>3. m < n
      BY <3>1, <3>2
    <3> QED BY <1>6, <2>4, <3>3
  <2> HIDE DEF Old, New
  <2> QED BY <1>4, <2>1, <2>2, <2>3, <2>4
<1>8. ASSUME NEW i \in WholeLines(file')
      PROVE  /\ file'[i].line.seq <= seq
             /\ \A v \in Threads : \A m \in Unwritten(v)' : file'[i].line.seq < batch[v][m].seq
             /\ \A k \in DOMAIN buffer : file'[i].line.seq < buffer[k].seq
  <2>1. \A v \in Threads : \A m \in Unwritten(v)' :
          m \in Unwritten(v) /\ m \in DOMAIN batch[v] /\ m \in Nat /\ 2 * m > written'[v]
    <3> SUFFICES ASSUME NEW v \in Threads, NEW m \in Unwritten(v)'
                 PROVE  m \in Unwritten(v) /\ m \in DOMAIN batch[v] /\ m \in Nat /\ 2 * m > written'[v]
      OBVIOUS
    <3>1. m \in DOMAIN batch[v] /\ 2 * m > written'[v] /\ m \in Nat
      BY <1>1, <1>2 DEF Unwritten
    <3>2. 2 * m > written[v]
      BY <1>2, <1>3, <3>1
    <3> QED BY <3>1, <3>2 DEF Unwritten
  <2>2. CASE Old(i)
    BY <2>1, <2>2 DEF RestIsAbove
  <2>3. ASSUME NEW n \in DOMAIN batch[w], New(i, n)
        PROVE  /\ file'[i].line.seq <= seq
               /\ \A v \in Threads : \A m \in Unwritten(v)' : file'[i].line.seq < batch[v][m].seq
               /\ \A k \in DOMAIN buffer : file'[i].line.seq < buffer[k].seq
    <3>1. file'[i].line.seq <= seq
      BY <1>5, <2>3
    <3>2. \A k \in DOMAIN buffer : file'[i].line.seq < buffer[k].seq
      BY <2>3 DEF InSequence
    <3>3. ASSUME NEW v \in Threads, NEW m \in Unwritten(v)' PROVE file'[i].line.seq < batch[v][m].seq
      <4>1. DOMAIN <<>> = {}
        OBVIOUS
      <4>2. v = w
        BY <2>1, <2>3, <3>3, <4>1 DEF InSequence
      <4>3. m \in DOMAIN batch[w] /\ m \in Nat /\ n \in Nat /\ 2 * m > written'[w]
            /\ 2 * n <= written'[w] /\ written'[w] \in Nat
        BY <1>2, <1>3, <2>1, <2>3, <3>3, <4>2
      <4>4. n < m
        BY <4>3
      <4> QED BY <1>6, <2>3, <4>2, <4>3, <4>4
    <3> QED BY <3>1, <3>2, <3>3
  <2> HIDE DEF Old, New
  <2> QED BY <1>4, <2>2, <2>3
<1>9. RestIsAbove'
  BY <1>1, <1>8 DEF RestIsAbove, Event
<1> QED BY <1>1, <1>7, <1>9

LEMMA NextInOrder ==
  ASSUME TypeOK, LinesArePlaced, InOrder, [Next]_vars
  PROVE  InOrder'
<1> SUFFICES ASSUME ~overlapped', faults' = 0
             PROVE  InSequence(buffer', batch') /\ FileIsAscending' /\ RestIsAbove'
  BY DEF InOrder
<1>1. faults \in Nat
  BY DEF TypeOK
<1>2. CASE UNCHANGED vars
  BY <1>2 DEF vars, InOrder, FileIsAscending, RestIsAbove, Unwritten, Event
<1>3. ASSUME NEW w \in Threads, FailAppend(w) \/ DropBatch(w) PROVE FALSE
  BY <1>1, <1>3 DEF FailAppend, DropBatch
<1>4. CASE Next /\ ~(\E w \in Threads : FailAppend(w) \/ DropBatch(w))
  <2>0. CrashAndReopen => faults = 0 /\ seq' = LastSequence(file')
    BY <1>1 DEF CrashAndReopen
  <2>1. faults = 0
    BY <1>4, <2>0 DEF Next, Write, Flush, AppendPieces, Sync
  <2>2. ~overlapped
    BY <1>4 DEF Next, Write, Flush, Take, AppendPieces, Sync, CrashAndReopen
  <2>3. InSequence(buffer, batch) /\ FileIsAscending /\ RestIsAbove
    BY <2>1, <2>2 DEF InOrder
  <2> QED BY <1>4, <2>0, <2>3, WriteInOrder, FlushInOrder, AppendInOrder, SyncInOrder, CrashInOrder DEF Next
<1> QED BY <1>2, <1>3, <1>4

-----------------------------------------------------------------------------
(* The theorems.                                                             *)

LEMMA InitWritten == Init => FileIsPast /\ WrittenIsInFile /\ AckedIsSynced
BY DEF Init, FileIsPast, WrittenIsInFile, AckedIsSynced

\* Lines have one place each, what is written stays written, and numbers rise:
\* types, places, file and order are kept by every step of the writer.
THEOREM LogInvariant == Spec => []IInv
<1>1. Init => IInv
  BY InitTypeOK, InitPlaced, InitWritten, InitInOrder DEF IInv
<1>2. IInv /\ [Next]_vars => IInv'
  BY NextTypeOK, NextPlaced, NextFileIsPast, NextWritten, NextSynced, NextInOrder DEF IInv
<1> QED BY <1>1, <1>2, PTL DEF Spec

\* A number read back from the file is one of those that were given out.
THEOREM TypeCorrect == Spec => []TypeOK
<1>1. IInv => TypeOK
  BY DEF IInv
<1> QED BY <1>1, LogInvariant, PTL

\* Of the four kinds of place, a numbered line is in exactly one.
LEMMA PlacedOnce ==
  ASSUME IInv, NEW e \in Numbered
  PROVE  Cardinality({w \in Threads : e \in ToSet(batch[w])})
           + Cardinality({i \in DOMAIN buffer : buffer[i] = e})
           + Cardinality(acked \intersect {e}) + Cardinality(dropped \intersect {e}) = 1
<1> DEFINE W == {w \in Threads : e \in ToSet(batch[w])}
           B == {i \in DOMAIN buffer : buffer[i] = e}
           A == acked \intersect {e}
           D == dropped \intersect {e}
<1>1. /\ OnePlace(buffer, batch, Gone) /\ SomePlace(buffer, batch, Gone, Numbered)
      /\ acked \intersect dropped = {}
  BY DEF IInv, LinesArePlaced, Placed
<1>2. Cardinality({}) = 0 /\ \A x : Cardinality({x}) = 1
  BY FS_EmptySet, FS_Singleton
<1>3. CASE e \in ToSet(buffer)
  <2>1. PICK i \in DOMAIN buffer : buffer[i] = e
    BY <1>3 DEF ToSet
  <2>2. B = {i}
    BY <1>1, <2>1 DEF OnePlace, Distinct
  <2>3. W = {} /\ A = {} /\ D = {}
    BY <1>1, <1>3 DEF OnePlace, Gone
  <2> HIDE DEF W, B, A, D
  <2>4. Cardinality(W) = 0 /\ Cardinality(B) = 1 /\ Cardinality(A) = 0 /\ Cardinality(D) = 0
    BY <1>2, <2>2, <2>3
  <2> QED BY <2>4 DEF W, B, A, D
<1>4. CASE e \in Gone
  <2>1. (A = {e} /\ D = {}) \/ (A = {} /\ D = {e})
    BY <1>1, <1>4 DEF Gone
  <2>2. W = {} /\ B = {}
    BY <1>1, <1>4 DEF OnePlace, ToSet
  <2> HIDE DEF W, B, A, D
  <2>3. Cardinality(W) = 0 /\ Cardinality(B) = 0
    BY <1>2, <2>2
  <2>4. CASE A = {e} /\ D = {}
    <3>1. Cardinality(A) = 1 /\ Cardinality(D) = 0
      BY <1>2, <2>4
    <3> QED BY <2>3, <3>1 DEF W, B, A, D
  <2>5. CASE A = {} /\ D = {e}
    <3>1. Cardinality(A) = 0 /\ Cardinality(D) = 1
      BY <1>2, <2>5
    <3> QED BY <2>3, <3>1 DEF W, B, A, D
  <2> QED BY <2>1, <2>4, <2>5
<1>5. ASSUME NEW w \in Threads, e \in ToSet(batch[w])
      PROVE  Cardinality(W) + Cardinality(B) + Cardinality(A) + Cardinality(D) = 1
  <2>1. W = {w}
    BY <1>1, <1>5 DEF OnePlace
  <2>2. B = {}
    BY <1>1, <1>5 DEF OnePlace, ToSet
  <2>3. A = {} /\ D = {}
    BY <1>1, <1>5 DEF OnePlace, Gone
  <2> HIDE DEF W, B, A, D
  <2>4. Cardinality(W) = 1 /\ Cardinality(B) = 0 /\ Cardinality(A) = 0 /\ Cardinality(D) = 0
    BY <1>2, <2>1, <2>2, <2>3
  <2> QED BY <2>4
<1> QED BY <1>1, <1>3, <1>4, <1>5 DEF SomePlace

\* No handover of the lock and no OSError that the writer keeps to itself drops
\* an event of a living process or writes it down twice, with any number of
\* threads and faults.
THEOREM EveryEventHasOnePlace == Spec => []NothingDropped
<1>1. IInv => NothingDropped
  <2> SUFFICES ASSUME IInv, NEW n \in (base + 1)..seq
               PROVE  [seq |-> n, process |-> crashes] \in Numbered
    BY PlacedOnce DEF NothingDropped
  <2>1. /\ seq \in 0..MaxEvents /\ base \in 0..seq /\ crashes \in 0..MaxCrashes
    BY DEF IInv, TypeOK
  <2>2. n \in 1..MaxEvents /\ n > base /\ n <= seq
    BY <2>1, WalAssumption
  <2> QED BY <2>1, <2>2 DEF Numbered, Lines
<1> QED BY <1>1, LogInvariant, PTL

\* An append that has returned survives every power cut, whatever the threads
\* have been writing meanwhile.
THEOREM AckedSurvives == Spec => []AckedIsOnDisk
<1>1. IInv => AckedIsOnDisk
  <2> SUFFICES ASSUME IInv, NEW e \in acked, NEW b \in BOOLEAN
               PROVE  [line |-> e, last |-> b] \in ToSet(SubSeq(file, 1, synced))
    BY DEF AckedIsOnDisk
  <2>1. PICK i \in 1..synced : file[i] = [line |-> e, last |-> b]
    BY DEF IInv, AckedIsSynced
  <2>2. file \in Seq(Pieces) /\ Len(file) \in Nat /\ synced \in Nat /\ synced <= Len(file)
    BY LenProperties DEF IInv, TypeOK
  <2>3. \A j \in 1..synced : file[j] \in Pieces
    <3>1. \A j \in 1..synced : j \in 1..Len(file)
      BY <2>2
    <3> QED BY <2>2, <3>1, ElementOfSeq
  <2> DEFINE s == SubSeq(file, 1, synced)
  <2>4. /\ s \in Seq(Pieces) /\ Len(s) = IF 1 <= synced THEN synced - 1 + 1 ELSE 0
        /\ \A j \in 1..(synced - 1 + 1) : s[j] = file[1 + j - 1]
    BY <2>2, <2>3, SubSeqProperties
  <2> HIDE DEF s
  <2>5. Len(s) = synced /\ s[i] = file[i] /\ i \in 1..Len(s)
    BY <2>2, <2>4
  <2>6. i \in DOMAIN s
    BY <2>4, <2>5, LenProperties
  <2>7. s[i] \in ToSet(s)
    BY <2>6 DEF ToSet
  <2> QED BY <2>1, <2>5, <2>7 DEF s
<1> QED BY <1>1, LogInvariant, PTL

\* While batches neither overlap nor fail, torn lines and restarts never make two
\* events of one number readable.
THEOREM NumbersNameOneEvent == Spec => []SoloNumbersNameOneEvent
<1>1. IInv => SoloNumbersNameOneEvent
  <2> SUFFICES ASSUME IInv, ~overlapped, faults = 0, NEW i \in WholeLines(file),
                      NEW j \in WholeLines(file), Event(i).seq = Event(j).seq
               PROVE  Event(i) = Event(j)
    BY DEF SoloNumbersNameOneEvent
  <2>1. FileIsAscending
    BY DEF IInv, InOrder
  <2>2. i \in Int /\ j \in Int /\ Event(i).seq \in Int
    BY EventIs DEF IInv
  <2>3. i = j
    BY <2>1, <2>2 DEF FileIsAscending
  <2> QED BY <2>3
<1> QED BY <1>1, LogInvariant, PTL

-----------------------------------------------------------------------------
(* The log its callers see.                                                  *)

\* What the living process has numbered and not acknowledged, it holds.
LEMMA HeldIs ==
  ASSUME NEW b, NEW h, NEW a, NEW num, Placed(b, h, a, num)
  PROVE  ToSet(b) \union UNION {ToSet(h[w]) : w \in Threads} = num \ a
BY DEF Placed, Own, OnePlace, SomePlace

\* A line ends in f where f has its piece.
LEMMA EndsIs ==
  ASSUME NEW f \in Seq(Pieces), NEW e, NEW b
  PROVE  e \in Ends(f, b) <=> \E i \in 1..Len(f) : f[i].line = e /\ f[i].last = b
<1>1. DOMAIN f = 1..Len(f)
  BY LenProperties
<1> QED BY <1>1 DEF Ends, ToSet

\* Lines of which the longer file f has both pieces, with or without those of g.
LEMMA LongerFileStores ==
  ASSUME NEW f \in Seq(Pieces), NEW g \in Seq(Pieces), Len(g) <= Len(f),
         \A i \in 1..Len(g) : f[i] = g[i], NEW b
  PROVE  Ends(g, b) \subseteq Ends(f, b)
<1> SUFFICES ASSUME NEW e \in Ends(g, b) PROVE e \in Ends(f, b)
  OBVIOUS
<1>1. PICK i \in 1..Len(g) : g[i].line = e /\ g[i].last = b
  BY EndsIs
<1>2. i \in 1..Len(f)
  BY LenProperties
<1> QED BY <1>1, <1>2, EndsIs

\* Appending stores lines that are held, and no others.
LEMMA AppendStores ==
  ASSUME IInv, NEW w \in Threads, AppendPieces(w)
  PROVE  Stored \subseteq Stored' /\ Stored' \subseteq Stored \union Held
<1>1. /\ file \in Seq(Pieces) /\ batch \in [Threads -> Seq(Lines)]
      /\ Len(file) \in Nat /\ written[w] \in Nat /\ Len(batch[w]) \in Nat
  BY LenProperties DEF IInv, TypeOK
<1>2. PICK k \in 1..(2 * Len(batch[w]) - written[w]) :
        /\ file' \in Seq(Pieces) /\ Len(file') = Len(file) + k
        /\ \A i \in 1..Len(file) : file'[i] = file[i]
        /\ \A i \in 1..k : file'[Len(file) + i] = Cut(batch[w])[written[w] + i]
  BY AppendedFile DEF IInv
<1>3. k \in Nat /\ Len(file) <= Len(file')
  BY <1>1, <1>2
<1>4. \A b : Ends(file, b) \subseteq Ends(file', b)
  BY <1>1, <1>2, <1>3, LongerFileStores
<1>5. ASSUME NEW b, NEW e \in Ends(file', b) PROVE e \in Ends(file, b) \union ToSet(batch[w])
  <2>1. PICK i \in 1..Len(file') : file'[i].line = e /\ file'[i].last = b
    BY <1>2, <1>5, EndsIs
  <2>2. CASE i \in 1..Len(file) /\ file'[i] = file[i]
    BY <1>1, <2>1, <2>2, EndsIs
  <2>3. CASE file'[i].line \in ToSet(batch[w])
    BY <2>1, <2>3
  <2> QED BY <2>2, <2>3, AppendedPiece DEF IInv
<1>6. ToSet(batch[w]) \subseteq Held
  BY DEF Held
<1> QED BY <1>4, <1>5, <1>6 DEF Stored

\* What is synced is stored, and stays so.
LEMMA SyncedIsStored ==
  ASSUME NEW f \in Seq(Pieces), NEW n \in Nat, n <= Len(f), NEW e,
         \A b \in BOOLEAN : \E i \in 1..n : f[i] = [line |-> e, last |-> b]
  PROVE  e \in Ends(f, FALSE) /\ e \in Ends(f, TRUE)
<1> SUFFICES ASSUME NEW b \in BOOLEAN PROVE e \in Ends(f, b)
  OBVIOUS
<1>1. PICK i \in 1..n : f[i] = [line |-> e, last |-> b]
  OBVIOUS
<1>2. i \in 1..Len(f) /\ f[i].line = e /\ f[i].last = b
  BY <1>1, LenProperties
<1> QED BY <1>2, EndsIs

\* Every step of the writer is one of the log, or none.
LEMMA LogStep ==
  ASSUME IInv, IInv', [Next]_vars
  PROVE  [Log!Next]_(Log!vars)
<1>0. /\ TypeOK /\ LinesArePlaced /\ LinesArePlaced' /\ GoneIsPast
      /\ Held = Numbered \ Gone /\ Held' = Numbered' \ Gone'
  <2>1. TypeOK /\ LinesArePlaced /\ LinesArePlaced' /\ GoneIsPast
    BY DEF IInv, LinesArePlaced
  <2>2. Placed(buffer, batch, Gone, Numbered) /\ Placed(buffer', batch', Gone', Numbered')
    BY <2>1 DEF LinesArePlaced
  <2>3. Held = Numbered \ Gone
    BY <2>2, HeldIs DEF Held
  <2>4. Held' = Numbered' \ Gone'
    BY <2>2, HeldIs DEF Held
  <2> QED BY <2>1, <2>3, <2>4
<1>1. ASSUME NEW w \in Writers, Write(w) PROVE Log!Accept
  <2>1. /\ Numbered' = Numbered \union {NewLine} /\ NewLine \notin Numbered
        /\ NewLine \notin Gone /\ NewLine \in Lines
    BY <1>0, <1>1, WriteNumbers, WriteIs
  <2>2. UNCHANGED <<file, acked, dropped>> /\ Gone' = Gone
    BY <1>1 DEF Write, Gone
  <2>3. NewLine \notin Stored
    <3> SUFFICES ASSUME NewLine \in Stored PROVE FALSE
      OBVIOUS
    <3>1. file \in Seq(Pieces) /\ seq \in Nat
      BY <1>0 DEF TypeOK
    <3>2. PICK i \in 1..Len(file) : file[i].line = NewLine
      <4>1. \A b : NewLine \in Ends(file, b) => \E i \in 1..Len(file) : file[i].line = NewLine
        BY <3>1, EndsIs
      <4>2. \E b : NewLine \in Ends(file, b)
        BY Zenon DEF Stored
      <4> QED BY <4>1, <4>2
    <3>3. NewLine.process = crashes /\ NewLine.seq = seq + 1
      BY DEF NewLine
    <3>4. NewLine.seq <= seq
      BY <3>2, <3>3 DEF IInv, FileIsPast
    <3> QED BY <3>1, <3>3, <3>4
  <2>4. Held' = Held \union {NewLine} /\ NewLine \notin Held
    BY <1>0, <2>1, <2>2
  <2>5. UNCHANGED <<Stored, acked, dropped>>
    BY <2>2 DEF Stored
  <2>6. NewLine \notin acked /\ NewLine \notin dropped
    BY <2>1 DEF Gone
  <2> QED BY <2>1, <2>3, <2>4, <2>5, <2>6 DEF Log!Accept
<1>2. ASSUME UNCHANGED <<seq, base, crashes, acked, dropped>>
      PROVE  Held' = Held /\ acked' = acked /\ dropped' = dropped
  BY <1>0, <1>2 DEF Numbered, Gone
<1>3. ASSUME UNCHANGED <<seq, base, crashes, acked, dropped, file>> PROVE UNCHANGED Log!vars
  BY <1>2, <1>3 DEF Stored, Log!vars
<1>4. ASSUME NEW w \in Threads, AppendPieces(w) PROVE Log!Store
  <2>1. UNCHANGED <<seq, base, crashes, acked, dropped>>
    BY <1>4 DEF AppendPieces
  <2> QED BY <1>2, <1>4, <2>1, AppendStores DEF Log!Store
<1>5. ASSUME NEW w \in Threads, Sync(w) PROVE Log!Acknowledge
  <2>1. /\ UNCHANGED <<seq, base, crashes, file, dropped>> /\ acked' = acked \union ToSet(batch[w])
        /\ WrittenOut(w)
    BY <1>5 DEF Sync
  <2>2. Numbered' = Numbered
    BY <2>1 DEF Numbered
  <2>3. ToSet(batch[w]) \subseteq Held
    BY DEF Held
  <2>4. ToSet(batch[w]) \subseteq Stored
    <3> SUFFICES ASSUME NEW e \in ToSet(batch[w]) PROVE e \in Stored
      OBVIOUS
    <3>1. \A b \in BOOLEAN : \E i \in 1..Len(file) : file[i] = [line |-> e, last |-> b]
      BY <1>0, <2>1, BothPiecesWritten DEF IInv
    <3>2. file \in Seq(Pieces) /\ Len(file) \in Nat
      BY <1>0, LenProperties DEF TypeOK
    <3>3. Len(file) <= Len(file)
      BY <3>2
    <3>4. e \in Ends(file, FALSE) /\ e \in Ends(file, TRUE)
      BY <3>1, <3>2, <3>3, SyncedIsStored
    <3> QED BY <3>4 DEF Stored
  <2>5. UNCHANGED Stored
    BY <2>1 DEF Stored
  <2>6. Held' = Held \ acked'
    BY <1>0, <2>1, <2>2 DEF Gone
  <2> QED BY <2>1, <2>3, <2>4, <2>5, <2>6 DEF Log!Acknowledge
<1>6. CASE CrashAndReopen
  <2>1. PICK n \in synced..Len(file) : file' = SubSeq(file, 1, n) /\ synced' = n
    BY <1>6 DEF CrashAndReopen
  <2>2. /\ n \in Nat /\ n <= Len(file) /\ file' \in Seq(Pieces) /\ Len(file') = n
        /\ \A i \in 1..n : file'[i] = file[i]
    BY <1>0, <2>1, CutOffFile
  <2>3. acked' = acked /\ dropped' = dropped
    BY <1>6 DEF CrashAndReopen
  <2>4. Held' = {}
    <3>1. seq' = base' /\ \A l \in Lines : l.seq \in Int
      BY <1>6 DEF CrashAndReopen, Lines
    <3>2. seq' \in Int
      BY DEF IInv, TypeOK
    <3>3. Numbered' = {}
      BY <3>1, <3>2 DEF Numbered
    <3> QED BY <1>0, <3>3
  <2>5. Stored' \subseteq Stored
    <3>1. file \in Seq(Pieces)
      BY <1>0 DEF TypeOK
    <3>2. \A b : Ends(file', b) \subseteq Ends(file, b)
      BY <2>2, <3>1, LongerFileStores
    <3> QED BY <3>2 DEF Stored
  <2>6. acked \subseteq Stored'
    <3> SUFFICES ASSUME NEW e \in acked' PROVE e \in Stored'
      BY <2>3
    <3>1. \A b \in BOOLEAN : \E i \in 1..synced' : file'[i] = [line |-> e, last |-> b]
      BY DEF IInv, AckedIsSynced
    <3>2. synced' \in Nat /\ synced' <= Len(file')
      BY <2>1, <2>2
    <3>3. e \in Ends(file', FALSE) /\ e \in Ends(file', TRUE)
      BY <2>2, <3>1, <3>2, SyncedIsStored
    <3> QED BY <3>3 DEF Stored
  <2>7. Log!Crash
    BY <2>3, <2>4, <2>5, <2>6 DEF Log!Crash
  <2> QED BY <2>7 DEF Log!Next
<1>7. CASE Flush
  BY <1>3, <1>7 DEF Flush
<1>8. ASSUME NEW w \in Threads, FailAppend(w) PROVE UNCHANGED Log!vars
  BY <1>3, <1>8 DEF FailAppend
<1>11. ASSUME NEW w \in Threads, DropBatch(w) PROVE Log!Lose
  <2>1. UNCHANGED <<seq, base, crashes, file, acked>> /\ dropped' = dropped \union ToSet(batch[w])
    BY <1>11 DEF DropBatch
  <2>2. Numbered' = Numbered /\ UNCHANGED Stored
    BY <2>1 DEF Numbered, Stored
  <2>3. ToSet(batch[w]) \subseteq Held
    BY DEF Held
  <2>4. Held' = Held \ dropped'
    BY <1>0, <2>1, <2>2 DEF Gone
  <2> QED BY <2>1, <2>2, <2>3, <2>4 DEF Log!Lose
<1>9. CASE UNCHANGED vars
  BY <1>3, <1>9 DEF vars
<1>10. CASE Next
  <2>1. CASE \E w \in Writers : Write(w)
    BY <1>1, <2>1 DEF Log!Next
  <2>2. CASE \E w \in Threads : AppendPieces(w) \/ Sync(w) \/ FailAppend(w) \/ DropBatch(w)
    BY <1>4, <1>5, <1>8, <1>11, <2>2 DEF Log!Next
  <2>3. CASE CrashAndReopen
    BY <1>6, <2>3 DEF Log!Next
  <2> QED BY <1>7, <1>10, <2>1, <2>2, <2>3 DEF Next
<1> QED BY <1>9, <1>10, Zenon

\* The writer is a log: its batches, its lock, its retries and the torn lines of
\* its crashes show in nothing that EventLog excludes.
THEOREM Refinement == Spec => ImplementsEventLog
<1>1. Init => Log!Init
  <2> SUFFICES ASSUME Init PROVE Held = {} /\ Stored = {} /\ acked = {} /\ dropped = {}
    BY DEF Log!Init
  <2>1. ToSet(<<>>) = {}
    BY NothingInEmpty
  <2>2. Held = {}
    BY <2>1 DEF Init, Held
  <2>3. \A b : Ends(<<>>, b) = {}
    BY <2>1 DEF Ends
  <2> QED BY <2>2, <2>3 DEF Init, Stored
<1>2. IInv /\ IInv' /\ [Next]_vars => [Log!Next]_(Log!vars)
  BY LogStep
<1> QED BY <1>1, <1>2, LogInvariant, PTL DEF Spec, ImplementsEventLog, Log!Spec
=============================================================================
