-------------------------- MODULE AppendLogProofs --------------------------
(***************************************************************************)
(* Proofs that memory mirrors the file of AppendLog, and that the file     *)
(* keeps what was written, for any messages and any number of starts.      *)
(***************************************************************************)
EXTENDS AppendLog, TLAPS, SequenceTheorems

(* A process that found or left a torn line, or whose stream is not good,  *)
(* knows of a failure; one that does not run is in no call.                *)
FailuresAreNoted ==
    /\ up /\ (torn \/ stream # "good") => ~clean
    /\ ~up => current = NoMessage

LogInv == LogTypeOK /\ FailuresAreNoted /\ MemoryMirrorsFile

Lines == Seq(Pieces)

(* Adding a line to the queue adds it to all that was seen of the file.    *)
LEMMA AppendAtEnd ==
    ASSUME NEW T, NEW s \in Seq(T), NEW t \in Seq(T), NEW m \in Seq(T), NEW x \in T
    PROVE  s \o t \o Append(m, x) = Append(s \o t \o m, x)
<1>1. s \o t \in Seq(T)
  OBVIOUS
<1>2. /\ Append(m, x) = m \o <<x>>
      /\ Append(s \o t \o m, x) = (s \o t \o m) \o <<x>>
  BY <1>1, AppendIsConcat
<1>3. QED
  BY <1>1, <1>2, ConcatAssociative

(* What four sequences make does not depend on how they are put together.  *)
LEMMA FourSequences ==
    ASSUME NEW T, NEW s \in Seq(T), NEW t \in Seq(T), NEW h \in Seq(T), NEW r \in Seq(T)
    PROVE  s \o (t \o h) \o r = s \o t \o (h \o r)
<1>1. s \o t \in Seq(T)
  OBVIOUS
<1>2. (s \o t) \o h = s \o (t \o h)
  BY ConcatAssociative, SMTT(30)
<1>3. ((s \o t) \o h) \o r = (s \o t) \o (h \o r)
  BY <1>1, ConcatAssociative, SMTT(30)
<1>4. QED
  BY <1>2, <1>3

(* Taking the first line of the queue only moves it.                       *)
LEMMA TakeMoves ==
    \A s, t, m \in Seq(Lines) :
        m # <<>> => s \o Append(t, Head(m)) \o Tail(m) = s \o t \o m
<1> SUFFICES ASSUME NEW s \in Seq(Lines), NEW t \in Seq(Lines),
                    NEW m \in Seq(Lines), m # <<>>
             PROVE  s \o Append(t, Head(m)) \o Tail(m) = s \o t \o m
  OBVIOUS
<1>1. /\ <<Head(m)>> \in Seq(Lines) /\ Tail(m) \in Seq(Lines)
      /\ m = <<Head(m)>> \o Tail(m)
      /\ Append(t, Head(m)) = t \o <<Head(m)>>
  BY AppendIsConcat
<1>2. s \o (t \o <<Head(m)>>) \o Tail(m) = s \o t \o (<<Head(m)>> \o Tail(m))
  BY <1>1, FourSequences, SMTT(30)
<1>3. QED
  BY <1>1, <1>2, Zenon

(* The file with one more piece has one line more, or a longer last one.   *)
LEMMA ExtendedType ==
    ASSUME LogTypeOK, NEW piece \in Pieces
    PROVE  /\ Extended(piece) \in Seq(Lines)
           /\ Extended(piece) # <<>>
           /\ Last(Last(Extended(piece))) = piece
           /\ ~torn => Extended(piece) = Append(file, <<piece>>)
<1>1. file \in Seq(Lines)
  BY DEF LogTypeOK, Lines
<1>2. CASE ~torn
  <2>1. <<piece>> \in Lines /\ <<piece>>[Len(<<piece>>)] = piece
    BY DEF Lines
  <2> DEFINE line == <<piece>>
  <2>2. line \in Lines /\ line[Len(line)] = piece
    BY <2>1
  <2> HIDE DEF line
  <2>3. /\ Append(file, line) \in Seq(Lines)
        /\ Append(file, line) # <<>>
        /\ Last(Append(file, line)) = line
    BY <1>1, <2>2 DEF Last
  <2>4. Extended(piece) = Append(file, line)
    BY <1>2 DEF Extended, line
  <2>5. QED
    BY <2>2, <2>3, <2>4 DEF Last, line
<1>3. CASE torn
  <2>1. file # <<>> /\ Len(file) \in Nat \ {0}
    BY <1>1, <1>3 DEF LogTypeOK
  <2>2. Last(file) \in Lines
    BY <1>1, <2>1 DEF Last
  <2> DEFINE line == Append(Last(file), piece)
  <2>3. line \in Lines /\ line[Len(line)] = piece
    BY <2>2 DEF Lines
  <2>4. Front(file) \in Seq(Lines)
    BY <1>1, <2>1 DEF Front
  <2> HIDE DEF line
  <2>5. /\ Front(file) \o <<line>> \in Seq(Lines)
        /\ Front(file) \o <<line>> # <<>>
        /\ Last(Front(file) \o <<line>>) = line
    BY <2>3, <2>4 DEF Last
  <2>6. Extended(piece) = Front(file) \o <<line>>
    BY <1>3 DEF Extended, line
  <2>7. QED
    BY <2>3, <2>5, <2>6, <1>3 DEF Last
<1>4. QED
  BY <1>2, <1>3

(* What is common to the four ways in which a call returns.                *)
LEMMA ReturnTypes ==
    ASSUME LogTypeOK, Return
    PROVE  /\ current \in Messages
           /\ program' \in Programs /\ up' \in BOOLEAN /\ current' = NoMessage
           /\ \A s \in {memory', taken', skipped'} : s \in Seq(Lines)
           /\ added' \subseteq Messages /\ starts' \in 0..MaxStarts
  BY DEF LogTypeOK, Return, Lines

(* The types, and what a torn line or a bad stream tells.                  *)
LEMMA TypeStep ==
    ASSUME LogTypeOK, FailuresAreNoted, [LogNext]_logVars
    PROVE  LogTypeOK' /\ FailuresAreNoted'
<1> USE DEF Lines
<1>1. CASE Start
  <2>1. /\ UNCHANGED <<program, files, current, added>>
        /\ up' = TRUE /\ ~up /\ taken' = <<>> /\ starts' = starts + 1
        /\ starts < MaxStarts
    BY <1>1 DEF Start
  <2>2. starts' \in 0..MaxStarts
    BY <2>1, StartsAssumption DEF LogTypeOK
  <2>3. /\ \A s \in {file', memory', taken', skipped'} : s \in Seq(Lines)
        /\ clean' \in BOOLEAN
        /\ stream' \in StreamStates /\ (stream' # "good" => program = "storage")
        /\ torn \/ stream' # "good" => ~clean'
    <3>0. file \in Seq(Lines) /\ <<>> \in Seq(Lines) /\ file' = file /\ torn \in BOOLEAN
      BY <2>1 DEF LogTypeOK, files
    <3>1. CASE OpenFile
      BY <2>1, <3>0, <3>1 DEF OpenFile, StreamStates
    <3>2. CASE MissFile
      BY <2>1, <3>0, <3>2 DEF MissFile, StreamStates
    <3>3. QED
      BY <1>1, <3>1, <3>2 DEF Start
  <2>4. QED
    BY <2>1, <2>2, <2>3 DEF LogTypeOK, FailuresAreNoted, files
<1>2. ASSUME NEW m \in Messages, Add(m)
      PROVE  LogTypeOK' /\ FailuresAreNoted'
  <2>1. <<Whole(m)>> \in Seq(Pieces)
    BY DEF Whole, Pieces
  <2>2. memory' \in Seq(Seq(Pieces))
    BY <1>2, <2>1 DEF Add, LogTypeOK
  <2>3. QED
    BY <1>2, <2>2 DEF Add, LogTypeOK, FailuresAreNoted, files
<1>3. CASE Write
  <2>1. Whole(current) \in Pieces /\ Whole(current).whole
    BY <1>3, ReturnTypes DEF Write, Whole, Pieces
  <2>2. file' \in Seq(Seq(Pieces))
    BY <1>3, <2>1, ExtendedType DEF Write
  <2>3. written' \in Seq(Messages)
    BY <1>3, ReturnTypes DEF Write, LogTypeOK
  <2>4. QED
    BY <1>3, <2>2, <2>3, ReturnTypes DEF Write, LogTypeOK, FailuresAreNoted, Return
<1>4. CASE OpenFails
  BY <1>4, ReturnTypes DEF OpenFails, LogTypeOK, FailuresAreNoted, Return, files
<1>5. CASE WriteCutShort
  <2>1. Part(current) \in Pieces /\ ~Part(current).whole
    BY <1>5, ReturnTypes DEF WriteCutShort, Part, Pieces
  <2>2. /\ file' \in Seq(Seq(Pieces)) /\ file' # <<>>
        /\ ~Last(Last(file')).whole
    BY <1>5, <2>1, ExtendedType DEF WriteCutShort
  <2>3. QED
    BY <1>5, <2>2, ReturnTypes
       DEF WriteCutShort, LogTypeOK, FailuresAreNoted, Return, StreamStates
<1>6. CASE Drop
  BY <1>6, ReturnTypes DEF Drop, LogTypeOK, FailuresAreNoted, Return, files, StreamStates
<1>7. ASSUME NEW n \in 1..(Len(file) + 1), ReadEvent(n)
      PROVE  LogTypeOK' /\ FailuresAreNoted'
  <2>1. Len(file) \in Nat
    BY DEF LogTypeOK
  <2>2. CASE n <= Len(file)
    BY <1>7, <2>1, <2>2
       DEF ReadEvent, AfterReading, LogTypeOK, FailuresAreNoted, files, StreamStates
  <2>3. CASE n > Len(file)
    BY <1>7, <2>1, <2>3
       DEF ReadEvent, AfterReading, LogTypeOK, FailuresAreNoted, files, StreamStates
  <2>4. QED
    BY <2>1, <2>2, <2>3
<1>8. CASE Take
  <2>1. Head(memory) \in Lines /\ Tail(memory) \in Seq(Lines)
    BY <1>8 DEF Take, LogTypeOK
  <2>2. taken' \in Seq(Lines) /\ memory' \in Seq(Lines)
    BY <1>8, <2>1 DEF Take, LogTypeOK
  <2>3. QED
    BY <1>8, <2>2 DEF Take, LogTypeOK, FailuresAreNoted, files
<1>9. CASE Stop
  <2>1. <<>> \in Seq(Lines)
    OBVIOUS
  <2>2. /\ UNCHANGED <<program, file, torn, everTorn, written, skipped, clean,
                         added, starts>>
        /\ ~up' /\ up' \in BOOLEAN /\ current' = NoMessage /\ stream' = "good"
        /\ memory' = <<>> /\ taken' = <<>>
    BY <1>9 DEF Stop, files
  <2>3. QED
    BY <2>1, <2>2 DEF LogTypeOK, FailuresAreNoted, StreamStates
<1>10. CASE UNCHANGED logVars
  BY <1>10 DEF logVars, files, LogTypeOK, FailuresAreNoted
<1>11. QED
  BY <1>1, <1>2, <1>3, <1>4, <1>5, <1>6, <1>7, <1>8, <1>9, <1>10 DEF LogNext

(* A failure makes the process not clean, and only Add and Write change    *)
(* what memory and file hold together.                                     *)
LEMMA MirrorsStep ==
    ASSUME LogInv, [LogNext]_logVars
    PROVE  MemoryMirrorsFile'
<1> USE DEF LogInv
<1>0. /\ \A s \in {file, memory, taken, skipped} : s \in Seq(Lines)
      /\ (up /\ clean => stream = "good" /\ ~torn)
      /\ LogTypeOK /\ FailuresAreNoted /\ MemoryMirrorsFile
  BY DEF LogTypeOK, FailuresAreNoted, Lines
<1>1. CASE Start
  <2>1. current' = NoMessage /\ file' = file /\ taken' = <<>>
    BY <1>1 DEF Start, FailuresAreNoted, files
  <2>2. CASE MissFile
    BY <2>2 DEF MissFile, MemoryMirrorsFile
  <2>3. CASE OpenFile
    <3>1. \/ memory' = <<>> /\ skipped' = file
          \/ memory' = file /\ skipped' = <<>>
      BY <2>3 DEF OpenFile
    <3>2. skipped' \o taken' \o memory' = file
      BY <1>0, <2>1, <3>1, ConcatEmptySeq, <<>> \in Seq(Lines)
    <3>3. QED
      BY <2>1, <3>2 DEF MemoryMirrorsFile
  <2>4. QED
    BY <1>1, <2>2, <2>3 DEF Start
<1>2. ASSUME NEW m \in Messages, Add(m)
      PROVE  MemoryMirrorsFile'
  <2>1. /\ UNCHANGED <<file, up, clean, taken, skipped>>
        /\ current = NoMessage /\ current' = m
        /\ memory' = Append(memory, <<Whole(m)>>)
    BY <1>2 DEF Add, files
  <2>2. <<Whole(m)>> \in Lines /\ m # NoMessage
    BY NoMessageAssumption DEF Whole, Pieces, Lines
  <2>3. skipped \o taken \o memory'
          = Append(skipped \o taken \o memory, <<Whole(m)>>)
    BY <1>0, <2>1, <2>2, AppendAtEnd
  <2>4. QED
    BY <1>0, <2>1, <2>2, <2>3 DEF MemoryMirrorsFile
<1>3. CASE Write
  <2>1. /\ UNCHANGED <<up, clean, memory, taken, skipped>>
        /\ current # NoMessage /\ current' = NoMessage
        /\ file' = Extended(Whole(current))
    BY <1>3 DEF Write, Return
  <2>2. ~torn => file' = Append(file, <<Whole(current)>>)
    BY <2>1 DEF Extended
  <2>3. QED
    BY <1>0, <2>1, <2>2 DEF MemoryMirrorsFile
<1>4. CASE OpenFails \/ WriteCutShort
  BY <1>4 DEF OpenFails, WriteCutShort, MemoryMirrorsFile
<1>5. CASE Drop
  BY <1>0, <1>5 DEF Drop, Return, MemoryMirrorsFile
<1>6. ASSUME NEW n \in 1..(Len(file) + 1), ReadEvent(n)
      PROVE  MemoryMirrorsFile'
  <2>1. /\ UNCHANGED <<file, up, current, memory, taken, skipped>>
        /\ clean' => clean
    BY <1>6 DEF ReadEvent, files
  <2>2. QED
    BY <1>0, <2>1 DEF MemoryMirrorsFile
<1>7. CASE Take
  <2>1. /\ UNCHANGED <<file, up, clean, current, skipped>>
        /\ memory # <<>>
        /\ taken' = Append(taken, Head(memory)) /\ memory' = Tail(memory)
    BY <1>7 DEF Take, files
  <2>2. skipped \o taken' \o memory' = skipped \o taken \o memory
    <3>1. skipped \in Seq(Lines) /\ taken \in Seq(Lines) /\ memory \in Seq(Lines)
      BY <1>0
    <3>2. skipped \o Append(taken, Head(memory)) \o Tail(memory)
            = skipped \o taken \o memory
      BY <2>1, <3>1, TakeMoves, Zenon
    <3>3. QED
      BY <2>1, <3>2
  <2>3. QED
    BY <1>0, <2>1, <2>2 DEF MemoryMirrorsFile
<1>8. CASE Stop
  BY <1>8 DEF Stop, MemoryMirrorsFile
<1>9. CASE UNCHANGED logVars
  BY <1>0, <1>9 DEF logVars, files, MemoryMirrorsFile
<1>10. QED
  BY <1>1, <1>2, <1>3, <1>4, <1>5, <1>6, <1>7, <1>8, <1>9 DEF LogNext

(* The invariant is inductive.                                             *)
LEMMA LogInvHolds == LogSpec => []LogInv
<1>1. LogInit => LogInv
  <2> SUFFICES ASSUME LogInit PROVE LogInv
    OBVIOUS
  <2>1. <<>> \in Seq(Lines) /\ <<>> \in Seq(Messages)
    OBVIOUS
  <2>2. \A s \in {file, memory, taken, skipped} : s \in Seq(Seq(Pieces))
    <3>1. <<>> \in Seq(Seq(Pieces))
      OBVIOUS
    <3>2. QED
      BY <3>1 DEF LogInit
  <2>3. starts \in 0..MaxStarts
    BY StartsAssumption DEF LogInit
  <2>4. LogTypeOK
    BY <2>1, <2>2, <2>3 DEF LogInit, LogTypeOK, StreamStates
  <2>5. QED
    BY <2>4 DEF LogInit, LogInv, FailuresAreNoted, MemoryMirrorsFile
<1>2. LogInv /\ [LogNext]_logVars => LogInv'
  BY TypeStep, MirrorsStep DEF LogInv
<1>3. QED
  BY <1>1, <1>2, PTL DEF LogSpec

-----------------------------------------------------------------------------
(* The files, the queues and the histories of the three programs keep      *)
(* their types, and a torn line ends in a piece that is not whole.         *)
THEOREM LogTypeCorrect == LogSpec => []LogTypeOK
<1>1. LogInv => LogTypeOK
  BY DEF LogInv
<1>2. QED
  BY <1>1, LogInvHolds, PTL

(* While nothing fails, what was found, taken and queued is the file: the  *)
(* broker that is started again offers everything in order, and what is    *)
(* appended to the storage gets into the file.                             *)
THEOREM MemoryMirrors == LogSpec => []MemoryMirrorsFile
<1>1. LogInv => MemoryMirrorsFile
  BY DEF LogInv
<1>2. QED
  BY <1>1, LogInvHolds, PTL
-----------------------------------------------------------------------------
(* The j-th piece of the i-th line.                                        *)
HasPiece(lines, i, j) == i \in DOMAIN lines /\ j \in DOMAIN lines[i]

(* What it is to be the place of a whole piece.                            *)
LEMMA PlaceOfWhole ==
    ASSUME NEW lines, NEW x
    PROVE  x \in WholePlaces(lines) <=>
             x = <<x[1], x[2]>> /\ HasPiece(lines, x[1], x[2]) /\ lines[x[1]][x[2]].whole
<1>1. ASSUME x \in WholePlaces(lines)
      PROVE  x = <<x[1], x[2]>> /\ HasPiece(lines, x[1], x[2]) /\ lines[x[1]][x[2]].whole
  <2>1. PICK i \in DOMAIN lines : x \in {<<i, j>> : j \in {j \in DOMAIN lines[i] : lines[i][j].whole}}
    BY <1>1 DEF WholePlaces
  <2>2. PICK j \in DOMAIN lines[i] : lines[i][j].whole /\ x = <<i, j>>
    BY <2>1
  <2>3. x[1] = i /\ x[2] = j
    BY <2>2
  <2>4. QED
    BY <2>1, <2>2, <2>3 DEF HasPiece
<1>2. ASSUME x = <<x[1], x[2]>>, HasPiece(lines, x[1], x[2]), lines[x[1]][x[2]].whole
      PROVE  x \in WholePlaces(lines)
  BY <1>2 DEF HasPiece, WholePlaces
<1>3. QED
  BY <1>1, <1>2

(* The written messages are the whole pieces of the file, in order.        *)
Matches(lines, messages, at) ==
    /\ at \in [DOMAIN messages -> WholePlaces(lines)]
    /\ WholePlaces(lines) = {at[k] : k \in DOMAIN messages}
    /\ \A k \in DOMAIN messages : lines[at[k][1]][at[k][2]].message = messages[k]
    /\ \A j, k \in DOMAIN messages : j < k => Before(at[j], at[k])

(* One more piece at the end of the file.                                  *)
Follows(lines, longer, piece, a, b) ==
    /\ \A i, j : HasPiece(longer, i, j) <=> HasPiece(lines, i, j) \/ (i = a /\ j = b)
    /\ \A i, j : HasPiece(lines, i, j) => longer[i][j] = lines[i][j]
    /\ \A i, j : HasPiece(lines, i, j) => i < a \/ (i = a /\ j < b)
    /\ longer[a][b] = piece

(* A piece that is not whole changes nothing about the whole ones.         *)
LEMMA PartFollows ==
    ASSUME NEW lines, NEW longer, NEW piece, NEW a, NEW b, Follows(lines, longer, piece, a, b),
           ~piece.whole, NEW messages, NEW at, Matches(lines, messages, at),
           ~HasPiece(lines, a, b)
    PROVE  Matches(longer, messages, at)
<1>1. ASSUME NEW x PROVE x \in WholePlaces(longer) <=> x \in WholePlaces(lines)
  <2>1. HasPiece(lines, x[1], x[2]) => longer[x[1]][x[2]] = lines[x[1]][x[2]]
    BY DEF Follows
  <2>2. HasPiece(longer, x[1], x[2]) <=> HasPiece(lines, x[1], x[2]) \/ (x[1] = a /\ x[2] = b)
    BY DEF Follows
  <2>3. longer[a][b] = piece
    BY DEF Follows
  <2>4. QED
    BY <2>1, <2>2, <2>3, PlaceOfWhole
<1>2. WholePlaces(longer) = WholePlaces(lines)
  BY <1>1
<1>3. ASSUME NEW k \in DOMAIN messages
      PROVE  longer[at[k][1]][at[k][2]].message = messages[k]
  <2>1. at[k] \in WholePlaces(lines)
    BY DEF Matches
  <2>2. HasPiece(lines, at[k][1], at[k][2])
    BY <2>1, PlaceOfWhole
  <2>3. longer[at[k][1]][at[k][2]] = lines[at[k][1]][at[k][2]]
    BY <2>2 DEF Follows
  <2>4. QED
    BY <2>3 DEF Matches
<1>4. QED
  BY <1>2, <1>3 DEF Matches

(* A whole piece at the end is one more message at the end.                *)
LEMMA WholeFollows ==
    ASSUME NEW lines, NEW longer, NEW m, NEW a, NEW b, Follows(lines, longer, Whole(m), a, b),
           NEW messages \in Seq(Messages), m \in Messages,
           NEW at, Matches(lines, messages, at)
    PROVE  \E at2 : Matches(longer, Append(messages, m), at2)
<1> DEFINE n == Len(messages) + 1
           more == Append(messages, m)
           at2 == [k \in DOMAIN more |-> IF k = n THEN <<a, b>> ELSE at[k]]
<1>1. /\ DOMAIN messages = 1..Len(messages) /\ Len(messages) \in Nat
      /\ DOMAIN more = DOMAIN messages \cup {n} /\ n \notin DOMAIN messages
      /\ more[n] = m /\ \A k \in DOMAIN messages : more[k] = messages[k]
      /\ n \in Nat /\ \A k \in DOMAIN messages : k \in Nat /\ k < n
  OBVIOUS
<1>2. Whole(m).whole /\ Whole(m).message = m
  BY DEF Whole
<1>3. /\ at \in [DOMAIN messages -> WholePlaces(lines)]
      /\ WholePlaces(lines) = {at[k] : k \in DOMAIN messages}
      /\ \A k \in DOMAIN messages : lines[at[k][1]][at[k][2]].message = messages[k]
      /\ \A j, k \in DOMAIN messages : j < k => Before(at[j], at[k])
  BY DEF Matches
<1> HIDE DEF more, n
<1>4. ASSUME NEW x PROVE x \in WholePlaces(longer) <=> x \in WholePlaces(lines) \/ x = <<a, b>>
  <2>1. HasPiece(lines, x[1], x[2]) => longer[x[1]][x[2]] = lines[x[1]][x[2]]
    BY DEF Follows
  <2>2. HasPiece(longer, x[1], x[2]) <=> HasPiece(lines, x[1], x[2]) \/ (x[1] = a /\ x[2] = b)
    BY DEF Follows
  <2>3. longer[a][b].whole
    BY <1>2 DEF Follows
  <2>4. x = <<a, b>> => x = <<x[1], x[2]>> /\ x[1] = a /\ x[2] = b
    OBVIOUS
  <2>5. x = <<x[1], x[2]>> /\ x[1] = a /\ x[2] = b => x = <<a, b>>
    OBVIOUS
  <2>6. QED
    BY <2>1, <2>2, <2>3, <2>4, <2>5, PlaceOfWhole
<1>5. /\ DOMAIN at2 = DOMAIN more /\ at2[n] = <<a, b>>
      /\ \A k \in DOMAIN messages : at2[k] = at[k]
  BY <1>1
<1>6. at2 \in [DOMAIN more -> WholePlaces(longer)]
  BY <1>1, <1>3, <1>4
<1> HIDE DEF at2
<1>7. WholePlaces(longer) = {at2[k] : k \in DOMAIN more}
  <2>1. \A x \in WholePlaces(longer) : \E k \in DOMAIN more : x = at2[k]
    BY <1>1, <1>3, <1>4, <1>5
  <2>2. \A k \in DOMAIN more : at2[k] \in WholePlaces(longer)
    BY <1>6
  <2>3. QED
    BY <2>1, <2>2
<1>8. ASSUME NEW k \in DOMAIN messages
      PROVE  /\ HasPiece(lines, at[k][1], at[k][2])
             /\ longer[at[k][1]][at[k][2]].message = messages[k]
  <2>1. at[k] \in WholePlaces(lines)
    BY <1>3
  <2>2. HasPiece(lines, at[k][1], at[k][2])
    BY <2>1, PlaceOfWhole
  <2>3. longer[at[k][1]][at[k][2]] = lines[at[k][1]][at[k][2]]
    BY <2>2 DEF Follows
  <2>4. QED
    BY <1>3, <2>2, <2>3
<1>9. ASSUME NEW k \in DOMAIN more PROVE longer[at2[k][1]][at2[k][2]].message = more[k]
  <2>1. CASE k = n
    <3>1. at2[k][1] = a /\ at2[k][2] = b
      BY <1>5, <2>1
    <3>2. longer[a][b].message = m
      BY <1>2 DEF Follows
    <3>3. QED
      BY <1>1, <2>1, <3>1, <3>2
  <2>2. CASE k # n
    BY <1>1, <1>5, <1>8, <2>2
  <2>3. QED
    BY <2>1, <2>2
<1>10. ASSUME NEW j \in DOMAIN more, NEW k \in DOMAIN more, j < k PROVE Before(at2[j], at2[k])
  <2>1. CASE k = n
    <3>1. j \in DOMAIN messages
      BY <1>1, <1>10, <2>1
    <3>2. at2[j] = at[j] /\ HasPiece(lines, at[j][1], at[j][2])
      BY <1>5, <1>8, <3>1
    <3>3. at[j][1] < a \/ (at[j][1] = a /\ at[j][2] < b)
      BY <3>2 DEF Follows
    <3>4. at2[k][1] = a /\ at2[k][2] = b
      BY <1>5, <2>1
    <3>5. QED
      BY <3>2, <3>3, <3>4 DEF Before
  <2>2. CASE k # n
    <3>1. k \in DOMAIN messages /\ j \in DOMAIN messages
      BY <1>1, <1>10, <2>2
    <3>2. QED
      BY <1>3, <1>5, <1>10, <3>1
  <2>3. QED
    BY <2>1, <2>2
<1>11. Matches(longer, more, at2)
  BY <1>6, <1>7, <1>9, <1>10 DEF Matches
<1>12. QED
  BY <1>11 DEF more

(* What Extended adds follows the file.                                    *)
LEMMA ExtendedFollows ==
    ASSUME LogTypeOK, NEW piece \in Pieces
    PROVE  \E a, b : Follows(file, Extended(piece), piece, a, b) /\ ~HasPiece(file, a, b)
<1>1. file \in Seq(Lines) /\ \A i \in DOMAIN file : file[i] \in Seq(Pieces)
  BY DEF LogTypeOK, Lines
<1> DEFINE longer == Extended(piece)
           n == Len(file)
<1>2. n \in Nat /\ DOMAIN file = 1..n /\ \A i \in DOMAIN file : i <= n /\ i \in Nat
  BY <1>1
<1>3. CASE ~torn
  <2> DEFINE line == <<piece>>
  <2>1. longer = Append(file, line)
    BY <1>3 DEF Extended
  <2>2. DOMAIN line = 1..1 /\ line[1] = piece /\ line \in Lines
    BY DEF Lines
  <2> HIDE DEF line
  <2>3. /\ DOMAIN longer = 1..(n + 1) /\ longer[n + 1] = line
        /\ \A i \in 1..n : longer[i] = file[i]
    BY <1>1, <2>1, <2>2
  <2> HIDE DEF longer, n
  <2>4. \A i, j : HasPiece(longer, i, j) <=> HasPiece(file, i, j) \/ (i = n + 1 /\ j = 1)
    <3> TAKE i, j
    <3>1. i \in 1..(n + 1) <=> i \in 1..n \/ i = n + 1
      BY <1>2
    <3>2. n + 1 \notin 1..n /\ (j \in 1..1 <=> j = 1)
      BY <1>2
    <3>3. QED
      BY <1>2, <2>2, <2>3, <3>1, <3>2 DEF HasPiece
  <2>5. \A i, j : HasPiece(file, i, j) => longer[i][j] = file[i][j]
    BY <1>2, <2>3 DEF HasPiece
  <2>6. \A i, j : HasPiece(file, i, j) => i < n + 1
    BY <1>2 DEF HasPiece
  <2>7. longer[n + 1][1] = piece
    BY <2>2, <2>3
  <2>8. ~HasPiece(file, n + 1, 1)
    BY <1>2 DEF HasPiece
  <2>9. Follows(file, longer, piece, n + 1, 1)
    BY <2>4, <2>5, <2>6, <2>7 DEF Follows
  <2>10. QED
    BY <2>8, <2>9 DEF longer
<1>4. CASE torn
  <2>1. n # 0 /\ n \in DOMAIN file /\ Last(file) = file[n] /\ file[n] \in Seq(Pieces)
    BY <1>1, <1>2, <1>4 DEF LogTypeOK, Last
  <2> DEFINE line == Append(file[n], piece)
             c == Len(file[n]) + 1
  <2>2. /\ DOMAIN line = 1..c /\ DOMAIN file[n] = 1..(c - 1) /\ c \in Nat /\ c # 0 /\ line[c] = piece
        /\ \A j \in DOMAIN file[n] : line[j] = file[n][j]
        /\ line \in Lines
    BY <2>1 DEF Lines
  <2>3. longer = Front(file) \o <<line>>
    BY <1>4, <2>1 DEF Extended
  <2> HIDE DEF line
  <2>4. /\ Front(file) \in Seq(Lines) /\ Len(Front(file)) = n - 1
        /\ \A i \in 1..(n - 1) : Front(file)[i] = file[i]
    BY <1>1, <1>2, <2>1 DEF Front
  <2>5. /\ DOMAIN longer = 1..n /\ longer[n] = line
        /\ \A i \in 1..(n - 1) : longer[i] = file[i]
    <3> DEFINE front == Front(file)
    <3>1. front \in Seq(Lines) /\ Len(front) = n - 1 /\ longer = front \o <<line>>
      BY <2>3, <2>4
    <3> HIDE DEF front
    <3>2. /\ Len(front \o <<line>>) = (n - 1) + 1
          /\ \A i \in 1..(n - 1) : (front \o <<line>>)[i] = front[i]
          /\ (front \o <<line>>)[(n - 1) + 1] = line
          /\ front \o <<line>> \in Seq(Lines)
      BY <2>2, <3>1
    <3> HIDE DEF longer, n
    <3>3. (n - 1) + 1 = n
      BY <1>2
    <3>4. QED
      BY <2>4, <3>1, <3>2, <3>3 DEF front
  <2> HIDE DEF longer, n, c
  <2>6. \A i : i \in 1..n <=> i \in 1..(n - 1) \/ i = n
    BY <1>2, <2>1
  <2>7. \A i, j : HasPiece(longer, i, j) <=> HasPiece(file, i, j) \/ (i = n /\ j = c)
    <3> TAKE i, j
    <3>1. j \in 1..c <=> j \in 1..(c - 1) \/ j = c
      BY <2>2
    <3>2. n \notin 1..(n - 1)
      BY <1>2
    <3>3. QED
      BY <1>2, <2>1, <2>2, <2>5, <2>6, <3>1, <3>2 DEF HasPiece
  <2>8. \A i, j : HasPiece(file, i, j) => longer[i][j] = file[i][j]
    BY <1>2, <2>2, <2>5, <2>6 DEF HasPiece
  <2>9. \A i, j : HasPiece(file, i, j) => i < n \/ (i = n /\ j < c)
    BY <1>2, <2>1, <2>2, <2>6 DEF HasPiece
  <2>10. longer[n][c] = piece /\ ~HasPiece(file, n, c)
    BY <2>2, <2>5 DEF HasPiece
  <2>11. Follows(file, longer, piece, n, c)
    BY <2>7, <2>8, <2>9, <2>10 DEF Follows
  <2>12. QED
    BY <2>10, <2>11 DEF longer
<1>5. QED
  BY <1>3, <1>4

-----------------------------------------------------------------------------
(* The whole pieces of the file are what was written, in order; a torn     *)
(* line was cut short, and until some line was, each holds one piece.      *)
FileInv ==
    /\ \E at : Matches(file, written, at)
    /\ torn => everTorn
    /\ ~everTorn => \A i \in DOMAIN file : Len(file[i]) = 1

(* The empty file holds nothing, and nothing was written.                  *)
LEMMA FileInit == LogInit => FileInv
<1> SUFFICES ASSUME LogInit PROVE FileInv
  OBVIOUS
<1>1. file = <<>> /\ written = <<>> /\ ~torn
  BY DEF LogInit
<1>2. DOMAIN file = {} /\ DOMAIN written = {}
  BY <1>1
<1>3. WholePlaces(file) = {}
  BY <1>2 DEF WholePlaces
<1> DEFINE at == [k \in {} |-> k]
<1>4. at \in [DOMAIN written -> WholePlaces(file)]
  BY <1>2
<1>5. Matches(file, written, at)
  BY <1>2, <1>3, <1>4 DEF Matches
<1>6. QED
  BY <1>1, <1>2, <1>5 DEF FileInv

(* A file with a line more, of one piece, has only lines of one piece if   *)
(* it had before.                                                          *)
LEMMA OnePieceLines ==
    ASSUME LogTypeOK, FileInv, ~everTorn, NEW piece \in Pieces
    PROVE  \A i \in DOMAIN Extended(piece) : Len(Extended(piece)[i]) = 1
<1>1. ~torn /\ file \in Seq(Lines)
  BY DEF FileInv, LogTypeOK, Lines
<1> DEFINE line == <<piece>>
<1>2. line \in Lines /\ Len(line) = 1
  BY DEF Lines
<1>3. Extended(piece) = Append(file, line)
  BY <1>1 DEF Extended
<1> HIDE DEF line
<1>4. \A i \in DOMAIN Append(file, line) :
        Append(file, line)[i] = line \/ (i \in DOMAIN file /\ Append(file, line)[i] = file[i])
  BY <1>1, <1>2
<1>5. \A i \in DOMAIN file : Len(file[i]) = 1
  BY DEF FileInv
<1>6. QED
  BY <1>2, <1>3, <1>4, <1>5

(* Only the two ways of writing change the file, and both at its end.      *)
LEMMA FileStep ==
    ASSUME LogTypeOK, FileInv, [LogNext]_logVars
    PROVE  FileInv'
<1>1. CASE Write
  <2>1. /\ file' = Extended(Whole(current)) /\ torn' = FALSE
        /\ written' = Append(written, current) /\ everTorn' = everTorn
        /\ current \in Messages
    BY <1>1, ReturnTypes DEF Write
  <2>2. Whole(current) \in Pieces
    BY <2>1 DEF Whole, Pieces
  <2>3. PICK a, b : Follows(file, Extended(Whole(current)), Whole(current), a, b)
    BY <2>2, ExtendedFollows
  <2>4. PICK at : Matches(file, written, at)
    BY DEF FileInv
  <2>5. written \in Seq(Messages)
    BY DEF LogTypeOK
  <2>6. PICK at2 : Matches(Extended(Whole(current)), Append(written, current), at2)
    BY <2>1, <2>3, <2>4, <2>5, WholeFollows
  <2>7. ~everTorn => \A i \in DOMAIN file' : Len(file'[i]) = 1
    BY <2>1, <2>2, OnePieceLines
  <2>8. QED
    <3>1. \E x : Matches(file', written', x)
      BY <2>1, <2>6
    <3>2. QED
      BY <2>1, <2>7, <3>1 DEF FileInv, Matches
<1>2. CASE WriteCutShort
  <2>1. /\ file' = Extended(Part(current)) /\ written' = written /\ everTorn' = TRUE
        /\ current \in Messages
    BY <1>2, ReturnTypes DEF WriteCutShort
  <2>2. Part(current) \in Pieces /\ ~Part(current).whole
    BY <2>1 DEF Part, Pieces
  <2>3. PICK a, b : Follows(file, Extended(Part(current)), Part(current), a, b) /\ ~HasPiece(file, a, b)
    BY <2>2, ExtendedFollows
  <2>4. PICK at : Matches(file, written, at)
    BY DEF FileInv
  <2>5. Matches(Extended(Part(current)), written, at)
    BY <2>2, <2>3, <2>4, PartFollows
  <2>6. QED
    BY <2>1, <2>5 DEF FileInv, Matches
<1>3. CASE UNCHANGED files
  BY <1>3 DEF FileInv, Matches, files
<1>4. CASE UNCHANGED logVars
  BY <1>3, <1>4 DEF logVars
<1>5. CASE \/ Start \/ (\E m \in Messages : Add(m)) \/ OpenFails \/ Drop
           \/ (\E n \in 1..(Len(file) + 1) : ReadEvent(n)) \/ Take \/ Stop
  BY <1>3, <1>5 DEF Start, Add, OpenFails, Drop, ReadEvent, Take, Stop
<1>6. QED
  BY <1>1, <1>2, <1>4, <1>5 DEF LogNext

(* Nothing that reached the file is ever lost, doubled or reordered there, *)
(* however often a process died.                                           *)
THEOREM FileKeeps == LogSpec => []FileKeepsWritten
<1>1. LogInit => FileInv
  BY FileInit
<1>2. LogTypeOK /\ FileInv /\ [LogNext]_logVars => FileInv'
  BY FileStep
<1>3. FileInv => FileKeepsWritten
  BY DEF FileInv, Matches, FileKeepsWritten
<1>4. QED
  BY <1>1, <1>2, <1>3, LogTypeCorrect, PTL DEF LogSpec
=============================================================================
