--------------------------- MODULE ArchiverProofs ---------------------------
(* Theorems about Archiver, for every length of chunk, silence and lag.    *)
EXTENDS Archiver, SequenceTheorems, TLAPS

Live == phase \in {"running", "draining"}

(* What the first invariant knows of pieces: the bounds that inverted      *)
(* pieces have too                                                         *)
Bounded(piece) == 0 <= piece.start /\ piece.end <= ChunkLength

PiecesBounded ==
  \A i \in 1 .. Len(ops) :
    \A j \in 1 .. Len(ops[i].pieces) : Bounded(ops[i].pieces[j])

(* Nothing was heard yet. *)
IdleInv ==
  phase = "idle" =>
    /\ currentFile = NoFile
    /\ recordingStarted = NotStarted
    /\ fileIndex = 0
    /\ inSilence = FALSE
    /\ audioStarted = 0
    /\ spans = << >>
    /\ ops = << >>
    /\ filtered = 0
    /\ muxed = 0
    /\ segment = 0
    /\ detected = FALSE

(* The archiver's chunk is the muxer's segment, at most Lag behind the     *)
(* filter.                                                                 *)
LiveInv ==
  Live =>
    /\ currentFile = fileIndex
    /\ segment = fileIndex
    /\ recordingStarted \in Nat
    /\ Len(ops) = fileIndex
    /\ startOffset <= muxed
    /\ muxed <= endOfChunk
    /\ muxed <= filtered
    /\ filtered <= muxed + Lag
    /\ audioStarted <= filtered

(* The archiver's inSilence is what silencedetect has reported. *)
SilenceInv ==
  /\ phase = "running" => inSilence = detected
  /\ phase = "draining" => inSilence = FALSE

(* A piece that is being spoken began in this chunk, or at its beginning. *)
SpeechInv == Live /\ ~inSilence => startOffset <= audioStarted

(* The pieces of this chunk so far lie in it, in order ... *)
SpansInv ==
  /\ \A j \in 1 .. Len(spans) : Bounded(spans[j])
  /\ \A j \in 1 .. Len(spans) - 1 : spans[j].end <= spans[j + 1].start

(* ... and end before what is being heard. *)
lastHeard == IF inSilence THEN filtered ELSE audioStarted

HeardInv ==
  Live /\ spans # << >> =>
    spans[Len(spans)].end <= lastHeard - startOffset

IInv ==
  /\ TypeOK
  /\ IdleInv
  /\ LiveInv
  /\ SilenceInv
  /\ SpeechInv
  /\ SpansInv
  /\ HeardInv
  /\ PiecesBounded
  /\ PiecesOrdered
  /\ ChunkTimestamps

-----------------------------------------------------------------------------
(* Offsets *)

(* The chunks lie end to end. *)
LEMMA Offsets ==
  ASSUME TypeOK
  PROVE  /\ startOffset \in Nat
         /\ endOfChunk \in Nat
         /\ endOfChunk = startOffset + ChunkLength
         /\ ChunkLength * (fileIndex + 1) = endOfChunk
         /\ ChunkLength * (fileIndex + 1) + ChunkLength
              = ChunkLength * (fileIndex + 2)
  <1> USE ArchiverAssumption DEF TypeOK
  <1>1. \A m, n \in Nat : m * n \in Nat /\ m * (n + 1) = m * n + m
    BY SMT
  <1>2. fileIndex + 1 \in Nat /\ fileIndex + 2 = (fileIndex + 1) + 1
    BY SMT
  <1> QED  BY <1>1, <1>2, SMT DEF startOffset, endOfChunk

(* Appending a piece that lies in the chunk, after the others, keeps the   *)
(* pieces in the chunk and in order.                                       *)
LEMMA AppendPiece ==
  ASSUME NEW s \in Seq(audioSpan), NEW p \in audioSpan,
         \A j \in 1 .. Len(s) : Bounded(s[j]),
         \A j \in 1 .. Len(s) - 1 : s[j].end <= s[j + 1].start,
         Bounded(p),
         s # << >> => s[Len(s)].end <= p.start
  PROVE  /\ Append(s, p) \in Seq(audioSpan)
         /\ Append(s, p)[Len(Append(s, p))] = p
         /\ \A j \in 1 .. Len(Append(s, p)) : Bounded(Append(s, p)[j])
         /\ \A j \in 1 .. Len(Append(s, p)) - 1 :
              Append(s, p)[j].end <= Append(s, p)[j + 1].start
  <1> DEFINE a == Append(s, p)
  <1>1. /\ a \in Seq(audioSpan)
        /\ Len(a) = Len(s) + 1
        /\ Len(s) \in Nat
        /\ \A j \in 1 .. Len(s) : a[j] = s[j]
        /\ a[Len(s) + 1] = p
    OBVIOUS
  <1>2. ASSUME NEW j \in 1 .. Len(a) PROVE Bounded(a[j])
    <2>1. CASE j \in 1 .. Len(s)  BY <1>1, <2>1
    <2>2. CASE j = Len(s) + 1  BY <1>1, <2>2
    <2> QED  BY <1>1, <2>1, <2>2
  <1>3. ASSUME NEW j \in 1 .. Len(a) - 1 PROVE a[j].end <= a[j + 1].start
    <2>1. CASE j \in 1 .. Len(s) - 1
      <3>1. j \in 1 .. Len(s) /\ j + 1 \in 1 .. Len(s)  BY <1>1, <2>1
      <3> QED  BY <1>1, <2>1, <3>1
    <2>2. CASE j = Len(s)
      <3>1. s # << >> /\ j \in 1 .. Len(s)  BY <1>1, <1>3, <2>2
      <3>2. a[j] = s[Len(s)] /\ a[j + 1] = p  BY <1>1, <2>2, <3>1
      <3> QED  BY <3>1, <3>2
    <2> QED  BY <1>1, <2>1, <2>2
  <1> HIDE DEF a
  <1> QED  BY <1>1, <1>2, <1>3 DEF a

-----------------------------------------------------------------------------
(* What completing a file does, whatever made it complete *)

LEMMA CompleteFile ==
  ASSUME IInv, Live, NEW more \in BOOLEAN, completeFile(more),
         recordingStarted' = recordingStarted
  PROVE  /\ ops' \in Seq(ArchiveOperation)
         /\ Len(ops') = Len(ops) + 1
         /\ audioStarted' \in Nat
         /\ more /\ ~inSilence => audioStarted' = endOfChunk
         /\ spans' = << >>
         /\ PiecesBounded'
         /\ PiecesOrdered'
         /\ ChunkTimestamps'
  <1> USE ArchiverAssumption
  <1>t. TypeOK  BY DEF IInv
  <1>o. /\ startOffset \in Nat
        /\ endOfChunk = startOffset + ChunkLength
    BY <1>t, Offsets
  <1>l. /\ currentFile = fileIndex
        /\ recordingStarted \in Nat
        /\ Len(ops) = fileIndex
    BY DEF IInv, LiveInv
  <1> DEFINE ps == piecesOf(more)
             op == [path      |-> currentFile,
                    timestamp |-> recordingStarted + startOffset,
                    pieces    |-> ps]
             tail == [start |-> audioStarted - startOffset,
                      end   |-> endOfChunk - startOffset]
  <1>1. /\ ps \in Seq(audioSpan)
        /\ \A j \in 1 .. Len(ps) : Bounded(ps[j])
        /\ \A j \in 1 .. Len(ps) - 1 : ps[j].end <= ps[j + 1].start
    <2>s. /\ spans \in Seq(audioSpan)
          /\ \A j \in 1 .. Len(spans) : Bounded(spans[j])
          /\ \A j \in 1 .. Len(spans) - 1 :
               spans[j].end <= spans[j + 1].start
      BY <1>t DEF IInv, SpansInv, TypeOK
    <2>1. CASE continues(more)
      <3>1. ~inSilence  BY <2>1 DEF continues
      <3>2. audioStarted \in Nat /\ startOffset <= audioStarted
        BY <3>1, <1>t DEF IInv, SpeechInv, TypeOK
      <3>3. tail \in audioSpan /\ Bounded(tail)
        BY <3>2, <1>o DEF audioSpan, Bounded
      <3>4. spans # << >> => spans[Len(spans)].end <= tail.start
        BY <3>1 DEF IInv, HeardInv, lastHeard
      <3>5. ps = Append(spans, tail)  BY <2>1 DEF piecesOf
      <3> HIDE DEF tail, ps
      <3> QED  BY <2>s, <3>3, <3>4, <3>5, AppendPiece
    <2>2. CASE ~continues(more)
      <3>1. ps = spans  BY <2>2 DEF piecesOf
      <3> HIDE DEF ps
      <3> QED  BY <2>s, <3>1
    <2> QED  BY <2>1, <2>2
  <1>2. op \in ArchiveOperation
    <2>1. currentFile \in Nat /\ recordingStarted + startOffset \in Nat
      BY <1>t, <1>o, <1>l DEF TypeOK
    <2> HIDE DEF ps
    <2> QED  BY <1>1, <2>1 DEF ArchiveOperation
  <1>3. ops' = Append(ops, op)  BY DEF completeFile
  <1>4. /\ ops \in Seq(ArchiveOperation)
        /\ Len(ops) \in Nat
    BY <1>t DEF TypeOK
  <1>5. op.path = Len(ops) /\ op.pieces = ps
        /\ op.timestamp = recordingStarted + ChunkLength * Len(ops)
    BY <1>l DEF startOffset
  <1> HIDE DEF op, ps
  <1>6. /\ ops' \in Seq(ArchiveOperation)
        /\ Len(ops') = Len(ops) + 1
        /\ \A i \in 1 .. Len(ops) : ops'[i] = ops[i]
        /\ ops'[Len(ops) + 1] = op
    BY <1>2, <1>3, <1>4
  <1>7. \A i \in 1 .. Len(ops') : i \in 1 .. Len(ops) \/ i = Len(ops) + 1
    BY <1>4, <1>6
  <1>8. PiecesBounded'
    <2> SUFFICES ASSUME NEW i \in 1 .. Len(ops'),
                        NEW j \in 1 .. Len(ops'[i].pieces)
                 PROVE  Bounded(ops'[i].pieces[j])
      BY DEF PiecesBounded, Bounded
    <2>1. CASE i \in 1 .. Len(ops)
      BY <1>6, <2>1 DEF IInv, PiecesBounded
    <2>2. CASE i = Len(ops) + 1
      BY <1>1, <1>5, <1>6, <2>2
    <2> QED  BY <1>7, <2>1, <2>2
  <1>9. PiecesOrdered'
    <2> SUFFICES ASSUME NEW i \in 1 .. Len(ops'),
                        NEW j \in 1 .. Len(ops'[i].pieces) - 1
                 PROVE  ops'[i].pieces[j].end <= ops'[i].pieces[j + 1].start
      BY DEF PiecesOrdered
    <2>1. CASE i \in 1 .. Len(ops)
      BY <1>6, <2>1 DEF IInv, PiecesOrdered
    <2>2. CASE i = Len(ops) + 1
      BY <1>1, <1>5, <1>6, <2>2
    <2> QED  BY <1>7, <2>1, <2>2
  <1>10. ChunkTimestamps'
    <2> SUFFICES ASSUME NEW i \in 1 .. Len(ops')
                 PROVE  /\ ops'[i].path = i - 1
                        /\ ops'[i].timestamp
                             = recordingStarted + ChunkLength * (i - 1)
      BY DEF ChunkTimestamps
    <2>1. CASE i \in 1 .. Len(ops)
      BY <1>6, <2>1 DEF IInv, ChunkTimestamps
    <2>2. CASE i = Len(ops) + 1
      <3>1. i - 1 = Len(ops)  BY <1>4, <2>2
      <3> QED  BY <1>5, <1>6, <2>2, <3>1
    <2> QED  BY <1>7, <2>1, <2>2
  <1>11. /\ audioStarted' \in Nat
         /\ more /\ ~inSilence => audioStarted' = endOfChunk
    <2>1. audioStarted \in Nat /\ endOfChunk \in Nat
      BY <1>t, <1>o DEF TypeOK
    <2> QED  BY <2>1 DEF completeFile, nextStart, continues
  <1>12. spans' = << >>  BY DEF completeFile
  <1> QED  BY <1>6, <1>8, <1>9, <1>10, <1>11, <1>12

-----------------------------------------------------------------------------
(* The invariant is inductive: one lemma per group of actions *)

LEMMA InitInv == Init => IInv
  <1> SUFFICES ASSUME Init PROVE IInv
    OBVIOUS
  <1> USE DEF Init
  <1>1. TypeOK
    <2>1. << >> \in Seq(audioSpan) /\ << >> \in Seq(ArchiveOperation)
      OBVIOUS
    <2>2. inSilence \in BOOLEAN /\ detected \in BOOLEAN
      OBVIOUS
    <2> QED  BY <2>1, <2>2 DEF TypeOK, NoFile, NotStarted
  <1>2. IdleInv  BY DEF IdleInv
  <1>3. LiveInv /\ SilenceInv /\ SpeechInv
    BY DEF LiveInv, SilenceInv, SpeechInv, Live
  <1>4. SpansInv /\ HeardInv  BY DEF SpansInv, HeardInv
  <1>5. PiecesBounded /\ PiecesOrdered /\ ChunkTimestamps
    BY DEF PiecesBounded, PiecesOrdered, ChunkTimestamps
  <1> QED  BY <1>1, <1>2, <1>3, <1>4, <1>5 DEF IInv

LEMMA StartDownloadInv == ASSUME IInv, StartDownload PROVE IInv'
  <1> USE ArchiverAssumption DEF StartDownload
  <1>t. TypeOK  BY DEF IInv
  <1>1. /\ currentFile = NoFile /\ recordingStarted = NotStarted
        /\ fileIndex = 0 /\ inSilence = FALSE /\ audioStarted = 0
        /\ spans = << >> /\ ops = << >> /\ filtered = 0 /\ muxed = 0
        /\ segment = 0 /\ detected = FALSE
    BY DEF IInv, IdleInv
  <1>2. /\ currentFile' = 0 /\ recordingStarted' = 0
        /\ fileIndex' = 0 /\ inSilence' = FALSE /\ audioStarted' = 0
        /\ spans' = << >> /\ ops' = << >>
    BY <1>1 DEF processOpening, onDownloadStarted, onStartWriting
  <1>3. TypeOK'
    <2>1. spans' \in Seq(audioSpan) /\ ops' \in Seq(ArchiveOperation)
      BY <1>2
    <2>2. inSilence' \in BOOLEAN /\ detected' \in BOOLEAN
      BY <1>1, <1>2
    <2> QED  BY <1>t, <1>1, <1>2, <2>1, <2>2 DEF TypeOK
  <1>4. startOffset = 0 /\ startOffset' = 0
    BY <1>1, <1>2, SMT DEF startOffset
  <1>5. LiveInv'
    BY <1>1, <1>2, <1>4 DEF LiveInv, endOfChunk
  <1>6. IdleInv' /\ SilenceInv'
    BY <1>1, <1>2 DEF IdleInv, SilenceInv
  <1>7. SpeechInv' /\ SpansInv' /\ HeardInv'
    BY <1>2, <1>4 DEF SpeechInv, SpansInv, HeardInv
  <1>8. PiecesBounded' /\ PiecesOrdered' /\ ChunkTimestamps'
    BY <1>2 DEF PiecesBounded, PiecesOrdered, ChunkTimestamps
  <1> QED  BY <1>3, <1>5, <1>6, <1>7, <1>8 DEF IInv

(* When ops and the beginning of the recording stay, so does what is said  *)
(* of the announced chunks.                                                *)
LEMMA SameOps ==
  ASSUME IInv, ops' = ops, recordingStarted' = recordingStarted
  PROVE  PiecesBounded' /\ PiecesOrdered' /\ ChunkTimestamps'
  BY DEF IInv, PiecesBounded, PiecesOrdered, ChunkTimestamps, Bounded

(* A silence that ends now leaves every part of the invariant to hold in   *)
(* the phase that follows.                                                 *)
LEMMA SilenceEnds ==
  ASSUME IInv, phase = "running", phase' \in {"running", "draining"},
         IF detected THEN onSilenceEnd(filtered) ELSE UNCHANGED archiverVars,
         detected' = FALSE,
         filtered' \in {filtered, filtered + 1}, filtered' <= muxed + Lag,
         quietRun' \in Nat, loud' \subseteq Nat,
         UNCHANGED <<muxed, segment>>
  PROVE  IInv'
  <1> USE ArchiverAssumption
  <1>t. TypeOK  BY DEF IInv
  <1>o. startOffset \in Nat  BY <1>t, Offsets
  <1>n. filtered \in Nat /\ audioStarted \in Nat /\ spans \in Seq(audioSpan)
    BY <1>t DEF TypeOK
  <1>l. Live /\ Live'  BY DEF Live
  <1>1. /\ UNCHANGED <<currentFile, recordingStarted, fileIndex, spans, ops>>
        /\ inSilence' = FALSE
        /\ detected => audioStarted' = filtered
        /\ ~detected => audioStarted' = audioStarted /\ ~inSilence
    BY DEF onSilenceEnd, archiverVars, IInv, SilenceInv
  <1>2. /\ startOffset <= muxed /\ muxed <= filtered
        /\ muxed \in Nat
    BY <1>t, <1>l DEF IInv, LiveInv, TypeOK
  <1>3. startOffset' = startOffset /\ endOfChunk' = endOfChunk
    BY <1>1 DEF startOffset, endOfChunk
  <1>4. TypeOK'
    <2>1. audioStarted' \in Nat /\ filtered' \in Nat  BY <1>1, <1>n
    <2>2. inSilence' \in BOOLEAN
      BY <1>t DEF TypeOK, onSilenceEnd, archiverVars
    <2> QED  BY <1>t, <1>1, <2>1, <2>2 DEF TypeOK
  <1>5. LiveInv'
    BY <1>l, <1>n, <1>1, <1>2, <1>3 DEF IInv, LiveInv
  <1>6. IdleInv' /\ SilenceInv'
    BY <1>1 DEF IdleInv, SilenceInv
  <1>7. SpeechInv'
    BY <1>n, <1>o, <1>l, <1>1, <1>2, <1>3 DEF IInv, SpeechInv
  <1>8. SpansInv'  BY <1>1 DEF IInv, SpansInv, Bounded
  <1>9. HeardInv'
    <2> SUFFICES ASSUME spans # << >>
                 PROVE  spans[Len(spans)].end <= audioStarted' - startOffset
      BY <1>1, <1>3 DEF HeardInv, lastHeard
    <2>1. spans[Len(spans)].end
            <= (IF inSilence THEN filtered ELSE audioStarted) - startOffset
      BY <1>l DEF IInv, HeardInv, lastHeard
    <2>2. CASE detected
      BY <1>1, <2>1, <2>2 DEF IInv, SilenceInv
    <2>3. CASE ~detected
      BY <1>1, <2>1, <2>3
    <2> QED  BY <2>2, <2>3
  <1>10. PiecesBounded' /\ PiecesOrdered' /\ ChunkTimestamps'
    BY <1>1, SameOps
  <1> QED  BY <1>4, <1>5, <1>6, <1>7, <1>8, <1>9, <1>10 DEF IInv

LEMMA FilterLoudInv == ASSUME IInv, FilterLoud PROVE IInv'
  <1> USE ArchiverAssumption DEF FilterLoud
  <1>1. filtered \in Nat /\ muxed \in Nat /\ loud \subseteq Nat
    BY DEF IInv, TypeOK
  <1>2. filtered' <= muxed + Lag /\ quietRun' \in Nat /\ loud' \subseteq Nat
    BY <1>1
  <1> QED  BY <1>2, SilenceEnds

LEMMA EndOfInputInv == ASSUME IInv, EndOfInput PROVE IInv'
  <1> USE ArchiverAssumption DEF EndOfInput
  <1>1. filtered \in Nat /\ quietRun \in Nat /\ loud \subseteq Nat
    BY DEF IInv, TypeOK
  <1>2. filtered' = filtered /\ filtered' <= muxed + Lag
    BY DEF IInv, LiveInv, Live
  <1> QED  BY <1>1, <1>2, SilenceEnds

(* A silence is reported late, yet its beginning is not later than what    *)
(* the muxer has written: Lag < SilenceMin.                                *)
LEMMA FilterQuietInv == ASSUME IInv, FilterQuiet PROVE IInv'
  <1> USE ArchiverAssumption DEF FilterQuiet
  <1>t. TypeOK  BY DEF IInv
  <1>o. startOffset \in Nat /\ endOfChunk = startOffset + ChunkLength
    BY <1>t, Offsets
  <1>n. /\ filtered \in Nat /\ muxed \in Nat /\ quietRun \in Nat
        /\ audioStarted \in Nat /\ spans \in Seq(audioSpan)
        /\ inSilence \in BOOLEAN /\ detected \in BOOLEAN
    BY <1>t DEF TypeOK
  <1>l. Live /\ Live' /\ inSilence = detected
    BY DEF Live, IInv, SilenceInv
  <1>m. /\ startOffset <= muxed /\ muxed <= endOfChunk
        /\ muxed <= filtered
    BY <1>l DEF IInv, LiveInv
  <1>1. CASE UNCHANGED archiverVars /\ detected' = detected
    <2> USE <1>1 DEF archiverVars
    <2>1. TypeOK'  BY <1>t, <1>n DEF TypeOK
    <2>2. startOffset' = startOffset /\ endOfChunk' = endOfChunk
      BY DEF startOffset, endOfChunk
    <2>3. LiveInv'  BY <1>l, <1>n, <2>2 DEF IInv, LiveInv
    <2>4. IdleInv' /\ SilenceInv'  BY <1>l DEF IdleInv, SilenceInv
    <2>5. SpeechInv'  BY <1>l, <2>2 DEF IInv, SpeechInv
    <2>6. SpansInv'  BY DEF IInv, SpansInv, Bounded
    <2>7. HeardInv'
      <3> SUFFICES ASSUME spans # << >>
                   PROVE  spans[Len(spans)].end
                            <= (IF inSilence THEN filtered + 1
                                ELSE audioStarted) - startOffset
        BY <2>2 DEF HeardInv, lastHeard
      <3>1. spans[Len(spans)].end
              <= (IF inSilence THEN filtered ELSE audioStarted) - startOffset
        BY <1>l DEF IInv, HeardInv, lastHeard
      <3>2. spans[Len(spans)] \in audioSpan  BY <1>n
      <3>3. spans[Len(spans)].end \in Int  BY <3>2 DEF audioSpan
      <3> QED  BY <1>n, <1>o, <3>1, <3>3
    <2>8. PiecesBounded' /\ PiecesOrdered' /\ ChunkTimestamps'
      BY SameOps
    <2> QED  BY <2>1, <2>3, <2>4, <2>5, <2>6, <2>7, <2>8 DEF IInv
  <1>2. CASE /\ detected = FALSE /\ detected' = TRUE
             /\ onSilenceStart(filtered + 1 - SilenceMin)
    <2> USE <1>2
    <2> DEFINE t == filtered + 1 - SilenceMin
               span == [start |-> audioStarted - startOffset,
                        end   |-> t - startOffset]
    <2>1. /\ UNCHANGED <<currentFile, recordingStarted, fileIndex,
                         audioStarted, ops>>
          /\ inSilence' = TRUE
          /\ spans' = IF Duration(span) > Tiny THEN Append(spans, span)
                      ELSE spans
      BY DEF onSilenceStart
    <2>2. t \in Int /\ t <= muxed /\ t <= filtered
      BY <1>n, <1>m
    <2>3. startOffset <= audioStarted
      BY <1>l DEF IInv, SpeechInv
    <2>4. span \in audioSpan /\ Bounded(span)
          /\ span.end <= filtered - startOffset
      BY <1>n, <1>o, <1>m, <2>2, <2>3 DEF audioSpan, Bounded
    <2>5. spans # << >> => /\ spans[Len(spans)].end \in Int
                           /\ spans[Len(spans)].end <= span.start
      <3> SUFFICES ASSUME spans # << >>
                   PROVE  /\ spans[Len(spans)].end \in Int
                          /\ spans[Len(spans)].end <= span.start
        OBVIOUS
      <3>1. spans[Len(spans)] \in audioSpan  BY <1>n
      <3> QED  BY <1>l, <3>1 DEF IInv, HeardInv, lastHeard, audioSpan
    <2>6. /\ spans' \in Seq(audioSpan)
          /\ \A j \in 1 .. Len(spans') : Bounded(spans'[j])
          /\ \A j \in 1 .. Len(spans') - 1 :
               spans'[j].end <= spans'[j + 1].start
          /\ spans' # << >> => spans'[Len(spans')].end
                                 <= filtered + 1 - startOffset
      <3> HIDE DEF span, t
      <3>s. /\ \A j \in 1 .. Len(spans) : Bounded(spans[j])
            /\ \A j \in 1 .. Len(spans) - 1 :
                 spans[j].end <= spans[j + 1].start
        BY DEF IInv, SpansInv
      <3>1. CASE Duration(span) > Tiny
        <4>1. spans' = Append(spans, span)  BY <2>1, <3>1
        <4>2. span.end <= filtered + 1 - startOffset /\ span.end \in Int
          BY <1>n, <1>o, <2>4 DEF audioSpan
        <4> QED  BY <1>n, <2>4, <2>5, <3>s, <4>1, <4>2, AppendPiece
      <3>2. CASE ~(Duration(span) > Tiny)
        <4>1. spans' = spans  BY <2>1, <3>2
        <4>2. spans # << >> => spans[Len(spans)].end
                                <= filtered + 1 - startOffset
          <5> SUFFICES ASSUME spans # << >>
                       PROVE  spans[Len(spans)].end
                                <= filtered + 1 - startOffset
            OBVIOUS
          <5>1. audioStarted <= filtered  BY <1>l DEF IInv, LiveInv
          <5>2. span.start = audioStarted - startOffset  BY DEF span
          <5> QED  BY <1>n, <1>o, <2>5, <5>1, <5>2
        <4> QED  BY <1>n, <3>s, <4>1, <4>2
      <3> QED  BY <3>1, <3>2
    <2> HIDE DEF span, t
    <2>7. TypeOK'  BY <1>t, <1>n, <2>1, <2>6 DEF TypeOK
    <2>8. startOffset' = startOffset /\ endOfChunk' = endOfChunk
      BY <2>1 DEF startOffset, endOfChunk
    <2>9. LiveInv'  BY <1>l, <1>n, <2>1, <2>8 DEF IInv, LiveInv
    <2>10. IdleInv' /\ SilenceInv'  BY <2>1 DEF IdleInv, SilenceInv
    <2>11. SpeechInv'  BY <2>1 DEF SpeechInv
    <2>12. SpansInv'  BY <2>6 DEF SpansInv, Bounded
    <2>13. HeardInv'
      <3>1. lastHeard' = filtered + 1  BY <2>1 DEF lastHeard
      <3> QED  BY <1>n, <1>o, <2>6, <2>8, <3>1 DEF HeardInv
    <2>14. PiecesBounded' /\ PiecesOrdered' /\ ChunkTimestamps'
      BY <2>1, SameOps
    <2> QED  BY <2>7, <2>9, <2>10, <2>11, <2>12, <2>13, <2>14 DEF IInv
  <1> QED  BY <1>n, <1>1, <1>2

(* A tick is written, at the end of the segment into a new file. *)
LEMMA MuxTickInv == ASSUME IInv, MuxTick PROVE IInv'
  <1> USE ArchiverAssumption DEF MuxTick
  <1>t. TypeOK  BY DEF IInv
  <1>o. /\ startOffset \in Nat
        /\ endOfChunk = startOffset + ChunkLength
        /\ ChunkLength * (fileIndex + 1) = endOfChunk
    BY <1>t, Offsets
  <1>n. /\ filtered \in Nat /\ muxed \in Nat /\ fileIndex \in Nat
        /\ audioStarted \in Nat /\ muxed' \in Nat
    BY <1>t DEF TypeOK
  <1>l. Live /\ Live'  BY DEF Live
  <1>m. /\ currentFile = fileIndex /\ segment = fileIndex
        /\ recordingStarted \in Nat /\ Len(ops) = fileIndex
        /\ startOffset <= muxed /\ muxed <= endOfChunk
        /\ muxed + 1 <= filtered /\ filtered <= muxed + Lag
        /\ audioStarted <= filtered
    BY <1>l, <1>n DEF IInv, LiveInv
  <1>1. CASE muxed # ChunkLength * (segment + 1)
    <2>1. UNCHANGED <<segment, archiverVars>>  BY <1>1
    <2> USE <2>1 DEF archiverVars
    <2>2. TypeOK'  BY <1>t, <1>n DEF TypeOK
    <2>3. startOffset' = startOffset /\ endOfChunk' = endOfChunk
      BY DEF startOffset, endOfChunk
    <2>4. LiveInv'
      <3>1. muxed # endOfChunk  BY <1>1, <1>o, <1>m
      <3>2. startOffset <= muxed + 1 /\ muxed + 1 <= endOfChunk
            /\ filtered <= muxed + 1 + Lag
        BY <1>n, <1>o, <1>m, <3>1
      <3> QED  BY <1>m, <2>3, <3>2 DEF LiveInv
    <2>5. IdleInv' /\ SilenceInv'  BY DEF IInv, IdleInv, SilenceInv
    <2>6. SpeechInv'  BY <1>l, <2>3 DEF IInv, SpeechInv
    <2>7. SpansInv'  BY DEF IInv, SpansInv, Bounded
    <2>8. HeardInv'  BY <1>l, <2>3 DEF IInv, HeardInv, lastHeard
    <2>9. PiecesBounded' /\ PiecesOrdered' /\ ChunkTimestamps'
      BY SameOps
    <2> QED  BY <2>2, <2>4, <2>5, <2>6, <2>7, <2>8, <2>9 DEF IInv
  <1>2. CASE muxed = ChunkLength * (segment + 1)
    <2>1. segment' = segment + 1 /\ processOpening(segment + 1)
      BY <1>2
    <2>2. /\ recordingStarted' = recordingStarted
          /\ currentFile' = segment + 1
          /\ completeFile(TRUE)
          /\ fileIndex' = fileIndex + 1
          /\ inSilence' = inSilence
      <3>1. currentFile # NoFile /\ recordingStarted # NotStarted
        BY <1>m, <1>n DEF NoFile, NotStarted
      <3>2. recordingStarted' = recordingStarted
            /\ onStartWriting(segment + 1)
        BY <2>1, <3>1 DEF processOpening
      <3> QED  BY <3>1, <3>2, Zenon DEF onStartWriting
    <2>3. /\ ops' \in Seq(ArchiveOperation)
          /\ Len(ops') = Len(ops) + 1
          /\ audioStarted' \in Nat
          /\ ~inSilence => audioStarted' = endOfChunk
          /\ spans' = << >>
          /\ PiecesBounded' /\ PiecesOrdered' /\ ChunkTimestamps'
      BY <1>l, <2>2, CompleteFile
    <2>4. audioStarted' = endOfChunk \/ audioStarted' = audioStarted
      BY <2>2 DEF completeFile, nextStart
    <2>5. startOffset' = endOfChunk /\ endOfChunk' = endOfChunk + ChunkLength
      BY <1>o, <2>2 DEF startOffset, endOfChunk
    <2>6. TypeOK'
      <3>1. spans' \in Seq(audioSpan)  BY <2>3
      <3> QED  BY <1>t, <1>m, <1>n, <2>1, <2>2, <2>3, <3>1 DEF TypeOK
    <2>7. muxed = endOfChunk  BY <1>2, <1>o, <1>m
    <2>8. LiveInv'
      <3>1. /\ endOfChunk <= muxed + 1
            /\ muxed + 1 <= endOfChunk + ChunkLength
            /\ filtered <= muxed + 1 + Lag
            /\ audioStarted' <= filtered
        BY <1>n, <1>o, <1>m, <2>4, <2>7
      <3> QED  BY <1>m, <2>1, <2>2, <2>3, <2>5, <3>1 DEF LiveInv
    <2>9. IdleInv' /\ SilenceInv'
      BY <2>2 DEF IInv, IdleInv, SilenceInv
    <2>10. SpeechInv'
      BY <1>n, <1>o, <2>2, <2>3, <2>5 DEF SpeechInv
    <2>11. SpansInv' /\ HeardInv'  BY <2>3 DEF SpansInv, HeardInv
    <2> QED  BY <2>3, <2>6, <2>8, <2>9, <2>10, <2>11 DEF IInv
  <1> QED  BY <1>1, <1>2

(* The last chunk is announced, and nothing is heard any more. *)
LEMMA FinishedInv ==
  ASSUME IInv, phase \in {"idle", "running", "draining"}, phase' = "over",
         onFinished,
         UNCHANGED <<filtered, muxed, segment, quietRun, detected, loud>>
  PROVE  IInv'
  <1>t. TypeOK  BY DEF IInv
  <1>1. ~Live' /\ phase' # "idle"  BY DEF Live
  <1>2. IdleInv' /\ LiveInv' /\ SilenceInv' /\ SpeechInv' /\ HeardInv'
    BY <1>1 DEF IdleInv, LiveInv, SilenceInv, SpeechInv, HeardInv, Live
  <1>3. UNCHANGED <<currentFile, recordingStarted, fileIndex, inSilence>>
    BY DEF onFinished
  <1>4. CASE currentFile = NoFile
    <2>1. UNCHANGED <<audioStarted, spans, ops>>  BY <1>4 DEF onFinished
    <2>2. TypeOK'  BY <1>t, <1>3, <2>1 DEF TypeOK
    <2>3. SpansInv'  BY <2>1 DEF IInv, SpansInv, Bounded
    <2>4. PiecesBounded' /\ PiecesOrdered' /\ ChunkTimestamps'
      BY <1>3, <2>1, SameOps
    <2> QED  BY <1>2, <2>2, <2>3, <2>4 DEF IInv
  <1>5. CASE currentFile # NoFile
    <2>1. Live  BY <1>5 DEF Live, IInv, IdleInv
    <2>2. completeFile(FALSE)  BY <1>5 DEF onFinished
    <2>3. /\ ops' \in Seq(ArchiveOperation)
          /\ audioStarted' \in Nat
          /\ spans' = << >>
          /\ PiecesBounded' /\ PiecesOrdered' /\ ChunkTimestamps'
      BY <1>3, <2>1, <2>2, CompleteFile
    <2>4. spans' \in Seq(audioSpan)  BY <2>3
    <2>5. TypeOK'  BY <1>t, <1>3, <2>3, <2>4 DEF TypeOK
    <2>6. SpansInv'  BY <2>3 DEF SpansInv
    <2> QED  BY <1>2, <2>3, <2>5, <2>6 DEF IInv
  <1> QED  BY <1>4, <1>5

(* The variables stay, and all that is said of them. *)
LEMMA StutterInv == ASSUME IInv, UNCHANGED vars PROVE IInv'
  BY DEF vars, archiverVars, ffmpegVars, IInv, TypeOK, IdleInv, LiveInv,
         SilenceInv, SpeechInv, SpansInv, HeardInv, lastHeard,
         PiecesBounded, PiecesOrdered, ChunkTimestamps, Bounded, Live,
         startOffset, endOfChunk

LEMMA NextInv == ASSUME IInv, [Next]_vars PROVE IInv'
  <1>1. CASE StartDownload  BY <1>1, StartDownloadInv
  <1>2. CASE FilterLoud  BY <1>2, FilterLoudInv
  <1>3. CASE FilterQuiet  BY <1>3, FilterQuietInv
  <1>4. CASE MuxTick  BY <1>4, MuxTickInv
  <1>5. CASE EndOfInput  BY <1>5, EndOfInputInv
  <1>6. CASE FinishedAfterFlush
    BY <1>6, FinishedInv DEF FinishedAfterFlush
  <1>7. CASE FinishedByFailure
    BY <1>7, FinishedInv DEF FinishedByFailure
  <1>8. CASE UNCHANGED vars  BY <1>8, StutterInv
  <1> QED
    BY <1>1, <1>2, <1>3, <1>4, <1>5, <1>6, <1>7, <1>8 DEF Next

LEMMA Invariance == Spec => []IInv
  BY InitInv, NextInv, PTL DEF Spec

-----------------------------------------------------------------------------
(* The theorems *)

(* Every callback leaves the archiver's fields and what it announced in    *)
(* their types; in particular no chunk is announced before the recording   *)
(* has a beginning and a file (archive.go's currentFile # "" guards).      *)
THEOREM TypeCorrect == Spec => []TypeOK
  <1>1. IInv => TypeOK  BY DEF IInv
  <1> QED  BY <1>1, Invariance, PTL

(* The pieces of a chunk are in the order they were spoken, disjoint.      *)
THEOREM PiecesInOrder == Spec => []PiecesOrdered
  <1>1. IInv => PiecesOrdered  BY DEF IInv
  <1> QED  BY <1>1, Invariance, PTL

(* Chunk n is announced n-th, with the instant its audio begins at.        *)
THEOREM ChunksTimed == Spec => []ChunkTimestamps
  <1>1. IInv => ChunkTimestamps  BY DEF IInv
  <1> QED  BY <1>1, Invariance, PTL

-----------------------------------------------------------------------------
(* Speech: what the pieces hold is speech, and they hold all of it *)

(* Among any SilenceMin ticks from .. to has in a row, one is loud. *)
HeardIn(L, from, to) ==
  \A t \in from .. to - SilenceMin : \E u \in t .. t + SilenceMin - 1 : u \in L

(* A tick is in one of the pieces of a chunk that begins at offset. *)
InPieces(tick, pieces, offset) ==
  \E j \in 1 .. Len(pieces) :
    offset + pieces[j].start <= tick /\ tick < offset + pieces[j].end

(* quietRun counts the quiet ticks at the end. *)
QuietInv ==
  /\ phase = "idle" => loud = {} /\ quietRun = 0
  /\ loud \subseteq 0 .. filtered - 1
  /\ quietRun <= filtered
  /\ \A u \in filtered - quietRun .. filtered - 1 : u \notin loud
  /\ quietRun < filtered => filtered - quietRun - 1 \in loud
  /\ phase = "running" => (detected <=> quietRun >= SilenceMin)

(* What is being spoken, and the pieces of this chunk so far, have no      *)
(* silence in them.                                                        *)
SpokenInv ==
  Live =>
    /\ recordingStarted = 0
    /\ ~inSilence => HeardIn(loud, audioStarted, filtered)
    /\ \A j \in 1 .. Len(spans) :
         HeardIn(loud, startOffset + spans[j].start,
                       startOffset + spans[j].end)

(* A piece that began in this chunk began after a quiet tick ... *)
BeginInv ==
  Live /\ ~inSilence /\ startOffset < audioStarted =>
    audioStarted - 1 \notin loud

(* ... and each run of sound of this chunk is being spoken or in a piece.  *)
KeptInv ==
  Live => \A t \in loud :
    (/\ t .. t + Tiny \subseteq loud
     /\ startOffset <= t
     /\ t + Tiny < endOfChunk)
    => \/ ~inSilence /\ audioStarted <= t
       \/ \A u \in t .. t + Tiny : InPieces(u, spans, startOffset)

SpeechIInv ==
  /\ QuietInv
  /\ SpokenInv
  /\ BeginInv
  /\ KeptInv
  /\ PiecesAreSpeech
  /\ SpeechIsKept

(* More sound, fewer ticks. *)
LEMMA HeardMore ==
  ASSUME NEW L, NEW M, L \subseteq M,
         NEW from \in Int, NEW to \in Int, NEW from2 \in Int, NEW to2 \in Int,
         from <= from2, to2 <= to, HeardIn(L, from, to)
  PROVE  HeardIn(M, from2, to2)
  <1> SUFFICES ASSUME NEW t \in from2 .. to2 - SilenceMin
               PROVE  \E u \in t .. t + SilenceMin - 1 : u \in M
    BY DEF HeardIn
  <1>1. t \in from .. to - SilenceMin  BY ArchiverAssumption
  <1> QED  BY <1>1 DEF HeardIn

(* Later chunks begin later. *)
LEMMA ChunksGrow ==
  ASSUME TypeOK, NEW i \in 1 .. fileIndex
  PROVE  /\ ChunkLength * (i - 1) \in Nat
         /\ ChunkLength * i \in Nat
         /\ ChunkLength * i <= startOffset
  <1> USE ArchiverAssumption
  <1>1. fileIndex \in Nat /\ i - 1 \in Nat /\ fileIndex - i \in Nat
    BY DEF TypeOK
  <1>2. \A m, n \in Nat : m * n \in Nat  BY SMT
  <1>3. i \in Nat /\ fileIndex = i + (fileIndex - i)  BY <1>1
  <1>4. \A m, k, n \in Nat : m * (k + n) = m * k + m * n  BY SMT
  <1>5. startOffset = ChunkLength * i + ChunkLength * (fileIndex - i)
    BY <1>1, <1>3, <1>4 DEF startOffset
  <1> QED  BY <1>1, <1>2, <1>3, <1>5

(* The steps that complete no file keep what is said of earlier chunks: no *)
(* sound comes that is in them.                                            *)
LEMMA EarlierChunks ==
  ASSUME IInv, SpeechIInv, ops' = ops, fileIndex' = fileIndex,
         Live,
         loud' \in {loud, loud \cup {filtered}}
  PROVE  PiecesAreSpeech' /\ SpeechIsKept'
  <1>t. TypeOK  BY DEF IInv
  <1>1. PiecesAreSpeech'
    BY DEF SpeechIInv, PiecesAreSpeech
  <1>2. SpeechIsKept'
    <2> SUFFICES ASSUME NEW i \in 1 .. fileIndex, NEW t \in loud',
                        t .. t + Tiny \subseteq loud',
                        ChunkLength * (i - 1) <= t,
                        t + Tiny < ChunkLength * i,
                        NEW u \in t .. t + Tiny
                 PROVE  Covered(u, ops[i])
      BY DEF SpeechIsKept, Covered
    <2>1. filtered \in Nat /\ loud \subseteq Nat /\ Tiny \in Nat
      BY <1>t, ArchiverAssumption DEF TypeOK
    <2>2. t \in Nat  BY <2>1
    <2>3. ChunkLength * i <= filtered
      <3>1. startOffset \in Nat  BY <1>t, Offsets
      <3>2. startOffset <= muxed /\ muxed <= filtered /\ muxed \in Nat
        BY <1>t DEF IInv, LiveInv, TypeOK
      <3> QED  BY <1>t, <2>1, <3>1, <3>2, ChunksGrow
    <2>4. ChunkLength * i \in Nat  BY <1>t, ChunksGrow
    <2>5. filtered \notin t .. t + Tiny  BY <2>1, <2>2, <2>3, <2>4
    <2>6. t .. t + Tiny \subseteq loud /\ t \in loud
      BY <2>1, <2>2, <2>5
    <2> QED  BY <2>6 DEF SpeechIInv, SpeechIsKept
  <1> QED  BY <1>1, <1>2

(* The chunk that is announced, and the ones before. *)
LEMMA NewOperation ==
  ASSUME IInv, Live, recordingStarted = 0, NEW more \in BOOLEAN,
         completeFile(more)
  PROVE  /\ Len(ops) = fileIndex
         /\ Len(ops') = fileIndex + 1
         /\ \A i \in 1 .. fileIndex : ops'[i] = ops[i]
         /\ ops'[fileIndex + 1].timestamp = startOffset
         /\ ops'[fileIndex + 1].pieces = piecesOf(more)
  <1>t. TypeOK  BY DEF IInv
  <1>1. /\ Len(ops) = fileIndex /\ fileIndex \in Nat
        /\ ops \in Seq(ArchiveOperation)
        /\ startOffset \in Nat
    BY <1>t, Offsets DEF IInv, LiveInv, TypeOK
  <1> DEFINE op == [path      |-> currentFile,
                    timestamp |-> recordingStarted + startOffset,
                    pieces    |-> piecesOf(more)]
  <1>2. op.timestamp = startOffset /\ op.pieces = piecesOf(more)
    BY <1>1
  <1>3. ops' = Append(ops, op)  BY DEF completeFile
  <1> HIDE DEF op
  <1> QED  BY <1>1, <1>2, <1>3

(* The pieces of the chunk: those so far and, when speech goes on, the     *)
(* rest of the chunk.                                                      *)
LEMMA PiecesOfChunk ==
  ASSUME TypeOK, NEW more \in BOOLEAN,
         NEW ps, ps = piecesOf(more)
  PROVE  /\ ~continues(more) => ps = spans
         /\ continues(more) =>
              /\ Len(ps) = Len(spans) + 1
              /\ \A j \in 1 .. Len(spans) : ps[j] = spans[j]
              /\ startOffset + ps[Len(spans) + 1].start = audioStarted
              /\ startOffset + ps[Len(spans) + 1].end = endOfChunk
  <1>1. /\ spans \in Seq(audioSpan) /\ audioStarted \in Nat
        /\ startOffset \in Nat /\ endOfChunk \in Nat
    BY Offsets DEF TypeOK
  <1> DEFINE tail == [start |-> audioStarted - startOffset,
                      end   |-> endOfChunk - startOffset]
  <1>2. continues(more) => ps = Append(spans, tail)
    BY DEF piecesOf
  <1>3. ~continues(more) => ps = spans  BY DEF piecesOf
  <1>4. /\ startOffset + tail.start = audioStarted
        /\ startOffset + tail.end = endOfChunk
    BY <1>1
  <1> HIDE DEF tail
  <1> QED  BY <1>1, <1>2, <1>3, <1>4

(* The pieces of a chunk that is announced are speech. *)
LEMMA AnnouncedIsSpeech ==
  ASSUME IInv, SpeechIInv, Live, NEW more \in BOOLEAN, completeFile(more),
         more => muxed = endOfChunk,
         loud' = loud
  PROVE  PiecesAreSpeech'
  <1>t. TypeOK  BY DEF IInv
  <1> DEFINE n == fileIndex + 1
             ps == ops'[n].pieces
  <1>1. recordingStarted = 0  BY DEF SpeechIInv, SpokenInv
  <1>2. /\ Len(ops) = fileIndex
        /\ Len(ops') = n
        /\ \A i \in 1 .. fileIndex : ops'[i] = ops[i]
        /\ ops'[n].timestamp = startOffset
        /\ ps = piecesOf(more)
    BY <1>1, NewOperation
  <1>3. fileIndex \in Nat  BY <1>t DEF TypeOK
  <1>4. \A j \in 1 .. Len(spans) :
          HeardIn(loud, startOffset + spans[j].start,
                        startOffset + spans[j].end)
    BY DEF SpeechIInv, SpokenInv
  <1>5. \A j \in 1 .. Len(ps) :
          HeardIn(loud, startOffset + ps[j].start, startOffset + ps[j].end)
    <2>1. CASE ~continues(more)
      <3>1. ps = spans  BY <1>t, <1>2, <2>1, PiecesOfChunk
      <3> QED  BY <1>4, <3>1
    <2>2. CASE continues(more)
      <3> HIDE DEF ps
      <3>1. /\ Len(ps) = Len(spans) + 1
            /\ \A j \in 1 .. Len(spans) : ps[j] = spans[j]
            /\ startOffset + ps[Len(spans) + 1].start = audioStarted
            /\ startOffset + ps[Len(spans) + 1].end = endOfChunk
        BY <1>t, <1>2, <2>2, PiecesOfChunk
      <3>2. ~inSilence /\ more  BY <2>2 DEF continues
      <3>3. /\ audioStarted \in Int /\ filtered \in Int
            /\ endOfChunk \in Int /\ endOfChunk <= filtered
        BY <1>t, <3>2, Offsets DEF TypeOK, IInv, LiveInv
      <3>4. HeardIn(loud, audioStarted, filtered)
        BY <3>2 DEF SpeechIInv, SpokenInv
      <3>5. HeardIn(loud, audioStarted, endOfChunk)
        BY <3>3, <3>4, HeardMore
      <3>6. Len(spans) \in Nat  BY <1>t DEF TypeOK
      <3> QED
        <4> SUFFICES ASSUME NEW j \in 1 .. Len(ps)
                     PROVE  HeardIn(loud, startOffset + ps[j].start,
                                          startOffset + ps[j].end)
          OBVIOUS
        <4>1. CASE j \in 1 .. Len(spans)  BY <1>4, <3>1, <4>1
        <4>2. CASE j = Len(spans) + 1  BY <3>1, <3>5, <4>2
        <4> QED  BY <3>1, <3>6, <4>1, <4>2
    <2> QED  BY <2>1, <2>2
  <1> HIDE DEF ps
  <1> SUFFICES ASSUME NEW i \in 1 .. Len(ops'),
                      NEW j \in 1 .. Len(ops'[i].pieces)
               PROVE  HeardIn(loud,
                        ops'[i].timestamp + ops'[i].pieces[j].start,
                        ops'[i].timestamp + ops'[i].pieces[j].end)
    BY DEF PiecesAreSpeech, HeardIn
  <1>6. CASE i \in 1 .. fileIndex
    BY <1>2, <1>6 DEF SpeechIInv, PiecesAreSpeech, HeardIn
  <1>7. CASE i = n  BY <1>2, <1>5, <1>7 DEF ps
  <1> QED  BY <1>2, <1>3, <1>6, <1>7

(* The chunk that is full when the next one is opened holds its speech. *)
LEMMA AnnouncedIsKept ==
  ASSUME IInv, SpeechIInv, Live, completeFile(TRUE),
         loud' = loud, fileIndex' = fileIndex + 1
  PROVE  SpeechIsKept'
  <1>t. TypeOK  BY DEF IInv
  <1> DEFINE n == fileIndex + 1
             ps == ops'[n].pieces
  <1>1. recordingStarted = 0  BY DEF SpeechIInv, SpokenInv
  <1>2. /\ \A i \in 1 .. fileIndex : ops'[i] = ops[i]
        /\ ops'[n].timestamp = startOffset
        /\ ps = piecesOf(TRUE)
    BY <1>1, NewOperation
  <1>3. fileIndex \in Nat /\ Len(spans) \in Nat  BY <1>t DEF TypeOK
  <1>4. ChunkLength * (n - 1) = startOffset /\ ChunkLength * n = endOfChunk
    <2>1. n - 1 = fileIndex  BY <1>3
    <2>2. ChunkLength * n = endOfChunk  BY <1>t, Offsets
    <2> QED  BY <2>1, <2>2 DEF startOffset
  <1> HIDE DEF ps
  <1> SUFFICES ASSUME NEW i \in 1 .. n, NEW t \in loud,
                      t .. t + Tiny \subseteq loud,
                      ChunkLength * (i - 1) <= t,
                      t + Tiny < ChunkLength * i,
                      NEW u \in t .. t + Tiny
               PROVE  Covered(u, ops'[i])
    BY DEF SpeechIsKept, Covered
  <1>5. CASE i \in 1 .. fileIndex
    BY <1>2, <1>5 DEF SpeechIInv, SpeechIsKept
  <1>6. CASE i = n
    <2>1. startOffset <= t /\ t + Tiny < endOfChunk
      BY <1>4, <1>6
    <2>2. \/ ~inSilence /\ audioStarted <= t
          \/ InPieces(u, spans, startOffset)
      BY <2>1 DEF SpeechIInv, KeptInv
    <2>3. InPieces(u, ps, startOffset)
      <3>1. CASE ~continues(TRUE)
        <4>1. ps = spans  BY <1>t, <1>2, <3>1, PiecesOfChunk
        <4> QED  BY <2>2, <3>1, <4>1 DEF continues
      <3>2. CASE continues(TRUE)
        <4>1. /\ Len(ps) = Len(spans) + 1
              /\ \A j \in 1 .. Len(spans) : ps[j] = spans[j]
              /\ startOffset + ps[Len(spans) + 1].start = audioStarted
              /\ startOffset + ps[Len(spans) + 1].end = endOfChunk
          BY <1>t, <1>2, <3>2, PiecesOfChunk
        <4>2. \A j \in 1 .. Len(spans) : j \in 1 .. Len(ps)
          BY <1>3, <4>1
        <4>3. Len(spans) + 1 \in 1 .. Len(ps)  BY <1>3, <4>1
        <4>4. CASE InPieces(u, spans, startOffset)
          <5>1. PICK j \in 1 .. Len(spans) :
                  startOffset + spans[j].start <= u
                  /\ u < startOffset + spans[j].end
            BY <4>4 DEF InPieces
          <5>2. ps[j] = spans[j] /\ j \in 1 .. Len(ps)  BY <4>1, <4>2
          <5> QED  BY <5>1, <5>2 DEF InPieces
        <4>5. CASE audioStarted <= t
          <5>1. audioStarted <= u /\ u < endOfChunk
            <6>1. /\ t \in Nat /\ Tiny \in Nat /\ audioStarted \in Nat
                  /\ endOfChunk \in Nat
              BY <1>t, Offsets, ArchiverAssumption DEF TypeOK
            <6> QED  BY <2>1, <4>5, <6>1
          <5> QED  BY <4>1, <4>3, <5>1 DEF InPieces
        <4> QED  BY <2>2, <4>4, <4>5
      <3> QED  BY <3>1, <3>2
    <2> QED  BY <1>2, <1>6, <2>3 DEF InPieces, Covered, ps
  <1> QED  BY <1>3, <1>5, <1>6

-----------------------------------------------------------------------------
(* These, too, are inductive *)

LEMMA InitSpeech == Init => SpeechIInv
  <1> SUFFICES ASSUME Init PROVE SpeechIInv
    OBVIOUS
  <1> USE ArchiverAssumption DEF Init
  <1>1. QuietInv  BY DEF QuietInv
  <1>2. SpokenInv /\ BeginInv /\ KeptInv
    BY DEF SpokenInv, BeginInv, KeptInv, Live
  <1>3. PiecesAreSpeech /\ SpeechIsKept
    BY DEF PiecesAreSpeech, SpeechIsKept
  <1> QED  BY <1>1, <1>2, <1>3 DEF SpeechIInv

LEMMA StartDownloadSpeech ==
  ASSUME IInv, SpeechIInv, StartDownload PROVE SpeechIInv'
  <1> USE ArchiverAssumption DEF StartDownload
  <1>1. /\ currentFile = NoFile /\ recordingStarted = NotStarted
        /\ fileIndex = 0 /\ audioStarted = 0 /\ inSilence = FALSE
        /\ spans = << >> /\ ops = << >> /\ filtered = 0 /\ detected = FALSE
        /\ loud = {} /\ quietRun = 0
    BY DEF IInv, IdleInv, SpeechIInv, QuietInv
  <1>2. /\ recordingStarted' = 0 /\ fileIndex' = 0 /\ audioStarted' = 0
        /\ spans' = << >> /\ ops' = << >>
    BY <1>1 DEF processOpening, onDownloadStarted, onStartWriting
  <1>3. QuietInv'  BY <1>1 DEF QuietInv
  <1>4. SpokenInv'
    <2>1. HeardIn({}, 0, 0)  BY DEF HeardIn
    <2> QED  BY <1>1, <1>2, <2>1 DEF SpokenInv
  <1>5. BeginInv' /\ KeptInv'  BY <1>1 DEF BeginInv, KeptInv
  <1>6. PiecesAreSpeech' /\ SpeechIsKept'
    BY <1>2 DEF PiecesAreSpeech, SpeechIsKept
  <1> QED  BY <1>3, <1>4, <1>5, <1>6 DEF SpeechIInv

(* Sound goes on, begins, or begins after a silence. *)
LEMMA FilterLoudSpeech ==
  ASSUME IInv, SpeechIInv, FilterLoud PROVE SpeechIInv'
  <1> USE ArchiverAssumption DEF FilterLoud
  <1>t. TypeOK  BY DEF IInv
  <1>l. Live /\ Live' /\ inSilence = detected
    BY DEF Live, IInv, SilenceInv
  <1>n. /\ filtered \in Nat /\ muxed \in Nat /\ quietRun \in Nat
        /\ audioStarted \in Nat /\ loud \subseteq Nat
        /\ startOffset \in Nat /\ endOfChunk \in Nat
        /\ audioStarted <= filtered
    BY <1>t, <1>l, Offsets DEF TypeOK, IInv, LiveInv
  <1>q. /\ loud \subseteq 0 .. filtered - 1
        /\ \A u \in filtered - quietRun .. filtered - 1 : u \notin loud
        /\ detected => quietRun >= SilenceMin
    BY DEF SpeechIInv, QuietInv
  <1>1. /\ UNCHANGED <<currentFile, recordingStarted, fileIndex, spans, ops>>
        /\ inSilence' = FALSE
        /\ detected => audioStarted' = filtered
        /\ ~detected => audioStarted' = audioStarted
    BY <1>l DEF onSilenceEnd, archiverVars
  <1>2. startOffset' = startOffset /\ endOfChunk' = endOfChunk
    BY <1>1 DEF startOffset, endOfChunk
  <1>3. QuietInv'
    BY <1>n, <1>q DEF QuietInv
  <1>4. BeginInv'
    <2> SUFFICES ASSUME startOffset < audioStarted'
                 PROVE  audioStarted' - 1 \notin loud'
      BY <1>1, <1>2 DEF BeginInv
    <2>1. CASE detected  BY <1>n, <1>q, <1>1, <2>1
    <2>2. CASE ~detected
      BY <1>l, <1>n, <1>1, <2>2 DEF SpeechIInv, BeginInv
    <2> QED  BY <2>1, <2>2
  <1>5. SpokenInv'
    <2>1. recordingStarted' = 0  BY <1>l, <1>1 DEF SpeechIInv, SpokenInv
    <2>2. HeardIn(loud', audioStarted', filtered')
      <3>1. CASE detected
        BY <1>n, <1>1, <3>1 DEF HeardIn
      <3>2. CASE ~detected
        <4>1. HeardIn(loud, audioStarted, filtered)
          BY <1>l, <3>2 DEF SpeechIInv, SpokenInv
        <4>a. audioStarted' = audioStarted /\ filtered' = filtered + 1
          BY <1>1, <3>2
        <4>b. HeardIn(loud', audioStarted, filtered + 1)
          <5>1. ASSUME NEW t \in audioStarted .. (filtered + 1) - SilenceMin
                PROVE  \E u \in t .. t + SilenceMin - 1 : u \in loud'
            <6>1. CASE t \in audioStarted .. filtered - SilenceMin
              BY <4>1, <6>1 DEF HeardIn
            <6>2. CASE t = (filtered + 1) - SilenceMin
              <7>1. filtered \in t .. t + SilenceMin - 1  BY <1>n, <6>2
              <7> QED  BY <7>1
            <6> QED  BY <1>n, <6>1, <6>2
          <5> QED  BY ONLY <5>1 DEF HeardIn
        <4> QED  BY <4>a, <4>b
      <3> QED  BY <3>1, <3>2
    <2>3. \A j \in 1 .. Len(spans) :
            HeardIn(loud', startOffset + spans[j].start,
                           startOffset + spans[j].end)
      BY <1>l DEF SpeechIInv, SpokenInv, HeardIn
    <2> QED  BY <1>1, <1>2, <2>1, <2>2, <2>3 DEF SpokenInv
  <1>6. KeptInv'
    <2> SUFFICES ASSUME NEW t \in loud', t .. t + Tiny \subseteq loud',
                        startOffset <= t, t + Tiny < endOfChunk
                 PROVE  \/ audioStarted' <= t
                        \/ \A u \in t .. t + Tiny :
                             InPieces(u, spans, startOffset)
      BY <1>1, <1>2 DEF KeptInv
    <2>1. t \in Nat  BY <1>n
    <2>2. CASE audioStarted' <= t  BY <2>2
    <2>3. CASE t < audioStarted'
      <3>1. audioStarted' \in Nat /\ audioStarted' <= filtered
            /\ audioStarted' - 1 \notin loud'
        BY <1>l, <1>n, <1>1, <1>2, <1>4, <2>1, <2>3 DEF BeginInv
      <3>2. audioStarted' - 1 \notin t .. t + Tiny  BY <3>1
      <3>3. t + Tiny < filtered
        <4> DEFINE A == audioStarted'
        <4>1. /\ A \in Nat /\ A <= filtered /\ t < A
              /\ A - 1 \notin t .. t + Tiny
          BY <2>3, <3>1, <3>2
        <4> HIDE DEF A
        <4> QED  BY ONLY <1>n, <2>1, <4>1, ArchiverAssumption
      <3>4. t \in loud /\ t .. t + Tiny \subseteq loud
        BY <1>n, <2>1, <3>3
      <3>5. ~(~inSilence /\ audioStarted <= t)
        BY <1>l, <1>n, <1>1, <2>1, <2>3
      <3> QED  BY <1>l, <3>4, <3>5 DEF SpeechIInv, KeptInv
    <2> QED  BY <1>n, <1>1, <2>1, <2>2, <2>3
  <1>7. PiecesAreSpeech' /\ SpeechIsKept'
    BY <1>l, <1>1, EarlierChunks
  <1> QED  BY <1>3, <1>4, <1>5, <1>6, <1>7 DEF SpeechIInv

(* The step that hears a quiet tick. *)
LEMMA FilterQuietSpeech ==
  ASSUME IInv, SpeechIInv, FilterQuiet PROVE SpeechIInv'
  <1> USE ArchiverAssumption DEF FilterQuiet
  <1>t. TypeOK  BY DEF IInv
  <1>l. Live /\ Live' /\ inSilence = detected
    BY DEF Live, IInv, SilenceInv
  <1>n. /\ filtered \in Nat /\ quietRun \in Nat /\ audioStarted \in Nat
        /\ loud \subseteq Nat /\ spans \in Seq(audioSpan)
        /\ startOffset \in Nat /\ endOfChunk \in Nat
        /\ inSilence \in BOOLEAN /\ detected \in BOOLEAN
        /\ audioStarted <= filtered
    BY <1>t, <1>l, Offsets DEF TypeOK, IInv, LiveInv
  <1>q. /\ loud \subseteq 0 .. filtered - 1
        /\ quietRun <= filtered
        /\ \A u \in filtered - quietRun .. filtered - 1 : u \notin loud
        /\ quietRun < filtered => filtered - quietRun - 1 \in loud
        /\ detected <=> quietRun >= SilenceMin
    BY DEF SpeechIInv, QuietInv
  <1>b. detected' <=> (detected \/ quietRun + 1 = SilenceMin)
    BY Zenon
  <1>d. /\ ~detected /\ detected' => quietRun = SilenceMin - 1
        /\ ~detected' => ~detected /\ quietRun + 1 < SilenceMin
    BY ONLY <1>n, <1>q, <1>b, ArchiverAssumption
  <1>1. /\ UNCHANGED <<currentFile, recordingStarted, fileIndex,
                       audioStarted, ops>>
        /\ inSilence' = detected'
    BY <1>l, <1>n DEF onSilenceStart, archiverVars
  <1>2. startOffset' = startOffset /\ endOfChunk' = endOfChunk
    BY <1>1 DEF startOffset, endOfChunk
  <1>s. /\ recordingStarted = 0
        /\ ~detected => HeardIn(loud, audioStarted, filtered)
        /\ \A j \in 1 .. Len(spans) :
             HeardIn(loud, startOffset + spans[j].start,
                           startOffset + spans[j].end)
    BY <1>l DEF SpeechIInv, SpokenInv
  <1>3. QuietInv'
    <2>1. /\ loud \subseteq 0 .. filtered
          /\ quietRun + 1 <= filtered + 1
          /\ \A u \in (filtered + 1) - (quietRun + 1) .. (filtered + 1) - 1 :
               u \notin loud
          /\ quietRun + 1 < filtered + 1 =>
               (filtered + 1) - (quietRun + 1) - 1 \in loud
      BY <1>n, <1>q
    <2>2. detected' <=> quietRun + 1 >= SilenceMin
      BY <1>n, <1>q, <1>d
    <2> QED  BY <1>n, <2>1, <2>2 DEF QuietInv
  <1>4. BeginInv'
    BY <1>l, <1>d, <1>1, <1>2 DEF SpeechIInv, BeginInv
  <1>5. ~detected' => HeardIn(loud, audioStarted, filtered + 1)
    <2> SUFFICES ASSUME ~detected'
                 PROVE  HeardIn(loud, audioStarted, filtered + 1)
      OBVIOUS
    <2>1. ASSUME NEW t \in audioStarted .. (filtered + 1) - SilenceMin
          PROVE  \E u \in t .. t + SilenceMin - 1 : u \in loud
      <3>1. CASE t \in audioStarted .. filtered - SilenceMin
        BY <1>d, <1>s, <3>1 DEF HeardIn
      <3>2. CASE t = (filtered + 1) - SilenceMin
        <4>1. quietRun + 1 < SilenceMin  BY <1>d
        <4>2. /\ filtered - quietRun - 1 \in t .. t + SilenceMin - 1
              /\ quietRun < filtered
          BY <1>n, <3>2, <4>1
        <4> QED  BY <1>q, <4>2
      <3> QED  BY <1>n, <3>1, <3>2
    <2> QED  BY ONLY <2>1 DEF HeardIn
  <1>6. PiecesAreSpeech' /\ SpeechIsKept'
    BY <1>l, <1>1, EarlierChunks
  <1>7. CASE UNCHANGED archiverVars
    <2>1. spans' = spans /\ inSilence' = inSilence
      BY <1>7 DEF archiverVars
    <2>2. SpokenInv'
      BY <1>s, <1>1, <1>2, <1>5, <2>1 DEF SpokenInv
    <2>3. KeptInv'
      BY <1>l, <1>1, <1>2, <2>1 DEF SpeechIInv, KeptInv
    <2> QED  BY <1>3, <1>4, <1>6, <2>2, <2>3 DEF SpeechIInv
  <1>8. CASE ~detected /\ detected'
    <2> DEFINE t == filtered + 1 - SilenceMin
               span == [start |-> audioStarted - startOffset,
                        end   |-> t - startOffset]
    <2>1. spans' = IF Duration(span) > Tiny THEN Append(spans, span)
                   ELSE spans
      BY <1>8 DEF onSilenceStart
    <2>2. t = filtered - quietRun /\ t \in Nat /\ t <= filtered
      BY <1>n, <1>q, <1>d, <1>8
    <2>3. /\ startOffset + span.start = audioStarted
          /\ startOffset + span.end = t
          /\ Duration(span) = t - audioStarted
      BY <1>n, <2>2 DEF Duration
    <2>4. HeardIn(loud, audioStarted, t)
      BY <1>n, <1>s, <1>8, <2>2, HeardMore
    <2> HIDE DEF t, span
    <2>5. /\ Len(spans) \in Nat
          /\ spans' \in {spans, Append(spans, span)}
          /\ Duration(span) > Tiny => spans' = Append(spans, span)
      BY <1>n, <2>1
    <2>6. /\ \A j \in 1 .. Len(spans) :
               j \in 1 .. Len(spans') /\ spans'[j] = spans[j]
          /\ spans' = Append(spans, span) =>
               /\ Len(spans') = Len(spans) + 1
               /\ spans'[Len(spans) + 1] = span
          /\ spans' # Append(spans, span) => spans' = spans
      BY <1>n, <2>5
    <2>7. SpokenInv'
      <3>1. ASSUME NEW j \in 1 .. Len(spans')
            PROVE  HeardIn(loud, startOffset + spans'[j].start,
                                 startOffset + spans'[j].end)
        <4>1. CASE j \in 1 .. Len(spans)  BY <1>s, <2>6, <4>1
        <4>2. CASE j \notin 1 .. Len(spans)
          <5>1. spans' = Append(spans, span) /\ j = Len(spans) + 1
            BY <2>5, <2>6, <4>2
          <5> QED  BY <2>3, <2>4, <2>6, <5>1
        <4> QED  BY <4>1, <4>2
      <3> QED  BY <1>s, <1>1, <1>2, <1>8, <3>1 DEF SpokenInv
    <2>8. KeptInv'
      <3> SUFFICES ASSUME NEW r \in loud, r .. r + Tiny \subseteq loud,
                          startOffset <= r, r + Tiny < endOfChunk,
                          NEW u \in r .. r + Tiny
                   PROVE  InPieces(u, spans', startOffset)
        BY <1>2 DEF KeptInv
      <3>1. CASE InPieces(u, spans, startOffset)
        <4>1. PICK j \in 1 .. Len(spans) :
                startOffset + spans[j].start <= u
                /\ u < startOffset + spans[j].end
          BY <3>1 DEF InPieces
        <4> QED  BY <2>6, <4>1 DEF InPieces
      <3>2. CASE audioStarted <= r
        <4>1. r \in Nat /\ u \in Int /\ r <= u /\ u <= r + Tiny
          BY <1>n
        <4>2. r + Tiny \in loud  BY <4>1
        <4>3. r + Tiny < t  BY <1>n, <1>q, <2>2, <4>1, <4>2
        <4>4. audioStarted <= u /\ u < t /\ t - audioStarted > Tiny
          BY <1>n, <2>2, <3>2, <4>1, <4>3
        <4>5. /\ Len(spans') = Len(spans) + 1
              /\ spans'[Len(spans) + 1] = span
          BY <2>3, <2>5, <2>6, <4>4
        <4>6. Len(spans) + 1 \in 1 .. Len(spans')  BY <2>5, <4>5
        <4> QED  BY <2>3, <4>4, <4>5, <4>6 DEF InPieces
      <3> QED  BY <1>l, <3>1, <3>2 DEF SpeechIInv, KeptInv
    <2> QED  BY <1>3, <1>4, <1>6, <2>7, <2>8 DEF SpeechIInv
  <1> QED  BY <1>n, <1>7, <1>8

(* The next chunk begins in what is being said, or in a silence. *)
LEMMA MuxTickSpeech ==
  ASSUME IInv, SpeechIInv, MuxTick PROVE SpeechIInv'
  <1> USE ArchiverAssumption DEF MuxTick
  <1>t. TypeOK  BY DEF IInv
  <1>l. Live /\ Live'  BY DEF Live
  <1>n. /\ filtered \in Nat /\ muxed \in Nat /\ quietRun \in Nat
        /\ fileIndex \in Nat /\ loud \subseteq Nat
        /\ endOfChunk \in Nat
        /\ ChunkLength * (fileIndex + 1) = endOfChunk
    BY <1>t, Offsets DEF TypeOK
  <1>m. /\ currentFile = fileIndex /\ segment = fileIndex
        /\ recordingStarted = 0 /\ filtered <= muxed + Lag
    BY <1>l DEF IInv, LiveInv, SpeechIInv, SpokenInv
  <1>3. QuietInv'  BY DEF SpeechIInv, QuietInv
  <1>1. CASE muxed # ChunkLength * (segment + 1)
    <2>1. UNCHANGED archiverVars  BY <1>1
    <2> USE <2>1 DEF archiverVars
    <2>2. startOffset' = startOffset /\ endOfChunk' = endOfChunk
      BY DEF startOffset, endOfChunk
    <2>3. SpokenInv'  BY <1>l, <2>2 DEF SpeechIInv, SpokenInv
    <2>4. BeginInv'  BY <1>l, <2>2 DEF SpeechIInv, BeginInv
    <2>5. KeptInv'  BY <1>l, <2>2 DEF SpeechIInv, KeptInv
    <2>6. PiecesAreSpeech' /\ SpeechIsKept'
      BY <1>l, EarlierChunks
    <2> QED  BY <1>3, <2>3, <2>4, <2>5, <2>6 DEF SpeechIInv
  <1>2. CASE muxed = ChunkLength * (segment + 1)
    <2>1. muxed = endOfChunk  BY <1>2, <1>n, <1>m
    <2>2. /\ recordingStarted' = recordingStarted
          /\ completeFile(TRUE)
          /\ fileIndex' = fileIndex + 1
          /\ inSilence' = inSilence
      <3>1. currentFile # NoFile /\ recordingStarted # NotStarted
        BY <1>m, <1>n DEF NoFile, NotStarted
      <3>2. recordingStarted' = recordingStarted
            /\ onStartWriting(segment + 1)
        BY <1>2, <3>1 DEF processOpening
      <3> QED  BY <3>1, <3>2, Zenon DEF onStartWriting
    <2>3. spans' = << >> /\ (~inSilence => audioStarted' = endOfChunk)
      BY <2>2 DEF completeFile, nextStart, continues
    <2>4. startOffset' = endOfChunk
      BY <1>n, <2>2 DEF startOffset
    <2>5. SpokenInv'
      <3>1. HeardIn(loud, endOfChunk, filtered)
        BY <1>n, <1>m, <2>1 DEF HeardIn
      <3> QED  BY <1>m, <2>2, <2>3, <3>1 DEF SpokenInv
    <2>6. BeginInv'  BY <1>n, <2>2, <2>3, <2>4 DEF BeginInv
    <2>7. KeptInv'
      <3> SUFFICES ASSUME NEW t \in loud, endOfChunk <= t
                   PROVE  ~inSilence /\ audioStarted' <= t
        BY <2>2, <2>4 DEF KeptInv
      <3>1. t \in Nat  BY <1>n
      <3>2. CASE inSilence
        <4>1. detected /\ phase = "running"
          BY <3>2 DEF IInv, SilenceInv
        <4>2. /\ quietRun >= SilenceMin /\ t < filtered
              /\ \A u \in filtered - quietRun .. filtered - 1 : u \notin loud
          BY <1>n, <3>1, <4>1 DEF SpeechIInv, QuietInv
        <4>3. t < filtered - quietRun  BY <1>n, <3>1, <4>2
        <4> QED  BY <1>n, <1>m, <2>1, <3>1, <4>2, <4>3
      <3>3. CASE ~inSilence  BY <2>3, <3>3
      <3> QED  BY <3>2, <3>3
    <2>8. PiecesAreSpeech' /\ SpeechIsKept'
      BY <1>l, <2>1, <2>2, AnnouncedIsSpeech, AnnouncedIsKept
    <2> QED  BY <1>3, <2>5, <2>6, <2>7, <2>8 DEF SpeechIInv
  <1> QED  BY <1>1, <1>2

(* The end of the input ends a silence that was on. *)
LEMMA EndOfInputSpeech ==
  ASSUME IInv, SpeechIInv, EndOfInput PROVE SpeechIInv'
  <1> USE ArchiverAssumption DEF EndOfInput
  <1>t. TypeOK  BY DEF IInv
  <1>l. Live /\ Live' /\ inSilence = detected
    BY DEF Live, IInv, SilenceInv
  <1>n. filtered \in Nat /\ quietRun \in Nat /\ loud \subseteq Nat
    BY <1>t DEF TypeOK
  <1>1. /\ UNCHANGED <<currentFile, recordingStarted, fileIndex, spans, ops>>
        /\ inSilence' = FALSE
        /\ detected => audioStarted' = filtered
        /\ ~detected => audioStarted' = audioStarted
    BY <1>l DEF onSilenceEnd, archiverVars
  <1>2. startOffset' = startOffset /\ endOfChunk' = endOfChunk
    BY <1>1 DEF startOffset, endOfChunk
  <1>3. QuietInv'  BY DEF SpeechIInv, QuietInv
  <1>4. SpokenInv'
    <2>1. HeardIn(loud, filtered, filtered)  BY <1>n DEF HeardIn
    <2> QED  BY <1>l, <1>1, <1>2, <2>1 DEF SpeechIInv, SpokenInv
  <1>5. BeginInv'
    <2>1. detected => filtered - 1 \notin loud
      BY <1>n DEF SpeechIInv, QuietInv
    <2> QED  BY <1>l, <1>1, <1>2, <2>1 DEF SpeechIInv, BeginInv
  <1>6. KeptInv'
    BY <1>l, <1>1, <1>2 DEF SpeechIInv, KeptInv
  <1>7. PiecesAreSpeech' /\ SpeechIsKept'
    BY <1>l, <1>1, EarlierChunks
  <1> QED  BY <1>3, <1>4, <1>5, <1>6, <1>7 DEF SpeechIInv

(* The last chunk is announced with the pieces it has. *)
LEMMA FinishedSpeech ==
  ASSUME IInv, SpeechIInv, phase \in {"idle", "running", "draining"},
         phase' = "over", onFinished,
         UNCHANGED <<filtered, muxed, segment, quietRun, detected, loud>>
  PROVE  SpeechIInv'
  <1>t. TypeOK  BY DEF IInv
  <1>1. ~Live' /\ phase' # "idle" /\ phase' # "running"  BY DEF Live
  <1>2. SpokenInv' /\ BeginInv' /\ KeptInv'
    BY <1>1 DEF SpokenInv, BeginInv, KeptInv
  <1>3. QuietInv'  BY <1>1 DEF SpeechIInv, QuietInv
  <1>4. fileIndex' = fileIndex  BY DEF onFinished
  <1>5. PiecesAreSpeech' /\ SpeechIsKept'
    <2>1. CASE currentFile = NoFile
      <3>1. ops' = ops  BY <2>1 DEF onFinished
      <3> QED
        BY <1>4, <3>1
        DEF SpeechIInv, PiecesAreSpeech, SpeechIsKept, Covered
    <2>2. CASE currentFile # NoFile
      <3>1. Live  BY <2>2 DEF Live, IInv, IdleInv
      <3>2. completeFile(FALSE)  BY <2>2 DEF onFinished
      <3>3. PiecesAreSpeech'  BY <3>1, <3>2, AnnouncedIsSpeech
      <3>4. \A i \in 1 .. fileIndex : ops'[i] = ops[i]
        BY <3>1, <3>2, NewOperation DEF SpeechIInv, SpokenInv
      <3>5. SpeechIsKept'
        BY <1>4, <3>4 DEF SpeechIInv, SpeechIsKept, Covered
      <3> QED  BY <3>3, <3>5
    <2> QED  BY <2>1, <2>2
  <1> QED  BY <1>2, <1>3, <1>5 DEF SpeechIInv

LEMMA NextSpeech == ASSUME IInv, SpeechIInv, [Next]_vars PROVE SpeechIInv'
  <1>1. CASE StartDownload  BY <1>1, StartDownloadSpeech
  <1>2. CASE FilterLoud  BY <1>2, FilterLoudSpeech
  <1>3. CASE FilterQuiet  BY <1>3, FilterQuietSpeech
  <1>4. CASE MuxTick  BY <1>4, MuxTickSpeech
  <1>5. CASE EndOfInput  BY <1>5, EndOfInputSpeech
  <1>6. CASE FinishedAfterFlush
    BY <1>6, FinishedSpeech DEF FinishedAfterFlush
  <1>7. CASE FinishedByFailure
    BY <1>7, FinishedSpeech DEF FinishedByFailure
  <1>8. CASE UNCHANGED vars
    BY <1>8 DEF vars, archiverVars, ffmpegVars, SpeechIInv, QuietInv,
         SpokenInv, BeginInv, KeptInv, PiecesAreSpeech, SpeechIsKept,
         Covered, Live, startOffset, endOfChunk
  <1> QED
    BY <1>1, <1>2, <1>3, <1>4, <1>5, <1>6, <1>7, <1>8 DEF Next

LEMMA SpeechInvariance == Spec => []SpeechIInv
  BY InitSpeech, NextSpeech, Invariance, PTL DEF Spec

(* No speech is lost, wherever files change and however late a silence is  *)
(* reported, for every lag shorter than the shortest silence.              *)
THEOREM SpeechKept == Spec => []SpeechIsKept
  <1>1. SpeechIInv => SpeechIsKept  BY DEF SpeechIInv
  <1> QED  BY <1>1, SpeechInvariance, PTL

(* No piece has a silence in it, not even one that crosses into the next   *)
(* file or is cut off by the end of the recording.                         *)
THEOREM SpeechOnly == Spec => []PiecesAreSpeech
  <1>1. SpeechIInv => PiecesAreSpeech  BY DEF SpeechIInv
  <1> QED  BY <1>1, SpeechInvariance, PTL
-----------------------------------------------------------------------------
(* Pieces lie in their chunk, but for those of a chunk that ended in       *)
(* silence                                                                 *)

ProperInv == \A j \in 1 .. Len(spans) : spans[j].start < spans[j].end

(* Before speech that began past the end of the chunk there was silence.   *)
AheadInv ==
  Live /\ ~inSilence /\ endOfChunk <= audioStarted =>
    \A t \in audioStarted - SilenceMin .. audioStarted - 1 : t \notin loud

(* What was announced: an overtaken piece begins at an instant that went   *)
(* through the filter.                                                     *)
Right(op, j) ==
  \/ WithinChunk(op.pieces[j])
  \/ /\ Overtaken(op, j)
     /\ op.timestamp + op.pieces[j].start <= filtered

AnnouncedInv ==
  \A i \in 1 .. Len(ops) : \A j \in 1 .. Len(ops[i].pieces) : Right(ops[i], j)

PieceIInv == ProperInv /\ AheadInv /\ AnnouncedInv

(* No sound comes that is before what was filtered. *)
LEMMA AnnouncedStays ==
  ASSUME IInv, AnnouncedInv, ops' = ops, filtered' \in {filtered, filtered + 1},
         loud' \in {loud, loud \cup {filtered}}
  PROVE  AnnouncedInv'
  <1> USE ArchiverAssumption
  <1>1. filtered \in Nat /\ ops \in Seq(ArchiveOperation)
    BY DEF IInv, TypeOK
  <1> SUFFICES ASSUME NEW i \in 1 .. Len(ops),
                      NEW j \in 1 .. Len(ops[i].pieces)
               PROVE  Right(ops[i], j)'
    BY DEF AnnouncedInv, Right, Overtaken, WithinChunk
  <1>2. Right(ops[i], j)  BY DEF AnnouncedInv
  <1>3. CASE WithinChunk(ops[i].pieces[j])
    BY <1>3 DEF Right, WithinChunk
  <1>4. CASE /\ Overtaken(ops[i], j)
             /\ ops[i].timestamp + ops[i].pieces[j].start <= filtered
    <2> DEFINE from == ops[i].timestamp + ops[i].pieces[j].start
    <2>1. from \in Int
      <3>1. ops[i] \in ArchiveOperation  BY <1>1
      <3>2. ops[i].timestamp \in Nat /\ ops[i].pieces \in Seq(audioSpan)
        BY <3>1 DEF ArchiveOperation
      <3>3. ops[i].pieces[j] \in audioSpan  BY <3>2
      <3>4. ops[i].pieces[j].start \in Int  BY <3>3 DEF audioSpan
      <3> QED  BY <3>2, <3>4
    <2>2. from <= filtered  BY <1>4
    <2>3. \A t \in from - SilenceMin .. from - 1 : t \notin loud
      BY <1>4 DEF Overtaken
    <2>4. /\ j = Len(ops[i].pieces)
          /\ ops[i].pieces[j].end = ChunkLength
          /\ ops[i].pieces[j].start \in ChunkLength .. ChunkLength + Lag
      BY <1>4 DEF Overtaken
    <2>5. \A t \in from - SilenceMin .. from - 1 : t # filtered
      <3> HIDE DEF from
      <3> QED  BY <1>1, <2>1, <2>2
    <2>6. \A t \in from - SilenceMin .. from - 1 : t \notin loud'
      BY <2>3, <2>5
    <2>7. from <= filtered'
      <3> HIDE DEF from
      <3> QED  BY <1>1, <2>1, <2>2
    <2> QED  BY <2>4, <2>6, <2>7 DEF Right, Overtaken
  <1> QED  BY <1>2, <1>3, <1>4 DEF Right

(* The pieces of a chunk that is announced *)
LEMMA AnnouncedIsRight ==
  ASSUME IInv, SpeechIInv, PieceIInv, Live, NEW more \in BOOLEAN,
         completeFile(more), more => muxed = endOfChunk,
         loud' = loud, filtered' = filtered
  PROVE  AnnouncedInv'
  <1> USE ArchiverAssumption
  <1>t. TypeOK  BY DEF IInv
  <1> DEFINE n == fileIndex + 1
             op == ops'[n]
             tail == [start |-> audioStarted - startOffset,
                      end   |-> endOfChunk - startOffset]
  <1>1. recordingStarted = 0  BY DEF SpeechIInv, SpokenInv
  <1>2. /\ Len(ops) = fileIndex
        /\ Len(ops') = n
        /\ \A i \in 1 .. fileIndex : ops'[i] = ops[i]
        /\ op.timestamp = startOffset
        /\ op.pieces = piecesOf(more)
    BY <1>1, NewOperation
  <1>3. /\ fileIndex \in Nat /\ startOffset \in Nat
        /\ endOfChunk = startOffset + ChunkLength
        /\ audioStarted \in Nat /\ filtered \in Nat /\ muxed \in Nat
        /\ spans \in Seq(audioSpan) /\ Len(spans) \in Nat
    BY <1>t, Offsets DEF TypeOK
  <1>4. audioStarted <= filtered /\ filtered <= muxed + Lag
    BY DEF IInv, LiveInv
  <1> HIDE DEF op, tail
  <1>5. ASSUME NEW j \in 1 .. Len(spans) PROVE WithinChunk(spans[j])
    <2>1. Bounded(spans[j]) /\ spans[j].start < spans[j].end
      BY DEF IInv, SpansInv, PieceIInv, ProperInv
    <2> QED  BY <2>1 DEF Bounded, WithinChunk
  <1>6. ASSUME NEW j \in 1 .. Len(op.pieces) PROVE Right(op, j)
    <2>1. CASE ~continues(more)
      <3>1. op.pieces = spans  BY <1>2, <2>1 DEF piecesOf
      <3> QED  BY <1>5, <3>1 DEF Right
    <2>2. CASE continues(more)
      <3>1. ~inSilence /\ more  BY <2>2 DEF continues
      <3>2. /\ tail.start = audioStarted - startOffset
            /\ tail.end = ChunkLength
        BY <1>3 DEF tail
      <3>3. op.pieces = Append(spans, tail)
        BY <1>2, <2>2 DEF piecesOf, tail
      <3>4. /\ Len(op.pieces) = Len(spans) + 1
            /\ \A k \in 1 .. Len(spans) : op.pieces[k] = spans[k]
            /\ op.pieces[Len(spans) + 1] = tail
        BY <1>3, <3>3
      <3>5. CASE j \in 1 .. Len(spans)
        BY <1>5, <3>4, <3>5 DEF Right
      <3>6. CASE j = Len(spans) + 1
        <4>1. startOffset <= audioStarted
          BY <3>1 DEF IInv, SpeechInv
        <4>2. op.pieces[j] = tail  BY <3>4, <3>6
        <4>3. CASE audioStarted < endOfChunk
          <5>1. WithinChunk(tail)
            BY <1>3, <3>2, <4>1, <4>3 DEF WithinChunk
          <5> QED  BY <4>2, <5>1 DEF Right
        <4>4. CASE endOfChunk <= audioStarted
          <5>1. tail.start \in ChunkLength .. ChunkLength + Lag
            BY <1>3, <1>4, <3>1, <3>2, <4>4
          <5>2. op.timestamp + tail.start = audioStarted
            BY <1>2, <1>3, <3>2
          <5>3. \A t \in audioStarted - SilenceMin .. audioStarted - 1 :
                  t \notin loud
            BY <3>1, <4>4 DEF PieceIInv, AheadInv
          <5>4. j = Len(op.pieces)  BY <3>4, <3>6
          <5> QED
            BY <1>4, <3>2, <4>2, <5>1, <5>2, <5>3, <5>4
            DEF Right, Overtaken
        <4> QED  BY <1>3, <4>3, <4>4
      <3> QED  BY <1>3, <3>4, <3>5, <3>6
    <2> QED  BY <2>1, <2>2
  <1> SUFFICES ASSUME NEW i \in 1 .. Len(ops'),
                      NEW j \in 1 .. Len(ops'[i].pieces)
               PROVE  Right(ops'[i], j)
    BY DEF AnnouncedInv, Right, Overtaken, WithinChunk
  <1>7. CASE i \in 1 .. fileIndex
    BY <1>2, <1>7 DEF PieceIInv, AnnouncedInv
  <1>8. CASE i = n  BY <1>6, <1>8 DEF op
  <1> QED  BY <1>2, <1>3, <1>7, <1>8

(* Speech begins after a silence, here and at the end of the input. *)
LEMMA SilenceEndsQuiet ==
  ASSUME IInv, SpeechIInv, PieceIInv, phase = "running",
         IF detected THEN onSilenceEnd(filtered) ELSE UNCHANGED archiverVars,
         loud' \in {loud, loud \cup {filtered}},
         filtered' \in {filtered, filtered + 1}
  PROVE  PieceIInv'
  <1> USE ArchiverAssumption
  <1>t. TypeOK  BY DEF IInv
  <1>n. /\ filtered \in Nat /\ quietRun \in Nat /\ audioStarted \in Nat
        /\ audioStarted <= filtered
    BY <1>t DEF TypeOK, IInv, LiveInv, Live
  <1>l. inSilence = detected /\ Live
    BY DEF IInv, SilenceInv, Live
  <1>1. /\ UNCHANGED <<fileIndex, spans, ops>>
        /\ detected => audioStarted' = filtered
        /\ ~detected => audioStarted' = audioStarted
    BY DEF onSilenceEnd, archiverVars
  <1>2. endOfChunk' = endOfChunk  BY <1>1 DEF startOffset, endOfChunk
  <1>3. ProperInv'  BY <1>1 DEF PieceIInv, ProperInv
  <1>4. AnnouncedInv'  BY <1>1, AnnouncedStays DEF PieceIInv
  <1>5. AheadInv'
    <2>1. CASE detected
      <3>1. /\ quietRun >= SilenceMin
            /\ \A u \in filtered - quietRun .. filtered - 1 : u \notin loud
        BY <2>1 DEF SpeechIInv, QuietInv
      <3>2. \A t \in filtered - SilenceMin .. filtered - 1 :
              t \notin loud /\ t # filtered
        BY <1>n, <3>1
      <3> QED  BY <1>1, <2>1, <3>2 DEF AheadInv
    <2>2. CASE ~detected
      <3> SUFFICES ASSUME endOfChunk <= audioStarted
                   PROVE  \A t \in audioStarted - SilenceMin .. audioStarted - 1 :
                            t \notin loud'
        BY <1>1, <1>2, <2>2 DEF AheadInv
      <3>1. \A t \in audioStarted - SilenceMin .. audioStarted - 1 :
              t \notin loud
        BY <1>l, <2>2 DEF PieceIInv, AheadInv
      <3>2. \A t \in audioStarted - SilenceMin .. audioStarted - 1 :
              t # filtered
        BY <1>n
      <3> QED  BY <3>1, <3>2
    <2> QED  BY <2>1, <2>2
  <1> QED  BY <1>3, <1>4, <1>5 DEF PieceIInv

LEMMA FilterQuietPieces ==
  ASSUME IInv, SpeechIInv, PieceIInv, FilterQuiet PROVE PieceIInv'
  <1> USE ArchiverAssumption DEF FilterQuiet
  <1>t. TypeOK  BY DEF IInv
  <1>l. Live /\ inSilence = detected
    BY DEF Live, IInv, SilenceInv
  <1>n. /\ inSilence \in BOOLEAN /\ detected \in BOOLEAN
        /\ spans \in Seq(audioSpan)
        /\ audioStarted \in Nat /\ filtered \in Nat /\ startOffset \in Nat
    BY <1>t, Offsets DEF TypeOK
  <1>1. /\ UNCHANGED <<fileIndex, audioStarted, ops>>
        /\ inSilence' = detected'
    BY <1>l, <1>n DEF onSilenceStart, archiverVars
  <1>2. endOfChunk' = endOfChunk  BY <1>1 DEF startOffset, endOfChunk
  <1>3. AnnouncedInv'
    <2>1. filtered' \in {filtered, filtered + 1} /\ loud' = loud  OBVIOUS
    <2> QED  BY <1>1, <2>1, AnnouncedStays DEF PieceIInv
  <1>4. AheadInv'
    <2>1. detected => detected'  BY Zenon
    <2>2. loud' = loud  OBVIOUS
    <2>3. ~inSilence' => ~inSilence  BY <1>l, <1>1, <2>1
    <2> QED  BY <1>l, <1>1, <1>2, <2>2, <2>3 DEF PieceIInv, AheadInv
  <1>5. ProperInv'
    <2>1. CASE UNCHANGED archiverVars
      BY <2>1 DEF archiverVars, PieceIInv, ProperInv
    <2>2. CASE ~detected /\ detected'
      <3> DEFINE span == [start |-> audioStarted - startOffset,
                          end   |-> (filtered + 1 - SilenceMin) - startOffset]
      <3>1. spans' = IF Duration(span) > Tiny THEN Append(spans, span)
                     ELSE spans
        BY <2>2 DEF onSilenceStart
      <3>2. span \in audioSpan  BY <1>n DEF audioSpan
      <3>3. Duration(span) > Tiny => span.start < span.end
        BY <1>n DEF Duration
      <3> HIDE DEF span
      <3>4. CASE ~(Duration(span) > Tiny)
        BY <3>1, <3>4 DEF PieceIInv, ProperInv
      <3>5. CASE Duration(span) > Tiny
        <4>1. spans' = Append(spans, span)  BY <3>1, <3>5
        <4> SUFFICES ASSUME NEW j \in 1 .. Len(spans')
                     PROVE  spans'[j].start < spans'[j].end
          BY DEF ProperInv
        <4>2. CASE j \in 1 .. Len(spans)
          BY <1>n, <4>1, <4>2 DEF PieceIInv, ProperInv
        <4>3. CASE j = Len(spans) + 1
          <5>1. spans'[j] = span  BY <1>n, <3>2, <4>1, <4>3
          <5> QED  BY <3>3, <3>5, <5>1
        <4> QED  BY <1>n, <3>2, <4>1, <4>2, <4>3
      <3> QED  BY <3>4, <3>5
    <2> QED  BY <1>n, <2>1, <2>2
  <1> QED  BY <1>3, <1>4, <1>5 DEF PieceIInv

LEMMA MuxTickPieces ==
  ASSUME IInv, SpeechIInv, PieceIInv, MuxTick PROVE PieceIInv'
  <1> USE ArchiverAssumption DEF MuxTick
  <1>t. TypeOK  BY DEF IInv
  <1>l. Live /\ Live'  BY DEF Live
  <1>n. /\ fileIndex \in Nat /\ endOfChunk \in Nat
        /\ ChunkLength * (fileIndex + 1) = endOfChunk
        /\ ChunkLength * (fileIndex + 1) + ChunkLength
             = ChunkLength * (fileIndex + 2)
        /\ (fileIndex + 1) + 1 = fileIndex + 2
    BY <1>t, Offsets DEF TypeOK
  <1>m. /\ currentFile = fileIndex /\ segment = fileIndex
        /\ recordingStarted = 0
    BY <1>l DEF IInv, LiveInv, SpeechIInv, SpokenInv
  <1>1. CASE muxed # ChunkLength * (segment + 1)
    <2>1. UNCHANGED archiverVars  BY <1>1
    <2>2. endOfChunk' = endOfChunk
      BY <2>1 DEF archiverVars, startOffset, endOfChunk
    <2>3. ProperInv'  BY <2>1 DEF archiverVars, PieceIInv, ProperInv
    <2>4. AheadInv'
      BY <1>l, <2>1, <2>2 DEF archiverVars, PieceIInv, AheadInv
    <2>5. AnnouncedInv'
      <3>1. ops' = ops  BY <2>1 DEF archiverVars
      <3> QED  BY <3>1, AnnouncedStays DEF PieceIInv
    <2> QED  BY <2>3, <2>4, <2>5 DEF PieceIInv
  <1>2. CASE muxed = ChunkLength * (segment + 1)
    <2>1. muxed = endOfChunk  BY <1>2, <1>n, <1>m
    <2>2. /\ completeFile(TRUE)
          /\ fileIndex' = fileIndex + 1
          /\ inSilence' = inSilence
      <3>1. currentFile # NoFile /\ recordingStarted # NotStarted
        BY <1>m, <1>n DEF NoFile, NotStarted
      <3>2. onStartWriting(segment + 1)
        BY <1>2, <3>1 DEF processOpening
      <3> QED  BY <3>1, <3>2, Zenon DEF onStartWriting
    <2>3. spans' = << >> /\ (~inSilence => audioStarted' = endOfChunk)
      BY <2>2 DEF completeFile, nextStart, continues
    <2>4. endOfChunk' = endOfChunk + ChunkLength
      BY <1>n, <2>2 DEF startOffset, endOfChunk
    <2>5. ProperInv'  BY <2>3 DEF ProperInv
    <2>6. AheadInv'  BY <1>n, <2>2, <2>3, <2>4 DEF AheadInv
    <2>7. AnnouncedInv'  BY <1>l, <2>1, <2>2, AnnouncedIsRight
    <2> QED  BY <2>5, <2>6, <2>7 DEF PieceIInv
  <1> QED  BY <1>1, <1>2

LEMMA FinishedPieces ==
  ASSUME IInv, SpeechIInv, PieceIInv,
         phase \in {"idle", "running", "draining"}, phase' = "over",
         onFinished,
         UNCHANGED <<filtered, muxed, segment, quietRun, detected, loud>>
  PROVE  PieceIInv'
  <1>1. AheadInv'  BY DEF AheadInv, Live
  <1>2. CASE currentFile = NoFile
    <2>1. ops' = ops /\ spans' = spans  BY <1>2 DEF onFinished
    <2>2. ProperInv'  BY <2>1 DEF PieceIInv, ProperInv
    <2>3. AnnouncedInv'  BY <2>1, AnnouncedStays DEF PieceIInv
    <2> QED  BY <1>1, <2>2, <2>3 DEF PieceIInv
  <1>3. CASE currentFile # NoFile
    <2>1. Live  BY <1>3 DEF Live, IInv, IdleInv
    <2>2. completeFile(FALSE)  BY <1>3 DEF onFinished
    <2>3. ProperInv'  BY <2>2 DEF completeFile, ProperInv
    <2>4. AnnouncedInv'  BY <2>1, <2>2, AnnouncedIsRight
    <2> QED  BY <1>1, <2>3, <2>4 DEF PieceIInv
  <1> QED  BY <1>2, <1>3

LEMMA NextPieces ==
  ASSUME IInv, SpeechIInv, PieceIInv, [Next]_vars PROVE PieceIInv'
  <1>1. CASE StartDownload
    <2>1. /\ spans' = << >> /\ ops' = << >> /\ loud' = {}
      BY <1>1
      DEF StartDownload, IInv, IdleInv, SpeechIInv, QuietInv, processOpening,
          onDownloadStarted, onStartWriting
    <2> QED  BY <2>1 DEF PieceIInv, ProperInv, AheadInv, AnnouncedInv
  <1>2. CASE FilterLoud  BY <1>2, SilenceEndsQuiet DEF FilterLoud
  <1>3. CASE FilterQuiet  BY <1>3, FilterQuietPieces
  <1>4. CASE MuxTick  BY <1>4, MuxTickPieces
  <1>5. CASE EndOfInput  BY <1>5, SilenceEndsQuiet DEF EndOfInput
  <1>6. CASE FinishedAfterFlush
    BY <1>6, FinishedPieces DEF FinishedAfterFlush
  <1>7. CASE FinishedByFailure
    BY <1>7, FinishedPieces DEF FinishedByFailure
  <1>8. CASE UNCHANGED vars
    BY <1>8
    DEF vars, archiverVars, ffmpegVars, PieceIInv, ProperInv, AheadInv,
        AnnouncedInv, Right, Overtaken, WithinChunk, Live, startOffset,
        endOfChunk
  <1> QED
    BY <1>1, <1>2, <1>3, <1>4, <1>5, <1>6, <1>7, <1>8 DEF Next

(* Every piece lies in its chunk, however late silences are reported and   *)
(* files opened, but for the last one of a chunk that ended in silence,    *)
(* which begins past the end by the lag at most and stands for no sound:   *)
(* for every lag shorter than the shortest silence.                        *)
THEOREM PiecesStayInChunk == Spec => []PiecesWithinChunk
  <1>1. Init => PieceIInv
    BY DEF Init, PieceIInv, ProperInv, AheadInv, AnnouncedInv, Live
  <1>2. PieceIInv => PiecesWithinChunk
    BY DEF PieceIInv, AnnouncedInv, Right, PiecesWithinChunk
  <1> QED
    BY <1>1, <1>2, NextPieces, SpeechInvariance, Invariance, PTL DEF Spec
=============================================================================
