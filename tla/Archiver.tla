------------------------------ MODULE Archiver ------------------------------
(***************************************************************************)
(* The archiver of pkg/archive.go: it hears, as callbacks, what ffmpeg     *)
(* says while it downloads one stream (a chunk file was opened, a silence  *)
(* began, a silence ended, the output is over) and works out, for every    *)
(* chunk file, which pieces of it hold speech.                             *)
(*                                                                         *)
(* ffmpeg itself is external.  Its silencedetect filter and its segment    *)
(* muxer work on one media timeline, cut here into ticks; the muxer runs   *)
(* behind the filter, so an "Opening" line may come after a silence line   *)
(* about a later instant (pkg/stderr.txt: silence_end 60.4186 is printed   *)
(* before output001.mp3 is opened).                                        *)
(***************************************************************************)
EXTENDS Integers, Sequences

CONSTANTS
  ChunkLength,  (* ticks in a chunk (60 s)                               *)
  SilenceMin,   (* shortest silence that is reported, silencedetect's d  *)
  Tiny,         (* spans up to this long are ignored (10 ms)             *)
  Lag,          (* how far the muxer may run behind the filter           *)
  MaxTime       (* bound: length of the recording, in ticks              *)

ASSUME ArchiverAssumption ==
  /\ ChunkLength \in Nat \ {0}
  /\ SilenceMin \in Nat \ {0}
  /\ Tiny \in Nat
  /\ Lag \in 1 .. SilenceMin - 1
  /\ MaxTime \in Nat

VARIABLES
  (* type archiver struct *)
  currentFile,       (* index of the chunk file being written, or NoFile *)
  recordingStarted,  (* wall clock at the first "Opening", or NotStarted *)
  fileIndex,
  inSilence,
  audioStarted,
  spans,
  ops,               (* what was offered on a.ch, in order: module       *)
                     (* Pipeline has who takes it, or that nobody does   *)
  (* ffmpeg *)
  filtered,          (* ticks that went through silencedetect            *)
  muxed,             (* ticks written to chunk files                     *)
  segment,           (* index of the segment being written               *)
  quietRun,          (* quiet ticks at the end of what was filtered      *)
  detected,          (* silencedetect has reported a silence, still on   *)
  loud,              (* the ticks that held sound                        *)
  phase              (* "idle", "running", "draining" or "over"          *)

archiverVars == <<currentFile, recordingStarted, fileIndex, inSilence,
                  audioStarted, spans, ops>>
ffmpegVars == <<filtered, muxed, segment, quietRun, detected, loud, phase>>
vars == <<archiverVars, ffmpegVars>>

NoFile == -1
NotStarted == -1

audioSpan == [start : Int, end : Int]

ArchiveOperation == [path : Nat, timestamp : Nat, pieces : Seq(audioSpan)]

Duration(span) == span.end - span.start

-----------------------------------------------------------------------------
(* The callbacks *)

startOffset == ChunkLength * fileIndex
endOfChunk  == startOffset + ChunkLength

(* Mutant: a silence does not end the piece. *)
continuesInSilence(audioMayContinue) == audioMayContinue
(* Sound that goes on across the end of the chunk belongs to both chunks. *)
continues(audioMayContinue) == ~inSilence /\ audioMayContinue

piecesOf(audioMayContinue) ==
  IF continues(audioMayContinue)
  THEN Append(spans, [start |-> audioStarted - startOffset,
                      end   |-> endOfChunk - startOffset])
  ELSE spans

(* Mutant: the next chunk takes up the piece from its old beginning. *)
nextStartUnmoved(audioMayContinue) == audioStarted
nextStart(audioMayContinue) ==
  IF continues(audioMayContinue) THEN endOfChunk ELSE audioStarted

completeFile(audioMayContinue) ==
  /\ ops' = Append(ops, [path      |-> currentFile,
                         timestamp |-> recordingStarted + startOffset,
                         pieces    |-> piecesOf(audioMayContinue)])
  /\ audioStarted' = nextStart(audioMayContinue)
  /\ spans' = << >>

onDownloadStarted == recordingStarted' = filtered

(* Mutant: what is being said when a file is full is not kept. *)
onStartWritingWithoutTail(path) ==
  /\ currentFile' = path
  /\ IF currentFile # NoFile
     THEN completeFile(FALSE) /\ fileIndex' = fileIndex + 1
     ELSE UNCHANGED <<fileIndex, audioStarted, spans, ops>>
  /\ UNCHANGED inSilence

onStartWriting(path) ==
  /\ currentFile' = path
  /\ IF currentFile # NoFile
     THEN completeFile(TRUE) /\ fileIndex' = fileIndex + 1
     ELSE UNCHANGED <<fileIndex, audioStarted, spans, ops>>
  /\ UNCHANGED inSilence

onSilenceStart(t) ==
  LET span == [start |-> audioStarted - startOffset, end |-> t - startOffset]
  IN  /\ spans' = IF Duration(span) > Tiny THEN Append(spans, span) ELSE spans
      /\ inSilence' = TRUE
      /\ UNCHANGED <<currentFile, recordingStarted, fileIndex, audioStarted,
                     ops>>

(* Mutant: the end of a silence starts no new piece. *)
onSilenceEndUnmoved(t) ==
  /\ inSilence' = FALSE
  /\ UNCHANGED <<currentFile, recordingStarted, fileIndex, audioStarted,
                 spans, ops>>

onSilenceEnd(t) ==
  /\ audioStarted' = t
  /\ inSilence' = FALSE
  /\ UNCHANGED <<currentFile, recordingStarted, fileIndex, spans, ops>>

onFinished ==
  /\ IF currentFile # NoFile
     THEN completeFile(FALSE)
     ELSE UNCHANGED <<audioStarted, spans, ops>>
  /\ UNCHANGED <<currentFile, recordingStarted, fileIndex, inSilence>>

(* Mutant: every file restarts the clock. *)
processOpeningEachStarts(path) == onDownloadStarted /\ onStartWriting(path)

(* An "Opening ... for writing" line of the segment muxer: the first one   *)
(* also marks the start of the download.  The parser's "running" flag is   *)
(* the fact that recordingStarted is set.                                  *)
processOpening(path) ==
  /\ IF recordingStarted = NotStarted
     THEN onDownloadStarted
     ELSE UNCHANGED recordingStarted
  /\ onStartWriting(path)

-----------------------------------------------------------------------------
(* ffmpeg, and what it makes the archiver hear *)

(* The segment muxer opens the first file before any audio goes through. *)
StartDownload ==
  /\ phase = "idle"
  /\ phase' = "running"
  /\ processOpening(0)
  /\ UNCHANGED <<filtered, muxed, segment, quietRun, detected, loud>>

(* A tick with sound ends a reported silence. *)
FilterLoud ==
  /\ phase = "running"
  /\ filtered < MaxTime
  /\ filtered + 1 - muxed <= Lag
  /\ filtered' = filtered + 1
  /\ loud' = loud \cup {filtered}
  /\ quietRun' = 0
  /\ detected' = FALSE
  /\ IF detected THEN onSilenceEnd(filtered) ELSE UNCHANGED archiverVars
  /\ UNCHANGED <<muxed, segment, phase>>

(* A silence is reported once it has lasted SilenceMin, with the instant   *)
(* it began at.                                                            *)
FilterQuiet ==
  /\ phase = "running"
  /\ filtered < MaxTime
  /\ filtered + 1 - muxed <= Lag
  /\ filtered' = filtered + 1
  /\ quietRun' = quietRun + 1
  /\ detected' = (detected \/ quietRun + 1 = SilenceMin)
  /\ IF ~detected /\ detected'
     THEN onSilenceStart(filtered + 1 - SilenceMin)
     ELSE UNCHANGED archiverVars
  /\ UNCHANGED <<muxed, segment, loud, phase>>

(* The muxer writes one tick, into a new file when the segment is full. *)
MuxTick ==
  /\ phase \in {"running", "draining"}
  /\ muxed < filtered
  /\ muxed' = muxed + 1
  /\ IF muxed = ChunkLength * (segment + 1)
     THEN segment' = segment + 1 /\ processOpening(segment + 1)
     ELSE UNCHANGED <<segment, archiverVars>>
  /\ UNCHANGED <<filtered, quietRun, detected, loud, phase>>

(* End of the input, or SIGINT: the filter reports the end of a silence    *)
(* that was still on, then the muxer is flushed.                           *)
EndOfInput ==
  /\ phase = "running"
  /\ phase' = "draining"
  /\ detected' = FALSE
  /\ IF detected THEN onSilenceEnd(filtered) ELSE UNCHANGED archiverVars
  /\ UNCHANGED <<filtered, muxed, segment, quietRun, loud>>

(* The pipe is at its end: after the flush, or at any moment when ffmpeg   *)
(* failed or was killed.                                                   *)
FinishedAfterFlush ==
  /\ phase = "draining"
  /\ muxed = filtered
  /\ phase' = "over"
  /\ onFinished
  /\ UNCHANGED <<filtered, muxed, segment, quietRun, detected, loud>>

FinishedByFailure ==
  /\ phase \in {"idle", "running", "draining"}
  /\ phase' = "over"
  /\ onFinished
  /\ UNCHANGED <<filtered, muxed, segment, quietRun, detected, loud>>

-----------------------------------------------------------------------------

Init ==
  /\ currentFile = NoFile
  /\ recordingStarted = NotStarted
  /\ fileIndex = 0
  /\ inSilence = FALSE
  /\ audioStarted = 0
  /\ spans = << >>
  /\ ops = << >>
  /\ filtered = 0
  /\ muxed = 0
  /\ segment = 0
  /\ quietRun = 0
  /\ detected = FALSE
  /\ loud = {}
  /\ phase = "idle"

Next ==
  \/ StartDownload
  \/ FilterLoud
  \/ FilterQuiet
  \/ MuxTick
  \/ EndOfInput
  \/ FinishedAfterFlush
  \/ FinishedByFailure

Spec == Init /\ [][Next]_vars

-----------------------------------------------------------------------------
(* Properties *)

(* Every variable of the archiver and of ffmpeg has its type. *)
TypeOK ==
  /\ currentFile \in Nat \cup {NoFile}
  /\ recordingStarted \in Nat \cup {NotStarted}
  /\ fileIndex \in Nat
  /\ inSilence \in BOOLEAN
  /\ audioStarted \in Nat
  /\ spans \in Seq(audioSpan)
  /\ ops \in Seq(ArchiveOperation)
  /\ filtered \in Nat
  /\ muxed \in Nat
  /\ segment \in Nat
  /\ quietRun \in Nat
  /\ detected \in BOOLEAN
  /\ loud \subseteq Nat
  /\ phase \in {"idle", "running", "draining", "over"}

WithinChunk(piece) ==
  0 <= piece.start /\ piece.start < piece.end /\ piece.end <= ChunkLength

(* The exception: a silence that lasted over the end of the chunk was over *)
(* before the next file was opened.  The chunk's last piece then "starts"  *)
(* after its end, by the muxer's lag at most: it stands for no sound.      *)
Overtaken(op, j) ==
  LET piece == op.pieces[j]
      from  == op.timestamp + piece.start
  IN  /\ j = Len(op.pieces)
      /\ piece.end = ChunkLength
      /\ piece.start \in ChunkLength .. ChunkLength + Lag
      /\ \A t \in from - SilenceMin .. from - 1 : t \notin loud

(* A piece lies in the chunk file it is to be cut from (splitAudio's -ss   *)
(* and -t), although silences are reported late and files are opened late, *)
(* unless it is the empty or inverted piece of a chunk that ended in       *)
(* silence.                                                                *)
PiecesWithinChunk ==
  \A i \in 1 .. Len(ops) : \A j \in 1 .. Len(ops[i].pieces) :
    WithinChunk(ops[i].pieces[j]) \/ Overtaken(ops[i], j)

(* The pieces of a chunk come in the order they were spoken and do not     *)
(* overlap: no speech is transcribed twice.                                *)
PiecesOrdered ==
  \A i \in 1 .. Len(ops) :
    \A j \in 1 .. Len(ops[i].pieces) - 1 :
      ops[i].pieces[j].end <= ops[i].pieces[j + 1].start

(* Chunk number n of the recording is announced n-th, under its own file,  *)
(* with the instant its first sample was broadcast at.                     *)
ChunkTimestamps ==
  \A i \in 1 .. Len(ops) :
    /\ ops[i].path = i - 1
    /\ ops[i].timestamp = recordingStarted + ChunkLength * (i - 1)

Covered(tick, op) ==
  \E j \in 1 .. Len(op.pieces) :
    /\ op.timestamp + op.pieces[j].start <= tick
    /\ tick < op.timestamp + op.pieces[j].end

(* No speech is lost: a run of sound longer than Tiny inside a chunk that  *)
(* was followed by another one is covered by the pieces of that chunk,     *)
(* wherever silences and file changes fall around it.                      *)
SpeechIsKept ==
  \A i \in 1 .. fileIndex : \A t \in loud :
    LET run == t .. t + Tiny
    IN  (/\ run \subseteq loud
         /\ ChunkLength * (i - 1) <= t
         /\ t + Tiny < ChunkLength * i)
        => \A u \in run : Covered(u, ops[i])

(* A piece is speech: no piece contains a silence as long as the ones      *)
(* silencedetect reports.                                                  *)
PiecesAreSpeech ==
  \A i \in 1 .. Len(ops) : \A j \in 1 .. Len(ops[i].pieces) :
    LET from == ops[i].timestamp + ops[i].pieces[j].start
        to   == ops[i].timestamp + ops[i].pieces[j].end
    IN  \A t \in from .. to - SilenceMin :
          \E u \in t .. t + SilenceMin - 1 : u \in loud
=============================================================================
