------------------------------ MODULE Pipeline ------------------------------
(***************************************************************************)
(* The download command (cmd/radio-chatter/download.go, pkg/process.go):   *)
(* every stream has an ffmpeg process that writes chunk files and names    *)
(* them on its stderr, a parser goroutine that reads the names and sends   *)
(* archive operations, the "preprocess" thunk that waits for both, and the *)
(* "archive" thunk that executes the operations.  All thunks share one     *)
(* errgroup and its context.                                               *)
(*                                                                         *)
(* The chunks of a stream are numbered from 0.  What the archiver works    *)
(* out for a chunk is module Archiver; here it only matters which chunk an *)
(* operation is about.                                                     *)
(***************************************************************************)
EXTENDS Integers, Sequences, FiniteSets

CONSTANTS
  Streams,    (* the rows of the streams table at start                   *)
  MaxChunks,  (* bound: chunks each stream's ffmpeg opens                 *)
  PipeCap,    (* stderr lines that fit in the pipe                        *)
  Faults      (* what may fail: "start", "ffmpeg", "store", "save",       *)
              (* "remove"                                                 *)

ASSUME PipelineAssumption ==
  /\ MaxChunks \in [Streams -> Nat]
  /\ PipeCap \in Nat \ {0}
  /\ Faults \subseteq {"start", "ffmpeg", "store", "save", "remove"}

VARIABLES
  (* ffmpeg: the process, the chunk files and the stderr pipe *)
  ffmpeg,       (* "none", "running", "interrupted", or how it exited     *)
  opened,       (* files opened, and lines written                        *)
  files,        (* chunk files that are in the temporary directory        *)
  pipeClosed,   (* the read end was closed by os/exec                     *)
  (* the goroutine that runs parseStderr *)
  parser,       (* "scan", "send", "finish" or "done"                     *)
  fetched,      (* lines in the Scanner's buffer, or past it              *)
  parsed,       (* lines that were processed                              *)
  currentFile,
  parseError,
  (* the thunks and their channel *)
  preprocess,   (* "start", "wait", "join" or "returned"                  *)
  archive,      (* "recv", "read", "store", "save", "remove", "returned"  *)
  op,           (* the chunk of the operation that is being executed      *)
  chClosed,     (* archiveOps is closed                                   *)
  (* shared *)
  ctxDone,
  groupFailed,  (* the errgroup holds an error                            *)
  main,         (* "wait", "fatal" or "exited"                            *)
  blobs,        (* of each stream, by the number of the chunk             *)
  rows,         (* the chunks table, per stream in the order of the ids   *)
  split         (* chunks whose transmissions were saved                  *)

ffmpegVars  == <<ffmpeg, opened, files, pipeClosed>>
parserVars  == <<parser, fetched, parsed, currentFile, parseError>>
thunkVars   == <<preprocess, archive, op, chClosed>>
groupVars   == <<ctxDone, groupFailed, main>>
storageVars == <<blobs, rows, split>>
vars == <<ffmpegVars, parserVars, thunkVars, groupVars, storageVars>>

NoFile == -1

Exited == {"ok", "okInterrupted", "255", "failed"}

-----------------------------------------------------------------------------
(* ffmpeg, and the part of os/exec that signals it *)

(* The segment muxer opens a file and says so; the file before it is       *)
(* complete then.  A full pipe makes it wait.                              *)
OpenFile(s) ==
  /\ ffmpeg[s] \in {"running", "interrupted"}
  /\ opened[s] < MaxChunks[s]
  /\ opened[s] - fetched[s] < PipeCap
  /\ opened' = [opened EXCEPT ![s] = @ + 1]
  /\ files' = [files EXCEPT ![s] = @ \cup {opened[s]}]
  /\ UNCHANGED <<ffmpeg, pipeClosed>>
  /\ UNCHANGED <<parserVars, thunkVars, groupVars, storageVars>>

(* cmd.Cancel, once the context is done *)
SendInterrupt(s) ==
  /\ ctxDone
  /\ ffmpeg[s] = "running"
  /\ ffmpeg' = [ffmpeg EXCEPT ![s] = "interrupted"]
  /\ UNCHANGED <<opened, files, pipeClosed>>
  /\ UNCHANGED <<parserVars, thunkVars, groupVars, storageVars>>

(* End of the input, a failure, the graceful end after SIGINT, or the kill *)
(* after WaitDelay *)
ExitStatus(s) ==
  IF ffmpeg[s] = "running"
  THEN {"ok"} \cup (IF "ffmpeg" \in Faults THEN {"failed"} ELSE {})
  ELSE {"255", "okInterrupted", "failed"}

Exit(s) ==
  /\ ffmpeg[s] \in {"running", "interrupted"}
  /\ \E status \in ExitStatus(s) :
       ffmpeg' = [ffmpeg EXCEPT ![s] = status]
  /\ UNCHANGED <<opened, files, pipeClosed>>
  /\ UNCHANGED <<parserVars, thunkVars, groupVars, storageVars>>

-----------------------------------------------------------------------------
(* The parser *)

(* Scanner.Scan with an empty buffer: Read returns some of what is in the  *)
(* pipe.                                                                   *)
Fetch(s) ==
  /\ parser[s] = "scan"
  /\ parsed[s] = fetched[s]
  /\ ~pipeClosed[s]
  /\ \E n \in fetched[s] + 1 .. opened[s] :
       fetched' = [fetched EXCEPT ![s] = n]
  /\ UNCHANGED <<parser, parsed, currentFile, parseError>>
  /\ UNCHANGED <<ffmpegVars, thunkVars, groupVars, storageVars>>

(* Mutant: the operation is about the file that was just opened. *)
SentNewFile(s) == parsed[s]

(* onStartWriting's completeFile: the operation that is sent is about the  *)
(* file before the one that was opened.                                    *)
SentChunk(s) == currentFile[s]

StartWriting(s) ==
  /\ parser[s] = "scan"
  /\ parsed[s] < fetched[s]
  /\ IF currentFile[s] = NoFile
     THEN /\ currentFile' = [currentFile EXCEPT ![s] = parsed[s]]
          /\ parsed' = [parsed EXCEPT ![s] = @ + 1]
          /\ UNCHANGED parser
     ELSE /\ parser' = [parser EXCEPT ![s] = "send"]
          /\ UNCHANGED <<currentFile, parsed>>
  /\ UNCHANGED <<fetched, parseError>>
  /\ UNCHANGED <<ffmpegVars, thunkVars, groupVars, storageVars>>

(* The end of the pipe, or the error of a Read after os/exec closed it;    *)
(* then the deferred onFinished.                                           *)
EndOfPipe(s) ==
  /\ parser[s] = "scan"
  /\ parsed[s] = fetched[s]
  /\ \/ pipeClosed[s]
     \/ ffmpeg[s] \in Exited /\ fetched[s] = opened[s]
  /\ parseError' = [parseError EXCEPT ![s] = pipeClosed[s]]
  /\ parser' = [parser EXCEPT ![s] =
                  IF currentFile[s] = NoFile THEN "done" ELSE "finish"]
  /\ UNCHANGED <<fetched, parsed, currentFile>>
  /\ UNCHANGED <<ffmpegVars, thunkVars, groupVars, storageVars>>

(* What follows the select of completeFile *)
AfterSelect(s) ==
  /\ IF parser[s] = "send"
     THEN /\ currentFile' = [currentFile EXCEPT ![s] = parsed[s]]
          /\ parsed' = [parsed EXCEPT ![s] = @ + 1]
          /\ parser' = [parser EXCEPT ![s] = "scan"]
     ELSE /\ parser' = [parser EXCEPT ![s] = "done"]
          /\ UNCHANGED <<currentFile, parsed>>
  /\ UNCHANGED <<fetched, parseError>>

(* case a.ch <- op: archiveOps has no buffer, both sides step at once.     *)
Send(s) ==
  /\ parser[s] \in {"send", "finish"}
  /\ archive[s] = "recv"
  /\ ~chClosed[s]
  /\ AfterSelect(s)
  /\ op' = [op EXCEPT ![s] = SentChunk(s)]
  /\ archive' = [archive EXCEPT ![s] = "read"]
  /\ UNCHANGED <<preprocess, chClosed>>
  /\ UNCHANGED <<ffmpegVars, groupVars, storageVars>>

(* case <-a.ctx.Done() *)
Drop(s) ==
  /\ parser[s] \in {"send", "finish"}
  /\ ctxDone
  /\ AfterSelect(s)
  /\ UNCHANGED <<ffmpegVars, thunkVars, groupVars, storageVars>>

-----------------------------------------------------------------------------
(* The thunks.  An error of a thunk is kept by the group and cancels the   *)
(* context of all.                                                         *)

Fail(failed) ==
  /\ groupFailed' = (groupFailed \/ failed)
  /\ ctxDone' = (ctxDone \/ failed)
  /\ UNCHANGED main

(* preprocess returns: the deferred close(archiveOps) runs first. *)
PreprocessReturns(s, failed) ==
  /\ preprocess' = [preprocess EXCEPT ![s] = "returned"]
  /\ chClosed' = [chClosed EXCEPT ![s] = TRUE]
  /\ Fail(failed)

Start(s) ==
  /\ preprocess[s] = "start"
  /\ ~ctxDone
  /\ ffmpeg' = [ffmpeg EXCEPT ![s] = "running"]
  /\ preprocess' = [preprocess EXCEPT ![s] = "wait"]
  /\ UNCHANGED <<opened, files, pipeClosed, archive, op, chClosed>>
  /\ UNCHANGED <<parserVars, groupVars, storageVars>>

(* cmd.Start fails: no ffmpeg, or the context is done already.  os/exec    *)
(* closes the pipe; nobody waits for the parser.                           *)
StartFails(s) ==
  /\ preprocess[s] = "start"
  /\ ctxDone \/ "start" \in Faults
  /\ pipeClosed' = [pipeClosed EXCEPT ![s] = TRUE]
  /\ PreprocessReturns(s, TRUE)
  /\ UNCHANGED <<ffmpeg, opened, files, archive, op>>
  /\ UNCHANGED <<parserVars, storageVars>>

(* cmd.Wait: ffmpeg is gone, and the pipe is closed whatever is in it.     *)
Wait(s) ==
  /\ preprocess[s] = "wait"
  /\ ffmpeg[s] \in Exited
  /\ pipeClosed' = [pipeClosed EXCEPT ![s] = TRUE]
  /\ preprocess' = [preprocess EXCEPT ![s] = "join"]
  /\ UNCHANGED <<ffmpeg, opened, files, archive, op, chClosed>>
  /\ UNCHANGED <<parserVars, groupVars, storageVars>>

(* The error of cmd.Wait, with exit code 255 forgiven: an exit with code 0 *)
(* after the SIGINT is reported as the context's error.                    *)
WaitError(s) == ffmpeg[s] \in {"okInterrupted", "failed"}

(* Mutant: an error of the parser is dropped. *)
PreprocessErrorOfWait(s) == WaitError(s)
PreprocessError(s) == WaitError(s) \/ parseError[s]

(* Mutant: preprocess does not wait for the parser. *)
JoinWithoutParser(s) ==
  /\ preprocess[s] = "join"
  /\ PreprocessReturns(s, PreprocessError(s))
  /\ UNCHANGED <<archive, op>>
  /\ UNCHANGED <<ffmpegVars, parserVars, storageVars>>

Join(s) ==
  /\ preprocess[s] = "join"
  /\ parser[s] = "done"
  /\ PreprocessReturns(s, PreprocessError(s))
  /\ UNCHANGED <<archive, op>>
  /\ UNCHANGED <<ffmpegVars, parserVars, storageVars>>

ArchiveReturns(s, failed) ==
  /\ archive' = [archive EXCEPT ![s] = "returned"]
  /\ Fail(failed)

ArchiveGoesTo(s, pc) ==
  /\ archive' = [archive EXCEPT ![s] = pc]
  /\ UNCHANGED groupVars

(* Mutant: the end of archiveOps is not noticed. *)
StopWhenCancelled(s) ==
  /\ archive[s] = "recv"
  /\ ctxDone
  /\ ArchiveReturns(s, FALSE)
  /\ UNCHANGED <<preprocess, op, chClosed>>
  /\ UNCHANGED <<ffmpegVars, parserVars, storageVars>>

(* No more operations, or the context is done *)
StopReceiving(s) ==
  /\ archive[s] = "recv"
  /\ chClosed[s] \/ ctxDone
  /\ ArchiveReturns(s, FALSE)
  /\ UNCHANGED <<preprocess, op, chClosed>>
  /\ UNCHANGED <<ffmpegVars, parserVars, storageVars>>

(* Execute, step by step; each error ends the thunk. *)

ReadFile(s) ==
  /\ archive[s] = "read"
  /\ IF op[s] \in files[s]
     THEN ArchiveGoesTo(s, "store")
     ELSE ArchiveReturns(s, TRUE)
  /\ UNCHANGED <<preprocess, op, chClosed>>
  /\ UNCHANGED <<ffmpegVars, parserVars, storageVars>>

Store(s) ==
  /\ archive[s] = "store"
  /\ blobs' = [blobs EXCEPT ![s] = @ \cup {op[s]}]
  /\ ArchiveGoesTo(s, "save")
  /\ UNCHANGED <<preprocess, op, chClosed, rows, split>>
  /\ UNCHANGED <<ffmpegVars, parserVars>>

(* Mutant: the error of Store is not looked at. *)
StoreFailsUnnoticed(s) ==
  /\ archive[s] = "store"
  /\ "store" \in Faults
  /\ ArchiveGoesTo(s, "save")
  /\ UNCHANGED <<preprocess, op, chClosed>>
  /\ UNCHANGED <<ffmpegVars, parserVars, storageVars>>

StoreFails(s) ==
  /\ archive[s] = "store"
  /\ "store" \in Faults
  /\ ArchiveReturns(s, TRUE)
  /\ UNCHANGED <<preprocess, op, chClosed>>
  /\ UNCHANGED <<ffmpegVars, parserVars, storageVars>>

(* The Chunk that Execute has just made has no Transmissions. *)
NewChunk == [transmissions |-> {}]

SaveRow(s) ==
  /\ rows' = [rows EXCEPT ![s] = Append(@, op[s])]
  /\ split' = IF NewChunk.transmissions # {}
              THEN [split EXCEPT ![s] = @ \cup {op[s]}] ELSE split
  /\ ArchiveGoesTo(s, "remove")
  /\ UNCHANGED <<preprocess, op, chClosed, blobs>>
  /\ UNCHANGED <<ffmpegVars, parserVars>>

(* Mutant: the database does not know of the context. *)
SaveAnyway(s) == archive[s] = "save" /\ SaveRow(s)

(* The database was given the context: it refuses once that is done.  That *)
(* look and the commit are one step: nobody reads the table between them,  *)
(* and an insert that fails after the look is SaveFails.                   *)
Save(s) ==
  /\ archive[s] = "save"
  /\ ~ctxDone
  /\ SaveRow(s)

(* Mutant: the error of Save is not looked at. *)
SaveFailsUnnoticed(s) ==
  /\ archive[s] = "save"
  /\ ctxDone \/ "save" \in Faults
  /\ ArchiveGoesTo(s, "remove")
  /\ UNCHANGED <<preprocess, op, chClosed>>
  /\ UNCHANGED <<ffmpegVars, parserVars, storageVars>>

SaveFails(s) ==
  /\ archive[s] = "save"
  /\ ctxDone \/ "save" \in Faults
  /\ ArchiveReturns(s, TRUE)
  /\ UNCHANGED <<preprocess, op, chClosed>>
  /\ UNCHANGED <<ffmpegVars, parserVars, storageVars>>

Remove(s) ==
  /\ archive[s] = "remove"
  /\ files' = [files EXCEPT ![s] = @ \ {op[s]}]
  /\ ArchiveGoesTo(s, "recv")
  /\ UNCHANGED <<preprocess, op, chClosed, ffmpeg, opened, pipeClosed>>
  /\ UNCHANGED <<parserVars, storageVars>>

RemoveFails(s) ==
  /\ archive[s] = "remove"
  /\ "remove" \in Faults
  /\ ArchiveReturns(s, TRUE)
  /\ UNCHANGED <<preprocess, op, chClosed>>
  /\ UNCHANGED <<ffmpegVars, parserVars, storageVars>>

-----------------------------------------------------------------------------
(* The command *)

(* SIGINT: beforeAll has NotifyContext cancel the command's context on     *)
(* os.Interrupt, and on nothing else.                                      *)
Interrupt ==
  /\ main = "wait"
  /\ ~ctxDone
  /\ ctxDone' = TRUE
  /\ UNCHANGED <<groupFailed, main>>
  /\ UNCHANGED <<ffmpegVars, parserVars, thunkVars, storageVars>>

(* group.Wait returns: logger.Fatal, or the deferred cleanups. *)
GroupWait ==
  /\ main = "wait"
  /\ \A s \in Streams : preprocess[s] = "returned" /\ archive[s] = "returned"
  /\ IF groupFailed
     THEN main' = "fatal" /\ UNCHANGED files
     ELSE main' = "exited" /\ files' = [s \in Streams |-> {}]
  /\ UNCHANGED <<ctxDone, groupFailed, ffmpeg, opened, pipeClosed>>
  /\ UNCHANGED <<parserVars, thunkVars, storageVars>>

Init ==
  /\ ffmpeg = [s \in Streams |-> "none"]
  /\ opened = [s \in Streams |-> 0]
  /\ files = [s \in Streams |-> {}]
  /\ pipeClosed = [s \in Streams |-> FALSE]
  /\ parser = [s \in Streams |-> "scan"]
  /\ fetched = [s \in Streams |-> 0]
  /\ parsed = [s \in Streams |-> 0]
  /\ currentFile = [s \in Streams |-> NoFile]
  /\ parseError = [s \in Streams |-> FALSE]
  /\ preprocess = [s \in Streams |-> "start"]
  /\ archive = [s \in Streams |-> "recv"]
  /\ op = [s \in Streams |-> NoFile]
  /\ chClosed = [s \in Streams |-> FALSE]
  /\ ctxDone = FALSE
  /\ groupFailed = FALSE
  /\ main = "wait"
  /\ blobs = [s \in Streams |-> {}]
  /\ rows = [s \in Streams |-> << >>]
  /\ split = [s \in Streams |-> {}]

ParserStep(s) ==
  Fetch(s) \/ StartWriting(s) \/ EndOfPipe(s) \/ Send(s) \/ Drop(s)

PreprocessStep(s) == Start(s) \/ StartFails(s) \/ Wait(s) \/ Join(s)

ArchiveStep(s) ==
  \/ StopReceiving(s) \/ ReadFile(s) \/ Store(s) \/ StoreFails(s)
  \/ Save(s) \/ SaveFails(s) \/ Remove(s) \/ RemoveFails(s)

Next ==
  \/ \E s \in Streams :
       \/ OpenFile(s) \/ SendInterrupt(s) \/ Exit(s)
       \/ ParserStep(s) \/ PreprocessStep(s) \/ ArchiveStep(s)
  \/ Interrupt
  \/ GroupWait

Spec == Init /\ [][Next]_vars

(* Goroutines are scheduled; the context's SIGINT is sent, and an ffmpeg   *)
(* that got it exits, by itself or killed after WaitDelay.  A stream need  *)
(* not end by itself.                                                      *)
Fairness ==
  /\ \A s \in Streams :
       /\ WF_vars(ParserStep(s))
       /\ WF_vars(PreprocessStep(s))
       /\ WF_vars(ArchiveStep(s))
       /\ WF_vars(SendInterrupt(s))
       /\ WF_vars(ffmpeg[s] = "interrupted" /\ Exit(s))
  /\ WF_vars(GroupWait)

FairSpec == Spec /\ Fairness

-----------------------------------------------------------------------------
(* Properties *)

(* Every variable has its type; a file is opened before its line is read,  *)
(* and read before it is processed.                                        *)
TypeOK ==
  /\ ffmpeg \in [Streams -> {"none", "running", "interrupted"} \cup Exited]
  /\ opened \in [Streams -> Nat]
  /\ files \in [Streams -> SUBSET Nat]
  /\ pipeClosed \in [Streams -> BOOLEAN]
  /\ parser \in [Streams -> {"scan", "send", "finish", "done"}]
  /\ fetched \in [Streams -> Nat]
  /\ parsed \in [Streams -> Nat]
  /\ currentFile \in [Streams -> Nat \cup {NoFile}]
  /\ parseError \in [Streams -> BOOLEAN]
  /\ preprocess \in [Streams -> {"start", "wait", "join", "returned"}]
  /\ archive \in [Streams -> {"recv", "read", "store", "save", "remove",
                              "returned"}]
  /\ op \in [Streams -> Nat \cup {NoFile}]
  /\ chClosed \in [Streams -> BOOLEAN]
  /\ ctxDone \in BOOLEAN
  /\ groupFailed \in BOOLEAN
  /\ main \in {"wait", "fatal", "exited"}
  /\ blobs \in [Streams -> SUBSET Nat]
  /\ rows \in [Streams -> Seq(Nat)]
  /\ split \in [Streams -> SUBSET Nat]
  /\ \A s \in Streams :
       /\ op[s] < parsed[s]
       /\ parsed[s] <= fetched[s]
       /\ fetched[s] <= opened[s]
       /\ opened[s] <= MaxChunks[s]

Saved(s, c) == \E i \in 1 .. Len(rows[s]) : rows[s][i] = c

(* A row of the chunks table never names a blob that is not in storage,    *)
(* wherever Execute was cut short.                                         *)
RowsHaveBlobs ==
  \A s \in Streams : \A i \in 1 .. Len(rows[s]) : rows[s][i] \in blobs[s]

(* A chunk file is read only when ffmpeg has finished writing it, although *)
(* the archive thunk works beside ffmpeg.                                  *)
ReadWhenComplete ==
  \A s \in Streams :
    archive[s] = "read" =>
      op[s] < opened[s] - 1 \/ ffmpeg[s] \in Exited

(* While the command runs, a chunk file that is gone has its row: no audio *)
(* is deleted that was not archived.                                       *)
NothingDeletedUnsaved ==
  main = "wait" =>
    \A s \in Streams : \A c \in 0 .. opened[s] - 1 :
      c \in files[s] \/ Saved(s, c)

(* The parser never sends on a closed channel (which would be a panic),    *)
(* although preprocess closes it on every way out.                         *)
NoSendOnClosed ==
  \A s \in Streams : parser[s] \in {"send", "finish"} => ~chClosed[s]

(* A command that ends by itself without an error has archived every chunk *)
(* of every stream, the last ones too.                                     *)
CleanExitComplete ==
  main = "exited" /\ ~ctxDone =>
    \A s \in Streams : Len(rows[s]) = opened[s]

(* The chunks table is a ChunkLog: gap-free and in order, nothing after    *)
(* the context is done.                                                    *)
Log == INSTANCE ChunkLog WITH log <- rows, stopping <- ctxDone
LogSpec == Log!Spec

(* Once the context is done, or every stream is over, the command ends:    *)
(* nobody waits for a goroutine that has left.                             *)
Stops ==
  (ctxDone \/ \A s \in Streams : ffmpeg[s] \in Exited) ~> main # "wait"

-----------------------------------------------------------------------------
(* What comments and tests say, and the code does not do *)

(* preprocess.go: an error is a problem with the text ("e.g. invalid       *)
(* UTF-8") or a non-zero exit code, not the closing of the pipe.           *)
ErrorsHaveCauses ==
  \A s \in Streams :
    preprocess[s] = "returned" /\ ffmpeg[s] = "ok" => ~parseError[s]

(* archive_test.go expects 7 transmissions in a chunk that was archived:   *)
(* what is said in a chunk (there is speech in every one here) is split    *)
(* off and saved before the next operation.                                *)
TransmissionsSaved ==
  \A s \in Streams :
    archive[s] = "recv" =>
      \A i \in 1 .. Len(rows[s]) : rows[s][i] \in split[s]
=============================================================================
