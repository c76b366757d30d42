--------------------------- MODULE PipelineProofs ---------------------------
(***************************************************************************)
(* What holds of Pipeline for any streams, numbers of chunks, pipe sizes   *)
(* and faults: its safety properties, and that its chunks table is a       *)
(* ChunkLog.  The inductive invariant follows a chunk from the file that   *)
(* ffmpeg opens over the parser's currentFile and the channel to its row,  *)
(* and says in which order the goroutines and ffmpeg may end.              *)
(***************************************************************************)
EXTENDS Pipeline, SequenceTheorems, TLAPS

-----------------------------------------------------------------------------
(* The inductive invariant *)

(* The parser's current file is the one it was last told of.               *)
Parsing ==
  \A s \in Streams :
    /\ currentFile[s] = parsed[s] - 1
    /\ parser[s] = "send" => parsed[s] < fetched[s]
    /\ parser[s] \in {"send", "finish"} => parsed[s] > 0

(* The pipe is closed only when ffmpeg is gone or never was.               *)
Processes ==
  \A s \in Streams :
    /\ preprocess[s] = "start" => ffmpeg[s] = "none" /\ ~pipeClosed[s]
    /\ ffmpeg[s] = "none" =>
         opened[s] = 0 /\ preprocess[s] \in {"start", "returned"}
    /\ preprocess[s] = "join" => ffmpeg[s] \in Exited
    /\ pipeClosed[s] => ffmpeg[s] \in Exited \cup {"none"}

(* What is known when the parser has come to the end of the pipe, and when *)
(* the channel is closed                                                   *)
Ending ==
  \A s \in Streams :
    /\ parser[s] = "finish" => ffmpeg[s] \in Exited
    /\ parser[s] \in {"finish", "done"} /\ ~parseError[s] =>
         parsed[s] = opened[s] /\ ffmpeg[s] \in Exited
    /\ chClosed[s] <=> preprocess[s] = "returned"
    /\ chClosed[s] => parser[s] = "done" \/ ffmpeg[s] = "none"

(* Each step of Execute has what the ones before it did. *)
Executing ==
  \A s \in Streams :
    /\ archive[s] \in {"read", "store", "save", "remove"} => op[s] # NoFile
    /\ archive[s] = "read" => op[s] < opened[s] - 1 \/ ffmpeg[s] \in Exited
    /\ archive[s] = "save" => op[s] \in blobs[s]
    /\ archive[s] = "remove" => Saved(s, op[s])

(* The chunks that the parser has handed over *)
Handed(s) ==
  IF parser[s] = "done" THEN parsed[s]
  ELSE IF parsed[s] = 0 THEN 0 ELSE parsed[s] - 1
InHand(s) == archive[s] \in {"read", "store", "save"}

(* As long as the context lives, all that were handed over have a row, but *)
(* for the one that is being executed, and everybody ends in turn.         *)
Counting ==
  ~ctxDone =>
    \A s \in Streams :
      /\ ~InHand(s) => Len(rows[s]) = Handed(s)
      /\ InHand(s) => Len(rows[s]) = Handed(s) - 1 /\ op[s] = Len(rows[s])
      /\ archive[s] = "returned" => chClosed[s]
      /\ preprocess[s] = "returned" => parser[s] = "done" /\ ~parseError[s]

Finished ==
  /\ groupFailed => ctxDone
  /\ main # "wait" =>
       \A s \in Streams : preprocess[s] = "returned" /\ archive[s] = "returned"

Places == Parsing /\ Processes /\ Ending
IInv ==
  /\ TypeOK
  /\ Places
  /\ Executing /\ RowsHaveBlobs /\ NothingDeletedUnsaved
  /\ Counting /\ Finished
-----------------------------------------------------------------------------
(* What Save adds to the table *)

Added(s) ==
  /\ rows' \in [Streams -> Seq(Nat)]
  /\ Len(rows'[s]) = Len(rows[s]) + 1
  /\ rows'[s][Len(rows[s]) + 1] = op[s]
  /\ \A i \in 1 .. Len(rows[s]) : rows'[s][i] = rows[s][i]
  /\ \A q \in Streams \ {s} : rows'[q] = rows[q]

LEMMA RowAdded ==
  ASSUME TypeOK, NEW s \in Streams, op[s] \in Nat,
         rows' = [rows EXCEPT ![s] = Append(@, op[s])]
  PROVE  Added(s)
  <1>1. rows[s] \in Seq(Nat)
    BY DEF TypeOK
  <1>2. Append(rows[s], op[s]) \in Seq(Nat)
    BY <1>1
  <1>3. rows'[s] = Append(rows[s], op[s])
    BY DEF TypeOK
  <1>4. rows' \in [Streams -> Seq(Nat)]
    BY <1>2 DEF TypeOK
  <1>5. \A q \in Streams \ {s} : rows'[q] = rows[q]
    BY DEF TypeOK
  <1> QED  BY <1>1, <1>3, <1>4, <1>5 DEF Added

LEMMA SavedKept ==
  ASSUME TypeOK, NEW s \in Streams, Added(s), op' = op
  PROVE  /\ Saved(s, op[s])'
         /\ \A q \in Streams, c \in Int : Saved(q, c) => Saved(q, c)'
  <1>1. \A q \in Streams : Len(rows[q]) \in Nat
    BY DEF TypeOK
  <1>2. Saved(s, op[s])'
    <2>1. Len(rows[s]) + 1 \in 1 .. Len(rows'[s]) /\ op' = op
      BY <1>1 DEF Added
    <2> QED  BY <2>1 DEF Added, Saved
  <1>3. ASSUME NEW q \in Streams, NEW c \in Int, Saved(q, c)
        PROVE  Saved(q, c)'
    <2>1. PICK i \in 1 .. Len(rows[q]) : rows[q][i] = c
      BY <1>3 DEF Saved
    <2>2. i \in 1 .. Len(rows'[q]) /\ rows'[q][i] = c
      BY <1>1, <2>1 DEF Added
    <2> QED  BY <2>2 DEF Saved
  <1> QED  BY <1>2, <1>3

(* What the parser does when it goes on to the next file *)

NextFile(s) ==
  /\ parsed[s] < fetched[s]
  /\ currentFile' = [currentFile EXCEPT ![s] = parsed[s]]
  /\ parsed' = [parsed EXCEPT ![s] = @ + 1]
  /\ fetched' = fetched

LEMMA Numbers ==
  ASSUME TypeOK, Parsing
  PROVE  \A q \in Streams :
           /\ parsed[q] \in Nat /\ fetched[q] \in Nat /\ op[q] \in Int
           /\ op[q] < parsed[q] /\ parsed[q] <= fetched[q]
           /\ currentFile[q] = parsed[q] - 1
  BY DEF TypeOK, Parsing, NoFile

LEMMA FileTold ==
  ASSUME TypeOK, Parsing, NEW s \in Streams, NextFile(s)
  PROVE  /\ currentFile' \in [Streams -> Nat \cup {NoFile}]
         /\ parsed' \in [Streams -> Nat]
         /\ parsed'[s] > 0
         /\ \A q \in Streams :
              /\ currentFile'[q] = parsed'[q] - 1
              /\ parsed[q] <= parsed'[q]
              /\ parsed'[q] <= fetched'[q]
              /\ q # s => parsed'[q] = parsed[q]
  <1>1. \A q \in Streams :
          /\ parsed[q] \in Nat /\ fetched[q] \in Nat
          /\ parsed[q] <= fetched[q]
          /\ currentFile[q] = parsed[q] - 1
    BY DEF TypeOK, Parsing
  <1>2. /\ parsed \in [Streams -> Nat]
        /\ currentFile \in [Streams -> Nat \cup {NoFile}]
    BY DEF TypeOK
  <1> QED  BY <1>1, <1>2 DEF NextFile

-----------------------------------------------------------------------------
(* Each conjunct is kept by every step. *)

LEMMA TypeOKStep ==
  ASSUME TypeOK, Parsing, Executing, [Next]_vars
  PROVE  TypeOK'
  <1> USE PipelineAssumption
        DEF ffmpegVars, parserVars, thunkVars, groupVars, storageVars
  <1>1. ASSUME NEW s \in Streams, OpenFile(s) PROVE TypeOK'
    BY <1>1 DEF OpenFile, TypeOK
  <1>2. ASSUME NEW s \in Streams, SendInterrupt(s) PROVE TypeOK'
    BY <1>2 DEF SendInterrupt, TypeOK
  <1>3. ASSUME NEW s \in Streams, Exit(s) PROVE TypeOK'
    BY <1>3 DEF Exit, ExitStatus, TypeOK, Exited
  <1>4. ASSUME NEW s \in Streams, Fetch(s) PROVE TypeOK'
    BY <1>4 DEF Fetch, TypeOK
  <1>5. ASSUME NEW s \in Streams, StartWriting(s) PROVE TypeOK'
    <2>1. CASE currentFile[s] = NoFile
      <3>1. NextFile(s)
        BY <1>5, <2>1 DEF StartWriting, NextFile
      <3>2. \A q \in Streams : op'[q] < parsed'[q]
        BY <1>5, <3>1, FileTold, Numbers DEF StartWriting
      <3> QED  BY <1>5, <2>1, <3>1, <3>2, FileTold DEF StartWriting, TypeOK
    <2>2. CASE currentFile[s] # NoFile
      BY <1>5, <2>2 DEF StartWriting, TypeOK
    <2> QED  BY <2>1, <2>2
  <1>6. ASSUME NEW s \in Streams, EndOfPipe(s) PROVE TypeOK'
    BY <1>6 DEF EndOfPipe, TypeOK
  <1>7. ASSUME NEW s \in Streams, Send(s) PROVE TypeOK'
    <2>1. CASE parser[s] = "send"
      <3>1. NextFile(s)
        BY <1>7, <2>1 DEF Send, AfterSelect, NextFile, Parsing
      <3>2. \A q \in Streams : op'[q] < parsed'[q]
        <4>1. \A q \in Streams : op'[q] \in {op[q], currentFile[q]}
          BY <1>7 DEF Send, SentChunk, TypeOK
        <4> QED  BY <3>1, <4>1, FileTold, Numbers
      <3> QED  BY <1>7, <2>1, <3>1, <3>2, FileTold
                DEF Send, AfterSelect, SentChunk, TypeOK
    <2>2. CASE parser[s] # "send"
      <3>1. /\ op' \in [Streams -> Nat \cup {NoFile}]
            /\ \A q \in Streams : op'[q] < parsed'[q]
        <4>1. \A q \in Streams : op'[q] \in {op[q], currentFile[q]}
          BY <1>7 DEF Send, SentChunk, TypeOK
        <4>2. op' \in [Streams -> Nat \cup {NoFile}]
          BY <1>7 DEF Send, SentChunk, TypeOK
        <4>3. parsed' = parsed
          BY <1>7, <2>2 DEF Send, AfterSelect
        <4> QED  BY <4>1, <4>2, <4>3, Numbers
      <3>2. /\ parser' = [parser EXCEPT ![s] = "done"]
            /\ archive' = archive \/ archive' = [archive EXCEPT ![s] = "read"]
            /\ UNCHANGED <<ffmpegVars, groupVars, storageVars>>
            /\ UNCHANGED <<fetched, parsed, currentFile, parseError>>
            /\ UNCHANGED <<preprocess, chClosed>>
        BY <1>7, <2>2 DEF Send, AfterSelect
      <3> QED  BY <3>1, <3>2 DEF TypeOK
    <2> QED  BY <2>1, <2>2
  <1>8. ASSUME NEW s \in Streams, Drop(s) PROVE TypeOK'
    <2>1. CASE parser[s] = "send"
      <3>1. NextFile(s)
        BY <1>8, <2>1 DEF Drop, AfterSelect, NextFile, Parsing
      <3>2. \A q \in Streams : op'[q] < parsed'[q]
        <4>1. \A q \in Streams : op'[q] \in {op[q], currentFile[q]}
          BY <1>8 DEF Drop, TypeOK
        <4> QED  BY <3>1, <4>1, FileTold, Numbers
      <3> QED  BY <1>8, <2>1, <3>1, <3>2, FileTold
                DEF Drop, AfterSelect, TypeOK
    <2>2. CASE parser[s] # "send"
      <3>1. /\ op' \in [Streams -> Nat \cup {NoFile}]
            /\ \A q \in Streams : op'[q] < parsed'[q]
        <4>1. \A q \in Streams : op'[q] \in {op[q], currentFile[q]}
          BY <1>8 DEF Drop, TypeOK
        <4>2. op' \in [Streams -> Nat \cup {NoFile}]
          BY <1>8 DEF Drop, TypeOK
        <4>3. parsed' = parsed
          BY <1>8, <2>2 DEF Drop, AfterSelect
        <4> QED  BY <4>1, <4>2, <4>3, Numbers
      <3>2. /\ parser' = [parser EXCEPT ![s] = "done"]
            /\ archive' = archive \/ archive' = [archive EXCEPT ![s] = "read"]
            /\ UNCHANGED <<ffmpegVars, groupVars, storageVars>>
            /\ UNCHANGED <<fetched, parsed, currentFile, parseError>>
            /\ UNCHANGED <<preprocess, chClosed>>
        BY <1>8, <2>2 DEF Drop, AfterSelect
      <3> QED  BY <3>1, <3>2 DEF TypeOK
    <2> QED  BY <2>1, <2>2
  <1>9. ASSUME NEW s \in Streams, Start(s) PROVE TypeOK'
    BY <1>9 DEF Start, TypeOK
  <1>10. ASSUME NEW s \in Streams, StartFails(s) PROVE TypeOK'
    BY <1>10 DEF StartFails, PreprocessReturns, Fail, TypeOK
  <1>11. ASSUME NEW s \in Streams, Wait(s) PROVE TypeOK'
    BY <1>11 DEF Wait, TypeOK
  <1>12. ASSUME NEW s \in Streams, Join(s) PROVE TypeOK'
    BY <1>12 DEF Join, PreprocessReturns, Fail, PreprocessError, WaitError,
      TypeOK
  <1>13. ASSUME NEW s \in Streams, StopReceiving(s) PROVE TypeOK'
    BY <1>13 DEF StopReceiving, ArchiveReturns, Fail, TypeOK
  <1>14. ASSUME NEW s \in Streams, ReadFile(s) PROVE TypeOK'
    BY <1>14 DEF ReadFile, ArchiveReturns, ArchiveGoesTo, Fail, TypeOK
  <1>15. ASSUME NEW s \in Streams, Store(s) PROVE TypeOK'
    BY <1>15 DEF Store, ArchiveGoesTo, TypeOK, Executing, NoFile
  <1>16. ASSUME NEW s \in Streams, StoreFails(s) PROVE TypeOK'
    BY <1>16 DEF StoreFails, ArchiveReturns, Fail, TypeOK
  <1>17. ASSUME NEW s \in Streams, Save(s) PROVE TypeOK'
    <2>1. op[s] \in Nat
      BY <1>17 DEF Save, TypeOK, Executing, NoFile
    <2>2. Added(s)
      BY <1>17, <2>1, RowAdded DEF Save, SaveRow
    <2> QED  BY <1>17, <2>1, <2>2 DEF Added, Save, SaveRow, ArchiveGoesTo,
        TypeOK, Executing, NoFile
  <1>18. ASSUME NEW s \in Streams, SaveFails(s) PROVE TypeOK'
    BY <1>18 DEF SaveFails, ArchiveReturns, Fail, TypeOK
  <1>19. ASSUME NEW s \in Streams, Remove(s) PROVE TypeOK'
    BY <1>19 DEF Remove, ArchiveGoesTo, TypeOK
  <1>20. ASSUME NEW s \in Streams, RemoveFails(s) PROVE TypeOK'
    BY <1>20 DEF RemoveFails, ArchiveReturns, Fail, TypeOK
  <1>21. CASE Interrupt
    BY <1>21 DEF Interrupt, TypeOK
  <1>22. CASE GroupWait
    BY <1>22 DEF GroupWait, TypeOK
  <1>23. CASE UNCHANGED vars
    BY <1>23 DEF vars, TypeOK
  <1> QED  BY <1>1, <1>2, <1>3, <1>4, <1>5, <1>6, <1>7, <1>8, <1>9, <1>10,
           <1>11, <1>12, <1>13, <1>14, <1>15, <1>16, <1>17, <1>18, <1>19,
           <1>20, <1>21, <1>22, <1>23 DEF Next, ParserStep, PreprocessStep,
           ArchiveStep

LEMMA ParsingStep == ASSUME TypeOK, Parsing, [Next]_vars PROVE Parsing'
  <1> USE PipelineAssumption
        DEF ffmpegVars, parserVars, thunkVars, groupVars, storageVars
  <1>1. ASSUME NEW s \in Streams, Fetch(s) PROVE Parsing'
    BY <1>1 DEF Fetch, TypeOK, Parsing, NoFile
  <1>2. ASSUME NEW s \in Streams, StartWriting(s) PROVE Parsing'
    <2>1. CASE currentFile[s] = NoFile
      <3>1. NextFile(s) /\ parser' = parser /\ parser[s] = "scan"
        BY <1>2, <2>1 DEF StartWriting, NextFile
      <3> QED  BY <3>1, FileTold DEF Parsing, NextFile
    <2>2. CASE currentFile[s] # NoFile
      BY <1>2, <2>2 DEF StartWriting, TypeOK, Parsing, NoFile
    <2> QED  BY <2>1, <2>2
  <1>3. ASSUME NEW s \in Streams, EndOfPipe(s) PROVE Parsing'
    BY <1>3 DEF EndOfPipe, TypeOK, Parsing, NoFile
  <1>4. ASSUME NEW s \in Streams, Send(s) PROVE Parsing'
    <2>1. CASE parser[s] = "send"
      <3>1. NextFile(s) /\ parser' = [parser EXCEPT ![s] = "scan"]
        BY <1>4, <2>1 DEF Send, AfterSelect, NextFile, Parsing
      <3> QED  BY <3>1, FileTold DEF Parsing, NextFile, TypeOK
    <2>2. CASE parser[s] # "send"
      BY <1>4, <2>2 DEF Send, AfterSelect, TypeOK, Parsing
    <2> QED  BY <2>1, <2>2
  <1>5. ASSUME NEW s \in Streams, Drop(s) PROVE Parsing'
    <2>1. CASE parser[s] = "send"
      <3>1. NextFile(s) /\ parser' = [parser EXCEPT ![s] = "scan"]
        BY <1>5, <2>1 DEF Drop, AfterSelect, NextFile, Parsing
      <3> QED  BY <3>1, FileTold DEF Parsing, NextFile, TypeOK
    <2>2. CASE parser[s] # "send"
      BY <1>5, <2>2 DEF Drop, AfterSelect, TypeOK, Parsing
    <2> QED  BY <2>1, <2>2
  <1>6. ASSUME NEW s \in Streams,
              \/ OpenFile(s) \/ SendInterrupt(s) \/ Exit(s) \/ Start(s)
              \/ StartFails(s) \/ Wait(s) \/ Join(s) \/ StopReceiving(s)
              \/ ReadFile(s) \/ Store(s) \/ StoreFails(s) \/ Save(s)
              \/ SaveFails(s) \/ Remove(s) \/ RemoveFails(s)
       PROVE  Parsing'
    BY <1>6 DEF OpenFile, SendInterrupt, Exit, ExitStatus, Start, StartFails,
      PreprocessReturns, Fail, Wait, Join, PreprocessError, WaitError,
      StopReceiving, ArchiveReturns, ReadFile, ArchiveGoesTo, Store,
      StoreFails, Save, SaveRow, SaveFails, Remove, RemoveFails, TypeOK,
      Parsing, NoFile
  <1>7. CASE Interrupt \/ GroupWait \/ UNCHANGED vars
    BY <1>7 DEF vars, Interrupt, GroupWait, TypeOK, Parsing, NoFile
  <1> QED  BY <1>1, <1>2, <1>3, <1>4, <1>5, <1>6, <1>7 DEF Next, ParserStep,
           PreprocessStep, ArchiveStep

LEMMA ProcessesStep == ASSUME TypeOK, Processes, [Next]_vars PROVE Processes'
  <1> USE PipelineAssumption
        DEF ffmpegVars, parserVars, thunkVars, groupVars, storageVars
  <1>1. ASSUME NEW s \in Streams, OpenFile(s) PROVE Processes'
    BY <1>1 DEF OpenFile, TypeOK, Processes, Exited
  <1>2. ASSUME NEW s \in Streams, SendInterrupt(s) PROVE Processes'
    BY <1>2 DEF SendInterrupt, TypeOK, Processes, Exited
  <1>3. ASSUME NEW s \in Streams, Exit(s) PROVE Processes'
    BY <1>3 DEF Exit, ExitStatus, TypeOK, Processes, Exited
  <1>4. ASSUME NEW s \in Streams, Start(s) PROVE Processes'
    BY <1>4 DEF Start, TypeOK, Processes, Exited
  <1>5. ASSUME NEW s \in Streams, StartFails(s) PROVE Processes'
    BY <1>5 DEF StartFails, PreprocessReturns, Fail, TypeOK, Processes, Exited
  <1>6. ASSUME NEW s \in Streams, Wait(s) PROVE Processes'
    BY <1>6 DEF Wait, TypeOK, Processes, Exited
  <1>7. ASSUME NEW s \in Streams, Join(s) PROVE Processes'
    BY <1>7 DEF Join, PreprocessReturns, Fail, PreprocessError, WaitError,
      TypeOK, Processes, Exited
  <1>8. ASSUME NEW s \in Streams,
              \/ Fetch(s) \/ StartWriting(s) \/ EndOfPipe(s) \/ Send(s)
              \/ Drop(s) \/ StopReceiving(s) \/ ReadFile(s) \/ Store(s)
              \/ StoreFails(s) \/ Save(s) \/ SaveFails(s) \/ Remove(s)
              \/ RemoveFails(s)
       PROVE  Processes'
    BY <1>8 DEF Fetch, StartWriting, EndOfPipe, Send, AfterSelect, SentChunk,
      Drop, StopReceiving, ArchiveReturns, Fail, ReadFile, ArchiveGoesTo,
      Store, StoreFails, Save, SaveRow, SaveFails, Remove, RemoveFails,
      TypeOK, Processes, Exited
  <1>9. CASE Interrupt \/ GroupWait \/ UNCHANGED vars
    BY <1>9 DEF vars, Interrupt, GroupWait, TypeOK, Processes, Exited
  <1> QED  BY <1>1, <1>2, <1>3, <1>4, <1>5, <1>6, <1>7, <1>8, <1>9 DEF Next,
           ParserStep, PreprocessStep, ArchiveStep

LEMMA EndingStep == ASSUME TypeOK, Places, [Next]_vars PROVE Ending'
  <1> USE PipelineAssumption
        DEF ffmpegVars, parserVars, thunkVars, groupVars, storageVars
  <1>1. ASSUME NEW s \in Streams, OpenFile(s) PROVE Ending'
    BY <1>1 DEF OpenFile, TypeOK, Places, Parsing, Processes, Ending, Exited,
      NoFile
  <1>2. ASSUME NEW s \in Streams, SendInterrupt(s) PROVE Ending'
    BY <1>2 DEF SendInterrupt, TypeOK, Places, Parsing, Processes, Ending,
      Exited, NoFile
  <1>3. ASSUME NEW s \in Streams, Exit(s) PROVE Ending'
    BY <1>3 DEF Exit, ExitStatus, TypeOK, Places, Parsing, Processes, Ending,
      Exited, NoFile
  <1>4. ASSUME NEW s \in Streams, StartWriting(s) PROVE Ending'
    BY <1>4 DEF StartWriting, TypeOK, Places, Parsing, Processes, Ending,
      Exited, NoFile
  <1>5. ASSUME NEW s \in Streams, EndOfPipe(s) PROVE Ending'
    BY <1>5 DEF EndOfPipe, TypeOK, Places, Parsing, Processes, Ending, Exited,
      NoFile
  <1>6. ASSUME NEW s \in Streams, Send(s) PROVE Ending'
    BY <1>6 DEF Send, AfterSelect, SentChunk, TypeOK, Places, Parsing,
      Processes, Ending, Exited, NoFile
  <1>7. ASSUME NEW s \in Streams, Drop(s) PROVE Ending'
    BY <1>7 DEF Drop, AfterSelect, TypeOK, Places, Parsing, Processes, Ending,
      Exited, NoFile
  <1>8. ASSUME NEW s \in Streams, Start(s) PROVE Ending'
    BY <1>8 DEF Start, TypeOK, Places, Parsing, Processes, Ending, Exited,
      NoFile
  <1>9. ASSUME NEW s \in Streams, StartFails(s) PROVE Ending'
    BY <1>9 DEF StartFails, PreprocessReturns, Fail, TypeOK, Places, Parsing,
      Processes, Ending, Exited, NoFile
  <1>10. ASSUME NEW s \in Streams, Wait(s) PROVE Ending'
    BY <1>10 DEF Wait, TypeOK, Places, Parsing, Processes, Ending, Exited,
      NoFile
  <1>11. ASSUME NEW s \in Streams, Join(s) PROVE Ending'
    BY <1>11 DEF Join, PreprocessReturns, Fail, PreprocessError, WaitError,
      TypeOK, Places, Parsing, Processes, Ending, Exited, NoFile
  <1>12. ASSUME NEW s \in Streams,
              \/ Fetch(s) \/ StopReceiving(s) \/ ReadFile(s) \/ Store(s)
              \/ StoreFails(s) \/ Save(s) \/ SaveFails(s) \/ Remove(s)
              \/ RemoveFails(s)
       PROVE  Ending'
    BY <1>12 DEF Fetch, StopReceiving, ArchiveReturns, Fail, ReadFile,
      ArchiveGoesTo, Store, StoreFails, Save, SaveRow, SaveFails, Remove,
      RemoveFails, TypeOK, Places, Parsing, Processes, Ending, Exited, NoFile
  <1>13. CASE Interrupt \/ GroupWait \/ UNCHANGED vars
    BY <1>13 DEF vars, Interrupt, GroupWait, TypeOK, Places, Parsing,
      Processes, Ending, Exited, NoFile
  <1> QED  BY <1>1, <1>2, <1>3, <1>4, <1>5, <1>6, <1>7, <1>8, <1>9, <1>10,
           <1>11, <1>12, <1>13 DEF Next, ParserStep, PreprocessStep,
           ArchiveStep

LEMMA ExecutingStep ==
  ASSUME TypeOK, Places, Executing, [Next]_vars
  PROVE  Executing'
  <1> USE PipelineAssumption
        DEF ffmpegVars, parserVars, thunkVars, groupVars, storageVars
  <1>1. ASSUME NEW s \in Streams, OpenFile(s) PROVE Executing'
    BY <1>1 DEF OpenFile, TypeOK, Places, Parsing, Processes, Ending,
      Executing, Exited, Saved, NoFile
  <1>2. ASSUME NEW s \in Streams, SendInterrupt(s) PROVE Executing'
    BY <1>2 DEF SendInterrupt, TypeOK, Places, Parsing, Processes, Ending,
      Executing, Exited, Saved, NoFile
  <1>3. ASSUME NEW s \in Streams, Exit(s) PROVE Executing'
    BY <1>3 DEF Exit, ExitStatus, TypeOK, Places, Parsing, Processes, Ending,
      Executing, Exited, Saved, NoFile
  <1>4. ASSUME NEW s \in Streams, Send(s) PROVE Executing'
    BY <1>4 DEF Send, AfterSelect, SentChunk, TypeOK, Places, Parsing,
      Processes, Ending, Executing, Exited, Saved, NoFile
  <1>5. ASSUME NEW s \in Streams, Start(s) PROVE Executing'
    BY <1>5 DEF Start, TypeOK, Places, Parsing, Processes, Ending, Executing,
      Exited, Saved, NoFile
  <1>6. ASSUME NEW s \in Streams, StopReceiving(s) PROVE Executing'
    BY <1>6 DEF StopReceiving, ArchiveReturns, Fail, TypeOK, Places, Parsing,
      Processes, Ending, Executing, Exited, Saved, NoFile
  <1>7. ASSUME NEW s \in Streams, ReadFile(s) PROVE Executing'
    BY <1>7 DEF ReadFile, ArchiveReturns, ArchiveGoesTo, Fail, TypeOK, Places,
      Parsing, Processes, Ending, Executing, Exited, Saved, NoFile
  <1>8. ASSUME NEW s \in Streams, Store(s) PROVE Executing'
    BY <1>8 DEF Store, ArchiveGoesTo, TypeOK, Places, Parsing, Processes,
      Ending, Executing, Exited, Saved, NoFile
  <1>9. ASSUME NEW s \in Streams, StoreFails(s) PROVE Executing'
    BY <1>9 DEF StoreFails, ArchiveReturns, Fail, TypeOK, Places, Parsing,
      Processes, Ending, Executing, Exited, Saved, NoFile
  <1>10. ASSUME NEW s \in Streams, Save(s) PROVE Executing'
    <2>1. op[s] \in Nat
      BY <1>10 DEF Save, TypeOK, Executing, NoFile
    <2>2. Added(s)
      BY <1>10, <2>1, RowAdded DEF Save, SaveRow
    <2>3. /\ Saved(s, op[s])'
          /\ \A q \in Streams, c \in Int : Saved(q, c) => Saved(q, c)'
      BY <1>10, <2>2, SavedKept DEF Save, SaveRow
    <2> QED  BY <1>10, <2>1, <2>3 DEF Save, SaveRow, ArchiveGoesTo, TypeOK,
        Places, Parsing, Processes, Ending, Executing, Exited, NoFile
  <1>11. ASSUME NEW s \in Streams, SaveFails(s) PROVE Executing'
    BY <1>11 DEF SaveFails, ArchiveReturns, Fail, TypeOK, Places, Parsing,
      Processes, Ending, Executing, Exited, Saved, NoFile
  <1>12. ASSUME NEW s \in Streams, Remove(s) PROVE Executing'
    BY <1>12 DEF Remove, ArchiveGoesTo, TypeOK, Places, Parsing, Processes,
      Ending, Executing, Exited, Saved, NoFile
  <1>13. ASSUME NEW s \in Streams, RemoveFails(s) PROVE Executing'
    BY <1>13 DEF RemoveFails, ArchiveReturns, Fail, TypeOK, Places, Parsing,
      Processes, Ending, Executing, Exited, Saved, NoFile
  <1>14. ASSUME NEW s \in Streams,
              \/ Fetch(s) \/ StartWriting(s) \/ EndOfPipe(s) \/ Drop(s)
              \/ StartFails(s) \/ Wait(s) \/ Join(s)
       PROVE  Executing'
    <2>1. rows' = rows
      BY <1>14 DEF Fetch, StartWriting, EndOfPipe, Drop, AfterSelect,
        StartFails, PreprocessReturns, Fail, Wait, Join, PreprocessError,
        WaitError
    <2>2. \A q, c : Saved(q, c) <=> Saved(q, c)'
      BY <2>1 DEF Saved
    <2> QED  BY <1>14, <2>2 DEF Fetch, StartWriting, EndOfPipe, Drop,
        AfterSelect, StartFails, PreprocessReturns, Fail, Wait, Join,
        PreprocessError, WaitError, TypeOK, Places, Parsing, Processes,
        Ending, Executing, Exited, NoFile
  <1>15. CASE Interrupt \/ GroupWait \/ UNCHANGED vars
    <2>1. rows' = rows
      BY <1>15 DEF vars, Interrupt, GroupWait
    <2>2. \A q, c : Saved(q, c) <=> Saved(q, c)'
      BY <2>1 DEF Saved
    <2> QED  BY <1>15, <2>2 DEF vars, Interrupt, GroupWait, TypeOK, Places,
        Parsing, Processes, Ending, Executing, Exited, NoFile
  <1> QED  BY <1>1, <1>2, <1>3, <1>4, <1>5, <1>6, <1>7, <1>8, <1>9, <1>10,
           <1>11, <1>12, <1>13, <1>14, <1>15 DEF Next, ParserStep,
           PreprocessStep, ArchiveStep

LEMMA RowsHaveBlobsStep ==
  ASSUME TypeOK, Executing, RowsHaveBlobs, [Next]_vars
  PROVE  RowsHaveBlobs'
  <1> USE PipelineAssumption
        DEF ffmpegVars, parserVars, thunkVars, groupVars, storageVars
  <1>1. ASSUME NEW s \in Streams, Store(s) PROVE RowsHaveBlobs'
    BY <1>1 DEF Store, ArchiveGoesTo, TypeOK, Executing, RowsHaveBlobs
  <1>2. ASSUME NEW s \in Streams, Save(s) PROVE RowsHaveBlobs'
    <2>1. op[s] \in Nat
      BY <1>2 DEF Save, TypeOK, Executing, NoFile
    <2>2. Added(s)
      BY <1>2, <2>1, RowAdded DEF Save, SaveRow
    <2> QED  BY <1>2, <2>1, <2>2 DEF Added, Save, SaveRow, ArchiveGoesTo,
        TypeOK, Executing, RowsHaveBlobs
  <1>3. ASSUME NEW s \in Streams,
              \/ OpenFile(s) \/ SendInterrupt(s) \/ Exit(s) \/ Fetch(s)
              \/ StartWriting(s) \/ EndOfPipe(s) \/ Send(s) \/ Drop(s)
              \/ Start(s) \/ StartFails(s) \/ Wait(s) \/ Join(s)
              \/ StopReceiving(s) \/ ReadFile(s) \/ StoreFails(s)
              \/ SaveFails(s) \/ Remove(s) \/ RemoveFails(s)
       PROVE  RowsHaveBlobs'
    BY <1>3 DEF OpenFile, SendInterrupt, Exit, ExitStatus, Fetch,
      StartWriting, EndOfPipe, Send, AfterSelect, SentChunk, Drop, Start,
      StartFails, PreprocessReturns, Fail, Wait, Join, PreprocessError,
      WaitError, StopReceiving, ArchiveReturns, ReadFile, ArchiveGoesTo,
      StoreFails, SaveFails, Remove, RemoveFails, TypeOK, Executing,
      RowsHaveBlobs
  <1>4. CASE Interrupt \/ GroupWait \/ UNCHANGED vars
    BY <1>4 DEF vars, Interrupt, GroupWait, TypeOK, Executing, RowsHaveBlobs
  <1> QED  BY <1>1, <1>2, <1>3, <1>4 DEF Next, ParserStep, PreprocessStep,
           ArchiveStep

LEMMA NothingDeletedUnsavedStep ==
  ASSUME TypeOK, Executing, NothingDeletedUnsaved, [Next]_vars
  PROVE  NothingDeletedUnsaved'
  <1> USE PipelineAssumption
        DEF ffmpegVars, parserVars, thunkVars, groupVars, storageVars
  <1>1. ASSUME NEW s \in Streams, OpenFile(s) PROVE NothingDeletedUnsaved'
    BY <1>1 DEF OpenFile, TypeOK, Executing, NothingDeletedUnsaved, Saved
  <1>2. ASSUME NEW s \in Streams, Save(s) PROVE NothingDeletedUnsaved'
    <2>1. op[s] \in Nat
      BY <1>2 DEF Save, TypeOK, Executing, NoFile
    <2>2. Added(s)
      BY <1>2, <2>1, RowAdded DEF Save, SaveRow
    <2>3. /\ Saved(s, op[s])'
          /\ \A q \in Streams, c \in Int : Saved(q, c) => Saved(q, c)'
      BY <1>2, <2>2, SavedKept DEF Save, SaveRow
    <2> QED  BY <1>2, <2>1, <2>3 DEF Save, SaveRow, ArchiveGoesTo, TypeOK,
        Executing, NothingDeletedUnsaved
  <1>3. ASSUME NEW s \in Streams, Remove(s) PROVE NothingDeletedUnsaved'
    BY <1>3 DEF Remove, ArchiveGoesTo, TypeOK, Executing,
      NothingDeletedUnsaved, Saved
  <1>4. CASE GroupWait
    BY <1>4 DEF GroupWait, TypeOK, Executing, NothingDeletedUnsaved, Saved
  <1>5. ASSUME NEW s \in Streams,
              \/ SendInterrupt(s) \/ Exit(s) \/ Fetch(s) \/ StartWriting(s)
              \/ EndOfPipe(s) \/ Send(s) \/ Drop(s) \/ Start(s)
              \/ StartFails(s) \/ Wait(s) \/ Join(s) \/ StopReceiving(s)
              \/ ReadFile(s) \/ Store(s) \/ StoreFails(s) \/ SaveFails(s)
              \/ RemoveFails(s)
       PROVE  NothingDeletedUnsaved'
    <2>1. rows' = rows
      BY <1>5 DEF SendInterrupt, Exit, ExitStatus, Fetch, StartWriting,
        EndOfPipe, Send, AfterSelect, SentChunk, Drop, Start, StartFails,
        PreprocessReturns, Fail, Wait, Join, PreprocessError, WaitError,
        StopReceiving, ArchiveReturns, ReadFile, ArchiveGoesTo, Store,
        StoreFails, SaveFails, RemoveFails
    <2>2. \A q, c : Saved(q, c) <=> Saved(q, c)'
      BY <2>1 DEF Saved
    <2> QED  BY <1>5, <2>2 DEF SendInterrupt, Exit, ExitStatus, Fetch,
        StartWriting, EndOfPipe, Send, AfterSelect, SentChunk, Drop, Start,
        StartFails, PreprocessReturns, Fail, Wait, Join, PreprocessError,
        WaitError, StopReceiving, ArchiveReturns, ReadFile, ArchiveGoesTo,
        Store, StoreFails, SaveFails, RemoveFails, TypeOK, Executing,
        NothingDeletedUnsaved
  <1>6. CASE Interrupt \/ UNCHANGED vars
    <2>1. rows' = rows
      BY <1>6 DEF vars, Interrupt
    <2>2. \A q, c : Saved(q, c) <=> Saved(q, c)'
      BY <2>1 DEF Saved
    <2> QED  BY <1>6, <2>2 DEF vars, Interrupt, TypeOK, Executing,
        NothingDeletedUnsaved
  <1> QED  BY <1>1, <1>2, <1>3, <1>4, <1>5, <1>6 DEF Next, ParserStep,
           PreprocessStep, ArchiveStep

LEMMA CountingStep ==
  ASSUME TypeOK, Places, Counting, [Next]_vars
  PROVE  Counting'
  <1> USE PipelineAssumption
        DEF ffmpegVars, parserVars, thunkVars, groupVars, storageVars
  <1>1. ASSUME NEW s \in Streams, OpenFile(s) PROVE Counting'
    BY <1>1 DEF OpenFile, TypeOK, Places, Parsing, Processes, Ending,
      Counting, Handed, InHand, Exited, NoFile
  <1>2. ASSUME NEW s \in Streams, SendInterrupt(s) PROVE Counting'
    BY <1>2 DEF SendInterrupt, TypeOK, Places, Parsing, Processes, Ending,
      Counting, Handed, InHand, Exited, NoFile
  <1>3. ASSUME NEW s \in Streams, Exit(s) PROVE Counting'
    BY <1>3 DEF Exit, ExitStatus, TypeOK, Places, Parsing, Processes, Ending,
      Counting, Handed, InHand, Exited, NoFile
  <1>4. ASSUME NEW s \in Streams, Fetch(s) PROVE Counting'
    BY <1>4 DEF Fetch, TypeOK, Places, Parsing, Processes, Ending, Counting,
      Handed, InHand, Exited, NoFile
  <1>5. ASSUME NEW s \in Streams, StartWriting(s) PROVE Counting'
    BY <1>5 DEF StartWriting, TypeOK, Places, Parsing, Processes, Ending,
      Counting, Handed, InHand, Exited, NoFile
  <1>6. ASSUME NEW s \in Streams, EndOfPipe(s) PROVE Counting'
    BY <1>6 DEF EndOfPipe, TypeOK, Places, Parsing, Processes, Ending,
      Counting, Handed, InHand, Exited, NoFile
  <1>7. ASSUME NEW s \in Streams, Send(s) PROVE Counting'
    BY <1>7 DEF Send, AfterSelect, SentChunk, TypeOK, Places, Parsing,
      Processes, Ending, Counting, Handed, InHand, Exited, NoFile
  <1>8. ASSUME NEW s \in Streams, Drop(s) PROVE Counting'
    BY <1>8 DEF Drop, AfterSelect, TypeOK, Places, Parsing, Processes, Ending,
      Counting, Handed, InHand, Exited, NoFile
  <1>9. ASSUME NEW s \in Streams, Start(s) PROVE Counting'
    BY <1>9 DEF Start, TypeOK, Places, Parsing, Processes, Ending, Counting,
      Handed, InHand, Exited, NoFile
  <1>10. ASSUME NEW s \in Streams, StartFails(s) PROVE Counting'
    BY <1>10 DEF StartFails, PreprocessReturns, Fail, TypeOK, Places, Parsing,
      Processes, Ending, Counting, Handed, InHand, Exited, NoFile
  <1>11. ASSUME NEW s \in Streams, Wait(s) PROVE Counting'
    BY <1>11 DEF Wait, TypeOK, Places, Parsing, Processes, Ending, Counting,
      Handed, InHand, Exited, NoFile
  <1>12. ASSUME NEW s \in Streams, Join(s) PROVE Counting'
    BY <1>12 DEF Join, PreprocessReturns, Fail, PreprocessError, WaitError,
      TypeOK, Places, Parsing, Processes, Ending, Counting, Handed, InHand,
      Exited, NoFile
  <1>13. ASSUME NEW s \in Streams, StopReceiving(s) PROVE Counting'
    BY <1>13 DEF StopReceiving, ArchiveReturns, Fail, TypeOK, Places, Parsing,
      Processes, Ending, Counting, Handed, InHand, Exited, NoFile
  <1>14. ASSUME NEW s \in Streams, ReadFile(s) PROVE Counting'
    <2>1. CASE op[s] \in files[s]
      BY <1>14, <2>1
      DEF ReadFile, ArchiveGoesTo, TypeOK, Counting, Handed, InHand
    <2>2. CASE op[s] \notin files[s]
      BY <1>14, <2>2 DEF ReadFile, ArchiveReturns, Fail, Counting
    <2> QED  BY <2>1, <2>2
  <1>15. ASSUME NEW s \in Streams, Store(s) PROVE Counting'
    BY <1>15 DEF Store, ArchiveGoesTo, TypeOK, Places, Parsing, Processes,
      Ending, Counting, Handed, InHand, Exited, NoFile
  <1>16. ASSUME NEW s \in Streams, StoreFails(s) PROVE Counting'
    BY <1>16 DEF StoreFails, ArchiveReturns, Fail, TypeOK, Places, Parsing,
      Processes, Ending, Counting, Handed, InHand, Exited, NoFile
  <1>17. ASSUME NEW s \in Streams, Save(s) PROVE Counting'
    <2>1. op[s] \in Nat
      BY <1>17 DEF Save, TypeOK, Counting, InHand
    <2>2. Added(s)
      BY <1>17, <2>1, RowAdded DEF Save, SaveRow
    <2> QED  BY <1>17, <2>1, <2>2 DEF Added, Save, SaveRow, ArchiveGoesTo,
        TypeOK, Places, Parsing, Processes, Ending, Counting, Handed, InHand,
        Exited, NoFile
  <1>18. ASSUME NEW s \in Streams, SaveFails(s) PROVE Counting'
    BY <1>18 DEF SaveFails, ArchiveReturns, Fail, TypeOK, Places, Parsing,
      Processes, Ending, Counting, Handed, InHand, Exited, NoFile
  <1>19. ASSUME NEW s \in Streams, Remove(s) PROVE Counting'
    BY <1>19 DEF Remove, ArchiveGoesTo, TypeOK, Places, Parsing, Processes,
      Ending, Counting, Handed, InHand, Exited, NoFile
  <1>20. ASSUME NEW s \in Streams, RemoveFails(s) PROVE Counting'
    BY <1>20 DEF RemoveFails, ArchiveReturns, Fail, TypeOK, Places, Parsing,
      Processes, Ending, Counting, Handed, InHand, Exited, NoFile
  <1>21. CASE Interrupt
    BY <1>21 DEF Interrupt, TypeOK, Places, Parsing, Processes, Ending,
      Counting, Handed, InHand, Exited, NoFile
  <1>22. CASE GroupWait \/ UNCHANGED vars
    BY <1>22 DEF vars, GroupWait, TypeOK, Places, Parsing, Processes, Ending,
      Counting, Handed, InHand, Exited, NoFile
  <1> QED  BY <1>1, <1>2, <1>3, <1>4, <1>5, <1>6, <1>7, <1>8, <1>9, <1>10,
           <1>11, <1>12, <1>13, <1>14, <1>15, <1>16, <1>17, <1>18, <1>19,
           <1>20, <1>21, <1>22 DEF Next, ParserStep, PreprocessStep,
           ArchiveStep

LEMMA FinishedStep == ASSUME TypeOK, Finished, [Next]_vars PROVE Finished'
  <1> USE PipelineAssumption
        DEF ffmpegVars, parserVars, thunkVars, groupVars, storageVars
  <1>1. ASSUME NEW s \in Streams, Send(s) PROVE Finished'
    BY <1>1 DEF Send, AfterSelect, SentChunk, TypeOK, Finished
  <1>2. ASSUME NEW s \in Streams, Start(s) PROVE Finished'
    BY <1>2 DEF Start, TypeOK, Finished
  <1>3. ASSUME NEW s \in Streams, StartFails(s) PROVE Finished'
    BY <1>3 DEF StartFails, PreprocessReturns, Fail, TypeOK, Finished
  <1>4. ASSUME NEW s \in Streams, Wait(s) PROVE Finished'
    BY <1>4 DEF Wait, TypeOK, Finished
  <1>5. ASSUME NEW s \in Streams, Join(s) PROVE Finished'
    BY <1>5 DEF Join, PreprocessReturns, Fail, PreprocessError, WaitError,
      TypeOK, Finished
  <1>6. ASSUME NEW s \in Streams, StopReceiving(s) PROVE Finished'
    BY <1>6 DEF StopReceiving, ArchiveReturns, Fail, TypeOK, Finished
  <1>7. ASSUME NEW s \in Streams, ReadFile(s) PROVE Finished'
    BY <1>7 DEF ReadFile, ArchiveReturns, ArchiveGoesTo, Fail, TypeOK,
      Finished
  <1>8. ASSUME NEW s \in Streams, Store(s) PROVE Finished'
    BY <1>8 DEF Store, ArchiveGoesTo, TypeOK, Finished
  <1>9. ASSUME NEW s \in Streams, StoreFails(s) PROVE Finished'
    BY <1>9 DEF StoreFails, ArchiveReturns, Fail, TypeOK, Finished
  <1>10. ASSUME NEW s \in Streams, Save(s) PROVE Finished'
    BY <1>10 DEF Save, SaveRow, ArchiveGoesTo, TypeOK, Finished
  <1>11. ASSUME NEW s \in Streams, SaveFails(s) PROVE Finished'
    BY <1>11 DEF SaveFails, ArchiveReturns, Fail, TypeOK, Finished
  <1>12. ASSUME NEW s \in Streams, Remove(s) PROVE Finished'
    BY <1>12 DEF Remove, ArchiveGoesTo, TypeOK, Finished
  <1>13. ASSUME NEW s \in Streams, RemoveFails(s) PROVE Finished'
    BY <1>13 DEF RemoveFails, ArchiveReturns, Fail, TypeOK, Finished
  <1>14. CASE Interrupt
    BY <1>14 DEF Interrupt, TypeOK, Finished
  <1>15. CASE GroupWait
    BY <1>15 DEF GroupWait, TypeOK, Finished
  <1>16. ASSUME NEW s \in Streams,
              \/ OpenFile(s) \/ SendInterrupt(s) \/ Exit(s) \/ Fetch(s)
              \/ StartWriting(s) \/ EndOfPipe(s) \/ Drop(s)
       PROVE  Finished'
    BY <1>16 DEF OpenFile, SendInterrupt, Exit, ExitStatus, Fetch,
      StartWriting, EndOfPipe, Drop, AfterSelect, TypeOK, Finished
  <1>17. CASE UNCHANGED vars
    BY <1>17 DEF vars, TypeOK, Finished
  <1> QED  BY <1>1, <1>2, <1>3, <1>4, <1>5, <1>6, <1>7, <1>8, <1>9, <1>10,
           <1>11, <1>12, <1>13, <1>14, <1>15, <1>16, <1>17 DEF Next,
           ParserStep, PreprocessStep, ArchiveStep

-----------------------------------------------------------------------------
(* The invariant *)

LEMMA InitInv == Init => IInv
  <1> SUFFICES ASSUME Init PROVE IInv
    OBVIOUS
  <1>1. TypeOK
    <2>1. \A s \in Streams :
            /\ op[s] < parsed[s] /\ parsed[s] <= fetched[s]
            /\ fetched[s] <= opened[s] /\ opened[s] <= MaxChunks[s]
      BY PipelineAssumption DEF Init, NoFile
    <2>2. rows \in [Streams -> Seq(Nat)]
      BY DEF Init
    <2>3. op \in [Streams -> Nat \cup {NoFile}]
      BY DEF Init
    <2> QED  BY <2>1, <2>2, <2>3 DEF Init, TypeOK
  <1>2. Parsing /\ Processes /\ Ending
    BY DEF Init, Parsing, Processes, Ending, NoFile
  <1>3. Executing /\ RowsHaveBlobs /\ NothingDeletedUnsaved
    BY DEF Init, Executing, RowsHaveBlobs, NothingDeletedUnsaved
  <1>4. Counting /\ Finished
    BY DEF Init, Counting, Handed, InHand, Finished
  <1> QED  BY <1>1, <1>2, <1>3, <1>4 DEF IInv, Places

LEMMA NextInv == IInv /\ [Next]_vars => IInv'
  <1> SUFFICES ASSUME IInv, [Next]_vars PROVE IInv'
    OBVIOUS
  <1> USE DEF IInv
  <1>1. TypeOK' /\ Parsing'
    BY TypeOKStep, ParsingStep DEF Places
  <1>2. Processes' /\ Ending'
    BY ProcessesStep, EndingStep DEF Places
  <1>3. Executing' /\ RowsHaveBlobs' /\ NothingDeletedUnsaved'
    BY ExecutingStep, RowsHaveBlobsStep, NothingDeletedUnsavedStep
  <1>4. Counting' /\ Finished'
    BY CountingStep, FinishedStep
  <1> QED  BY <1>1, <1>2, <1>3, <1>4 DEF Places

LEMMA Invariant == Spec => []IInv
  BY InitInv, NextInv, PTL DEF Spec

-----------------------------------------------------------------------------
(* The theorems *)

(* Every variable of the command keeps its type: no line of stderr is      *)
(* processed before it is read, or read before it is written.              *)
THEOREM TypeCorrect == Spec => []TypeOK
  <1>1. IInv => TypeOK
    BY DEF IInv
  <1> QED  BY <1>1, Invariant, PTL

(* Wherever Execute is cut short, no row names a blob that is missing.     *)
THEOREM RowsNameBlobs == Spec => []RowsHaveBlobs
  <1>1. IInv => RowsHaveBlobs
    BY DEF IInv
  <1> QED  BY <1>1, Invariant, PTL

(* Execute reads no file that ffmpeg still writes.                         *)
THEOREM FilesReadComplete == Spec => []ReadWhenComplete
  <1>1. IInv => ReadWhenComplete
    BY DEF IInv, Executing, ReadWhenComplete
  <1> QED  BY <1>1, Invariant, PTL

(* While the command runs, no chunk is deleted that has no row.            *)
THEOREM DeletedAreSaved == Spec => []NothingDeletedUnsaved
  <1>1. IInv => NothingDeletedUnsaved
    BY DEF IInv
  <1> QED  BY <1>1, Invariant, PTL

(* archiveOps is never closed under a parser that wants to send: it is     *)
(* closed when the parser is done, or when ffmpeg never wrote a line.      *)
THEOREM NoPanic == Spec => []NoSendOnClosed
  <1>1. IInv => NoSendOnClosed
    <2> SUFFICES ASSUME IInv, NEW s \in Streams,
                        parser[s] \in {"send", "finish"}, chClosed[s]
                 PROVE  FALSE
      BY DEF NoSendOnClosed
    <2>1. ffmpeg[s] = "none"
      BY DEF IInv, Places, Ending
    <2>2. opened[s] = 0
      BY <2>1 DEF IInv, Places, Processes
    <2>3. parsed[s] > 0 /\ parsed[s] <= opened[s]
      <3>1. /\ parsed[s] \in Nat /\ fetched[s] \in Nat /\ opened[s] \in Nat
            /\ parsed[s] <= fetched[s] /\ fetched[s] <= opened[s]
        BY DEF IInv, TypeOK
      <3>2. parsed[s] > 0
        BY DEF IInv, Places, Parsing
      <3> QED  BY <3>1, <3>2
    <2> QED  BY <2>2, <2>3 DEF IInv, TypeOK
  <1> QED  BY <1>1, Invariant, PTL

(* For any number of streams and chunks: a command that ends by itself and *)
(* without an error has a row for every chunk that ffmpeg opened.          *)
THEOREM CleanExit == Spec => []CleanExitComplete
  <1>1. IInv => CleanExitComplete
    <2> SUFFICES ASSUME IInv, main = "exited", ~ctxDone, NEW s \in Streams
                 PROVE  Len(rows[s]) = opened[s]
      BY DEF CleanExitComplete
    <2>1. preprocess[s] = "returned" /\ archive[s] = "returned"
      BY DEF IInv, Finished
    <2>2. parser[s] = "done" /\ ~parseError[s] /\ ~InHand(s)
      BY <2>1 DEF IInv, Counting, InHand
    <2>3. parsed[s] = opened[s]
      BY <2>2 DEF IInv, Places, Ending
    <2>4. Len(rows[s]) = Handed(s)
      BY <2>2 DEF IInv, Counting
    <2> QED  BY <2>2, <2>3, <2>4 DEF Handed
  <1> QED  BY <1>1, Invariant, PTL

(* For any streams and faults the command implements ChunkLog: the rows of *)
(* a stream appear one by one, none skipped, none twice, none out of       *)
(* order, and none once the context is done.                               *)
THEOREM ImplementsLog == Spec => LogSpec
  <1>1. Init => Log!Init
    BY DEF Init, Log!Init
  <1>2. IInv /\ [Next]_vars => [Log!Next]_(Log!vars)
    <2> SUFFICES ASSUME IInv, [Next]_vars
                 PROVE  Log!Next \/ UNCHANGED <<rows, ctxDone>>
      BY DEF Log!vars
    <2> USE DEF ffmpegVars, parserVars, thunkVars, groupVars, storageVars
    <2>1. ASSUME NEW s \in Streams, Save(s) PROVE Log!Next
      <3>1. ~ctxDone /\ op[s] = Len(rows[s])
        BY <2>1 DEF Save, IInv, Counting, InHand
      <3>2. rows' = [rows EXCEPT ![s] = Append(@, Len(@))]
        BY <2>1, <3>1 DEF Save, SaveRow
      <3>3. UNCHANGED ctxDone
        BY <2>1 DEF Save, SaveRow, ArchiveGoesTo
      <3> QED  BY <3>1, <3>2, <3>3 DEF Log!Next, Log!SaveNext
    <2>2. ASSUME UNCHANGED rows, ctxDone' \in {ctxDone, TRUE}
          PROVE  Log!Next \/ UNCHANGED <<rows, ctxDone>>
      BY <2>2 DEF Log!Next, Log!Stop
    <2>3. ASSUME NEW s \in Streams,
                 \/ OpenFile(s) \/ SendInterrupt(s) \/ Exit(s)
                 \/ ParserStep(s) \/ PreprocessStep(s)
          PROVE  UNCHANGED rows /\ ctxDone' \in {ctxDone, TRUE}
      BY <2>3
      DEF OpenFile, SendInterrupt, Exit, ParserStep, Fetch, StartWriting,
          EndOfPipe, Send, Drop, PreprocessStep, Start, StartFails, Wait,
          Join, PreprocessReturns, Fail, IInv, TypeOK
    <2>4. ASSUME NEW s \in Streams, ArchiveStep(s), ~Save(s)
          PROVE  UNCHANGED rows /\ ctxDone' \in {ctxDone, TRUE}
      BY <2>4
      DEF ArchiveStep, StopReceiving, ReadFile, Store, StoreFails, SaveFails,
          Remove, RemoveFails, ArchiveReturns, ArchiveGoesTo, Fail, IInv,
          TypeOK
    <2>5. CASE Interrupt \/ GroupWait \/ UNCHANGED vars
      <3>1. UNCHANGED rows /\ ctxDone' \in {ctxDone, TRUE}
        BY <2>5 DEF Interrupt, GroupWait, vars
      <3> QED  BY <2>2, <3>1
    <2> QED  BY <2>1, <2>2, <2>3, <2>4, <2>5 DEF Next
  <1> QED  BY <1>1, <1>2, Invariant, PTL DEF Spec, LogSpec, Log!Spec
=============================================================================
