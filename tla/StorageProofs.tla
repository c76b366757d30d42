--------------------------- MODULE StorageProofs ---------------------------
(***************************************************************************)
(* What becomes of a chunk that is split.  Theorems about BlobStore, for   *)
(* any writers, keys and size of a blob, and about SplitChunk, for any     *)
(* pieces, spans, buffer and ticks.  (Names of BlobStore that both have    *)
(* begin with Store.)                                                      *)
(***************************************************************************)
EXTENDS SplitChunk, BlobStore, TLAPS

-----------------------------------------------------------------------------
(* The files *)

LEMMA StoreInitInv == StoreInit => StoreTypeOK /\ MissingIsInHand
  BY BlobStoreAssumption DEF StoreInit, StoreTypeOK, MissingIsInHand

(* The types of step, written and content are what the steps need. *)
LEMMA StoreTypeStep == ASSUME StoreTypeOK, [StoreNext]_storeVars PROVE StoreTypeOK'
  <1> USE BlobStoreAssumption DEF StoreTypeOK, StepTo, Blocks
  <1>1. ASSUME NEW w \in Writers, Begin(w) PROVE StoreTypeOK'
    BY <1>1 DEF Begin
  <1>2. ASSUME NEW w \in Writers, Stat(w) PROVE StoreTypeOK'
    BY <1>2 DEF Stat
  <1>3. ASSUME NEW w \in Writers, Open(w) PROVE StoreTypeOK'
    BY <1>3 DEF Open
  <1>4. ASSUME NEW w \in Writers, WriteBlock(w) PROVE StoreTypeOK'
    <2>1. written[w] + 1 \in 1 .. NumBlocks
      BY <1>4 DEF WriteBlock
    <2>2. content' \in [Keys -> SUBSET Blocks]
      BY <1>4, <2>1 DEF WriteBlock
    <2>3. written' \in [Writers -> 0 .. NumBlocks]
      BY <1>4, <2>1 DEF WriteBlock
    <2> QED  BY <1>4, <2>2, <2>3 DEF WriteBlock
  <1>5. ASSUME NEW w \in Writers, Finish(w) PROVE StoreTypeOK'
    BY <1>5 DEF Finish
  <1>6. ASSUME NEW w \in Writers, WriteFails(w) PROVE StoreTypeOK'
    BY <1>6 DEF WriteFails
  <1>7. ASSUME NEW w \in Writers, Crash(w) PROVE StoreTypeOK'
    BY <1>7 DEF Crash
  <1>8. CASE UNCHANGED storeVars  BY <1>8 DEF storeVars
  <1> QED
    BY <1>1, <1>2, <1>3, <1>4, <1>5, <1>6, <1>7, <1>8 DEF StoreNext, StoreStep

(* A step that leaves the files and the writing of them as they are. *)
LEMMA SameFiles ==
  ASSUME StoreTypeOK, MissingIsInHand,
         UNCHANGED <<exists, content, written>>, torn \subseteq torn',
         \A w \in Writers, k \in Keys :
           Writing(w, k) => Writing(w, k)' \/ k \in torn'
                              \/ content[k] = Blocks
  PROVE  MissingIsInHand'
  <1> SUFFICES ASSUME NEW k \in exists' \ torn',
                      NEW b \in Blocks \ content'[k]
               PROVE  \E w \in Writers : Writing(w, k)' /\ written'[w] < b
    BY DEF MissingIsInHand, Writing
  <1>1. k \in exists \ torn /\ k \in Keys /\ b \in Blocks \ content[k]
    BY DEF StoreTypeOK
  <1>2. PICK w \in Writers : Writing(w, k) /\ written[w] < b
    BY <1>1 DEF MissingIsInHand
  <1>3. Writing(w, k)'  BY <1>1, <1>2
  <1> QED  BY <1>2, <1>3

LEMMA MissingStep ==
  ASSUME StoreTypeOK, MissingIsInHand, [StoreNext]_storeVars PROVE MissingIsInHand'
  <1> USE BlobStoreAssumption DEF StoreTypeOK, StepTo
  <1>1. ASSUME NEW w \in Writers, Begin(w) \/ Stat(w) PROVE MissingIsInHand'
    <2>1. \A v \in Writers, k \in Keys : Writing(v, k) => Writing(v, k)'
      BY <1>1 DEF Begin, Stat, Writing
    <2> QED  BY <1>1, <2>1, SameFiles DEF Begin, Stat
  <1>2. ASSUME NEW w \in Writers, Open(w) PROVE MissingIsInHand'
    <2> SUFFICES ASSUME NEW k \in exists' \ torn',
                        NEW b \in Blocks \ content'[k]
                 PROVE  \E v \in Writers : Writing(v, k)' /\ written'[v] < b
      BY DEF MissingIsInHand, Writing
    <2>1. b \in Nat /\ 0 < b  BY DEF Blocks
    <2>2. CASE k = key[w]
      <3>1. Writing(w, k)' /\ written'[w] = 0
        BY <1>2, <2>2 DEF Open, Writing
      <3> QED  BY <2>1, <3>1
    <2>3. CASE k # key[w]
      <3>1. k \in exists \ torn /\ b \in Blocks \ content[k]
        BY <1>2, <2>3 DEF Open
      <3>2. PICK v \in Writers : Writing(v, k) /\ written[v] < b
        BY <3>1 DEF MissingIsInHand
      <3>3. v # w  BY <1>2, <2>3, <3>2 DEF Writing
      <3>4. Writing(v, k)' /\ written'[v] = written[v]
        BY <1>2, <3>2, <3>3 DEF Open, Writing
      <3> QED  BY <3>2, <3>4
    <2> QED  BY <2>2, <2>3
  <1>3. ASSUME NEW w \in Writers, WriteBlock(w) PROVE MissingIsInHand'
    <2> SUFFICES ASSUME NEW k \in exists' \ torn',
                        NEW b \in Blocks \ content'[k]
                 PROVE  \E v \in Writers : Writing(v, k)' /\ written'[v] < b
      BY DEF MissingIsInHand, Writing
    <2>1. /\ k \in exists \ torn /\ k \in Keys
          /\ b \in Blocks \ content[k]
          /\ k = key[w] => b # written[w] + 1
      BY <1>3 DEF WriteBlock
    <2>2. PICK v \in Writers : Writing(v, k) /\ written[v] < b
      BY <2>1 DEF MissingIsInHand
    <2>3. Writing(v, k)'  BY <1>3, <2>2 DEF WriteBlock, Writing
    <2>4. b \in Nat  BY DEF Blocks
    <2>5. written'[v] < b
      <3>1. CASE v = w
        <4>1. written'[v] = written[v] + 1 /\ k = key[w]
          BY <1>3, <2>2, <3>1 DEF WriteBlock, Writing
        <4>2. written[v] \in Nat  OBVIOUS
        <4> QED  BY <2>1, <2>2, <2>4, <3>1, <4>1, <4>2
      <3>2. CASE v # w
        BY <1>3, <2>2, <3>2 DEF WriteBlock
      <3> QED  BY <3>1, <3>2
    <2> QED  BY <2>3, <2>5
  <1>4. ASSUME NEW w \in Writers, Finish(w) PROVE MissingIsInHand'
    (* A writer that has written all is nobody's hope. *)
    <2> SUFFICES ASSUME NEW k \in exists \ torn,
                        NEW b \in Blocks \ content[k]
                 PROVE  \E v \in Writers : Writing(v, k)' /\ written[v] < b
      BY <1>4 DEF Finish, MissingIsInHand, Writing
    <2>1. PICK v \in Writers : Writing(v, k) /\ written[v] < b
      BY DEF MissingIsInHand
    <2>2. v # w  BY <1>4, <2>1 DEF Finish, Blocks
    <2>3. Writing(v, k)'  BY <1>4, <2>1, <2>2 DEF Finish, Writing
    <2> QED  BY <2>1, <2>3
  <1>5. ASSUME NEW w \in Writers, WriteFails(w) \/ Crash(w)
        PROVE  MissingIsInHand'
    <2>1. \A v \in Writers, k \in Keys :
            Writing(v, k) => Writing(v, k)' \/ k \in torn'
      BY <1>5 DEF WriteFails, Crash, Writing
    <2>2. torn \subseteq torn' /\ UNCHANGED <<exists, content, written>>
      BY <1>5 DEF WriteFails, Crash
    <2> QED  BY <2>1, <2>2, SameFiles
  <1>6. CASE UNCHANGED storeVars
    BY <1>6, SameFiles DEF storeVars, Writing
  <1> QED
    BY <1>1, <1>2, <1>3, <1>4, <1>5, <1>6 DEF StoreNext, StoreStep

(* Store keeps every variable in its type. *)
THEOREM StoreTypeCorrect == StoreSpec => []StoreTypeOK
  <1>1. StoreInit => StoreTypeOK  BY StoreInitInv
  <1> QED  BY <1>1, StoreTypeStep, PTL DEF StoreSpec

(* However many writers truncate and fill the file of the same blob, each  *)
(* block that is missing is still to be written by one of them, unless a   *)
(* write of that blob was given up.                                        *)
THEOREM NothingMissingForgotten == StoreSpec => []MissingIsInHand
  <1>1. StoreInit => MissingIsInHand  BY StoreInitInv
  <1> QED  BY <1>1, StoreTypeCorrect, MissingStep, PTL DEF StoreSpec

Quiet(k) == \A w \in Writers : ~Writing(w, k)

(* So the file of a blob is whole whenever nobody is writing it and no     *)
(* write of it was given up.                                               *)
THEOREM WholeWhenQuiet ==
  StoreSpec => [](\A k \in exists \ torn : Quiet(k) => content[k] = Blocks)
  <1>1. StoreTypeOK /\ MissingIsInHand =>
          \A k \in exists \ torn : Quiet(k) => content[k] = Blocks
    BY DEF StoreTypeOK, MissingIsInHand, Quiet
  <1> QED  BY <1>1, StoreTypeCorrect, NothingMissingForgotten, PTL

-----------------------------------------------------------------------------
(* The splitting *)

USE SplitAssumption

(* Rounding moves a time by half a millisecond at most. *)
LEMMA RoundUpIsNear ==
  ASSUME NEW d \in Nat
  PROVE  /\ RoundUp(d) \in Nat
         /\ 2 * RoundUp(d) <= 2 * d + Ms
         /\ 2 * RoundUp(d) >= 2 * d - Ms
  <1> DEFINE r == d % Ms
  <1>1. r \in Nat /\ r < Ms  OBVIOUS
  <1>2. r <= d  OBVIOUS
  <1> HIDE DEF r
  <1>3. RoundUp(d) = IF r + r < Ms THEN d - r ELSE d + Ms - r
    BY DEF RoundUp, r
  <1> QED  BY <1>1, <1>2, <1>3

LEMMA RoundIsNear ==
  ASSUME NEW d \in Int
  PROVE  /\ Round(d) \in Int
         /\ d \in Nat => Round(d) \in Nat
         /\ 2 * Round(d) <= 2 * d + Ms
         /\ 2 * Round(d) >= 2 * d - Ms
  <1>1. CASE d < 0
    <2> DEFINE e == -d
    <2>1. e \in Nat /\ d = -e /\ d \notin Nat  BY <1>1
    <2>2. Round(d) = -RoundUp(e)  BY <1>1 DEF Round
    <2> HIDE DEF e
    <2>3. /\ RoundUp(e) \in Nat
          /\ 2 * RoundUp(e) <= 2 * e + Ms
          /\ 2 * RoundUp(e) >= 2 * e - Ms
      BY <2>1, RoundUpIsNear
    <2> QED  BY <2>1, <2>2, <2>3
  <1>2. CASE ~(d < 0)
    <2>1. d \in Nat /\ Round(d) = RoundUp(d)  BY <1>2 DEF Round
    <2> QED  BY <2>1, RoundUpIsNear
  <1> QED  BY <1>1, <1>2

(* What the cut of a span has to be. *)
Covers(c, s) ==
  LET b   == IF s.start > Buffer THEN Buffer ELSE 0
      end == c.start + c.duration
  IN  /\ 2 * (s.start - b) - Ms <= 2 * c.start
      /\ 2 * c.start <= 2 * (s.start - b) + Ms
      /\ s.end + b - Ms <= end
      /\ end <= s.end + b + Ms

(* Two roundings of half a millisecond *)
LEMMA RoundedWindow ==
  ASSUME NEW a \in Nat, NEW d \in Int,
         NEW w, w = [start |-> Round(a), duration |-> Round(d)]
  PROVE  /\ w \in [start : Nat, duration : Int]
         /\ 2 * a - Ms <= 2 * w.start /\ 2 * w.start <= 2 * a + Ms
         /\ a + d - Ms <= w.start + w.duration
         /\ w.start + w.duration <= a + d + Ms
  <1>1. /\ Round(a) \in Nat /\ Round(d) \in Int
        /\ 2 * Round(a) <= 2 * a + Ms /\ 2 * Round(a) >= 2 * a - Ms
        /\ 2 * Round(d) <= 2 * d + Ms /\ 2 * Round(d) >= 2 * d - Ms
    BY RoundIsNear
  <1>2. w.start = Round(a) /\ w.duration = Round(d)  OBVIOUS
  <1> QED  BY <1>1, <1>2

LEMMA WindowCovers ==
  ASSUME NEW s \in Spans
  PROVE  Window(s) \in [start : Nat, duration : Int] /\ Covers(Window(s), s)
  <1>1. s.start \in Nat /\ s.end \in Nat
    OBVIOUS
  <1>2. CASE s.start > Buffer
    <2> DEFINE a == s.start - Buffer
               d == Duration(s) + 2 * Buffer
    <2>1. a \in Nat /\ d \in Int /\ a + d = s.end + Buffer
      BY <1>1, <1>2 DEF Duration
    <2>2. Window(s) = [start |-> Round(a), duration |-> Round(d)]
      BY <1>2 DEF Window
    <2>3. /\ Window(s) \in [start : Nat, duration : Int]
          /\ 2 * a - Ms <= 2 * Window(s).start
          /\ 2 * Window(s).start <= 2 * a + Ms
          /\ a + d - Ms <= Window(s).start + Window(s).duration
          /\ Window(s).start + Window(s).duration <= a + d + Ms
      <3> HIDE DEF a, d
      <3> QED  BY <2>1, <2>2, RoundedWindow
    <2> QED  BY <1>2, <2>1, <2>3 DEF Covers
  <1>3. CASE ~(s.start > Buffer)
    <2> DEFINE a == s.start
               d == Duration(s)
    <2>1. a \in Nat /\ d \in Int /\ a + d = s.end
      BY <1>1 DEF Duration
    <2>2. Window(s) = [start |-> Round(a), duration |-> Round(d)]
      BY <1>3 DEF Window
    <2>3. /\ Window(s) \in [start : Nat, duration : Int]
          /\ 2 * a - Ms <= 2 * Window(s).start
          /\ 2 * Window(s).start <= 2 * a + Ms
          /\ a + d - Ms <= Window(s).start + Window(s).duration
          /\ Window(s).start + Window(s).duration <= a + d + Ms
      <3> HIDE DEF d
      <3> QED  BY <2>1, <2>2, RoundedWindow
    <2> QED  BY <1>1, <1>3, <2>1, <2>3 DEF Covers
  <1> QED  BY <1>2, <1>3

-----------------------------------------------------------------------------
(* The inductive invariant *)

Kept(p) == err[p] = "none"

(* How far a job has come tells what it has done; one without an error     *)
(* that is past its save has saved.                                        *)
JobsInv ==
  \A p \in Pieces :
    /\ pc[p] \in {"cut", "store", "save"} => err[p] = "none"
    /\ pc[p] = "save" => p \in blobs
    /\ pc[p] \in {"cleanup", "return", "done"} /\ Kept(p) =>
         p \in rows /\ p \in blobs
    /\ pc[p] \in {"return", "done"} => p \notin tmp

(* The group's error is that of a job that has returned, and of none of    *)
(* them only if all went well.  What the first error cancels returns after *)
(* it.                                                                     *)
GroupInv ==
  /\ \A p \in Pieces :
       pc[p] = "done" /\ firstError = "none" => err[p] = "none"
  /\ \A p \in Pieces :
       err[p] = "cancelled" => ctxDone \/ firstError # "none"
  /\ ErrorIsTheCause

(* The caller goes on only when all jobs are done. *)
MainInv ==
  /\ main # "wait" => \A p \in Pieces : pc[p] = "done"
  /\ main \in {"remove", "saved"} => firstError = "none"
  /\ ~chunkFile => main = "saved"

(* What was cut is the window of the span. *)
CutInv ==
  \A p \in Pieces :
    pc[p] \in {"store", "save"} \/ p \in blobs => cut[p] = Window(span[p])

IInv ==
  /\ TypeOK
  /\ JobsInv
  /\ GroupInv
  /\ MainInv
  /\ CutInv
  /\ RowsHaveBlobs

LEMMA InitInv == Init => IInv
  <1> SUFFICES ASSUME Init PROVE IInv  OBVIOUS
  <1>1. TypeOK  BY DEF Init, TypeOK, Errors
  <1>2. JobsInv /\ GroupInv /\ CutInv /\ RowsHaveBlobs
    BY DEF Init, JobsInv, GroupInv, CutInv, RowsHaveBlobs, ErrorIsTheCause
  <1>3. MainInv
    BY DEF Init, MainInv
  <1> QED  BY <1>1, <1>2, <1>3 DEF IInv

LEMMA TypeStep == ASSUME TypeOK, [Next]_vars PROVE TypeOK'
  <1> USE DEF TypeOK, Goto, GiveUp, Errors
  <1>1. ASSUME NEW p \in Pieces, Cut(p) PROVE TypeOK'
    <2>1. Window(span[p]) \in [start : Nat, duration : Int]
      BY WindowCovers
    <2>2. cut' \in [Pieces -> [start : Nat, duration : Int]]
      BY <1>1, <2>1 DEF Cut
    <2> HIDE DEF Errors
    <2> QED  BY <1>1, <2>2 DEF Cut
  <1>2. ASSUME NEW p \in Pieces, CutFails(p) PROVE TypeOK'
    BY <1>2 DEF CutFails
  <1>3. ASSUME NEW p \in Pieces, Store(p) \/ StoreFails(p) PROVE TypeOK'
    BY <1>3 DEF Store, StoreFails
  <1>4. ASSUME NEW p \in Pieces, Save(p) \/ SaveFails(p) PROVE TypeOK'
    BY <1>4 DEF Save, SaveFails
  <1>5. ASSUME NEW p \in Pieces, Cleanup(p) PROVE TypeOK'
    BY <1>5 DEF Cleanup
  <1>6. ASSUME NEW p \in Pieces, Return(p) PROVE TypeOK'
    BY <1>6 DEF Return
  <1>7. ASSUME Wait \/ RemoveChunk \/ Interrupt PROVE TypeOK'
    <2>1. ctxDone' \in BOOLEAN /\ chunkFile' \in BOOLEAN
      BY <1>7 DEF Wait, RemoveChunk, Interrupt
    <2> QED  BY <1>7, <2>1 DEF Wait, RemoveChunk, Interrupt
  <1>8. CASE UNCHANGED vars  BY <1>8 DEF vars
  <1> QED
    BY <1>1, <1>2, <1>3, <1>4, <1>5, <1>6, <1>7, <1>8 DEF Next, Job

(* One job's step leaves the other jobs' part of the invariant as it is.   *)
LEMMA JobStep ==
  ASSUME IInv, TypeOK', NEW p \in Pieces, Job(p) PROVE IInv'
  <1> USE DEF Goto, GiveUp
  <1>1. main = "wait" /\ main' = main /\ UNCHANGED <<span, ctxDone, chunkFile>>
    <2>1. pc[p] # "done"
      BY DEF Job, Cut, CutFails, Store, StoreFails, Save, SaveFails, Cleanup,
             Return
    <2>2. UNCHANGED <<main, span, ctxDone, chunkFile>>
      BY DEF Job, Cut, CutFails, Store, StoreFails, Save, SaveFails, Cleanup,
             Return
    <2> QED  BY <2>1, <2>2 DEF IInv, MainInv
  <1>2. MainInv'
    BY <1>1 DEF IInv, MainInv
  <1>3. /\ JobsInv' /\ CutInv' /\ RowsHaveBlobs'
    <2> USE DEF IInv, TypeOK, JobsInv, CutInv, RowsHaveBlobs, Kept
    <2>1. CASE Cut(p)  BY <2>1 DEF Cut
    <2>2. CASE CutFails(p)  BY <2>2 DEF CutFails
    <2>3. CASE Store(p)  BY <2>3 DEF Store
    <2>4. CASE StoreFails(p)  BY <2>4 DEF StoreFails
    <2>5. CASE Save(p)  BY <2>5 DEF Save
    <2>6. CASE SaveFails(p)  BY <2>6 DEF SaveFails
    <2>7. CASE Cleanup(p)  BY <2>7 DEF Cleanup
    <2>8. CASE Return(p)  BY <2>8 DEF Return
    <2> QED  BY <2>1, <2>2, <2>3, <2>4, <2>5, <2>6, <2>7, <2>8 DEF Job
  <1>4. GroupInv'
    <2> USE DEF IInv, TypeOK, GroupInv, ErrorIsTheCause
    <2>1. CASE Cut(p) \/ Store(p) \/ Cleanup(p)
      BY <2>1 DEF Cut, Store, Cleanup
    <2>2. CASE Save(p)
      BY <2>2 DEF Save
    <2>3. CASE CutFails(p)
      BY <2>3 DEF CutFails, JobsDone
    <2>4. CASE StoreFails(p) \/ SaveFails(p)
      BY <2>4 DEF StoreFails, SaveFails
    <2>5. CASE Return(p)
      <3>1. firstError' = IF firstError = "none" THEN err[p] ELSE firstError
        BY <2>5 DEF Return
      <3>2. ErrorIsTheCause'
        BY <1>1, <3>1
      <3>3. \A q \in Pieces : pc'[q] = "done" /\ firstError' = "none" => err'[q] = "none"
        BY <2>5, <3>1 DEF Return
      <3>4. \A q \in Pieces : err'[q] = "cancelled" => ctxDone' \/ firstError' # "none"
        BY <1>1, <2>5, <3>1 DEF Return
      <3> QED  BY <3>2, <3>3, <3>4
    <2> QED  BY <2>1, <2>2, <2>3, <2>4, <2>5 DEF Job
  <1> QED  BY <1>2, <1>3, <1>4 DEF IInv

LEMMA InvStep == ASSUME IInv, [Next]_vars PROVE IInv'
  <1>0. TypeOK'  BY TypeStep DEF IInv
  <1>1. ASSUME NEW p \in Pieces, Job(p) PROVE IInv'
    BY <1>0, <1>1, JobStep
  <1>2. CASE Wait
    <2>1. main' \in {"remove", "failed"} /\ (main' = "remove" => firstError = "none")
          /\ \A p \in Pieces : pc[p] = "done"
      BY <1>2 DEF Wait
    <2> QED
      BY <1>0, <1>2, <2>1
      DEF Wait, IInv, JobsInv, GroupInv, MainInv, CutInv, RowsHaveBlobs,
          ErrorIsTheCause, Kept
  <1>3. CASE RemoveChunk
    <2>1. MainInv'  BY <1>3 DEF RemoveChunk, IInv, MainInv, TypeOK
    <2> QED
      BY <1>0, <1>3, <2>1
      DEF RemoveChunk, IInv, JobsInv, GroupInv, CutInv, RowsHaveBlobs,
          ErrorIsTheCause, Kept
  <1>4. CASE Interrupt
    BY <1>0, <1>4
    DEF Interrupt, IInv, JobsInv, GroupInv, MainInv, CutInv, RowsHaveBlobs,
        ErrorIsTheCause, Kept
  <1>5. CASE UNCHANGED vars
    BY <1>0, <1>5
    DEF vars, IInv, JobsInv, GroupInv, MainInv, CutInv, RowsHaveBlobs,
        ErrorIsTheCause, Kept
  <1> QED  BY <1>1, <1>2, <1>3, <1>4, <1>5 DEF Next

LEMMA Invariant == Spec => []IInv
  BY InitInv, InvStep, PTL DEF Spec

-----------------------------------------------------------------------------
(* Every variable keeps its type. *)
THEOREM TypeCorrect == Spec => []TypeOK
  <1>1. IInv => TypeOK  BY DEF IInv
  <1> QED  BY <1>1, Invariant, PTL

(* The chunk's file is deleted only when every piece is stored and saved.  *)
THEOREM KeptUntilAllIsSplit == Spec => []KeptUntilSplit
  <1>1. IInv => KeptUntilSplit
    <2> SUFFICES ASSUME IInv, ~chunkFile
                 PROVE  rows = Pieces /\ blobs = Pieces
      BY DEF KeptUntilSplit
    <2>1. main = "saved" /\ firstError = "none"
          /\ \A p \in Pieces : pc[p] = "done"
      BY DEF IInv, MainInv
    <2>2. \A p \in Pieces : p \in rows /\ p \in blobs
      BY <2>1 DEF IInv, JobsInv, GroupInv, Kept
    <2> QED  BY <2>2 DEF IInv, TypeOK
  <1> QED  BY <1>1, Invariant, PTL

(* A transmission's row is never without its blob. *)
THEOREM TransmissionsHaveBlobs == Spec => []RowsHaveBlobs
  <1>1. IInv => RowsHaveBlobs  BY DEF IInv
  <1> QED  BY <1>1, Invariant, PTL

(* On no way out does a job leave its temporary file. *)
THEOREM TemporariesRemoved == Spec => []NoTemporaryLeft
  <1>1. IInv => NoTemporaryLeft
    <2> SUFFICES ASSUME IInv, main # "wait" PROVE tmp = {}
      BY DEF NoTemporaryLeft
    <2>1. \A p \in Pieces : p \notin tmp
      BY DEF IInv, MainInv, JobsInv
    <2> QED  BY <2>1 DEF IInv, TypeOK
  <1> QED  BY <1>1, Invariant, PTL

(* A failure is never reported as a cancellation. *)
THEOREM CauseReported == Spec => []ErrorIsTheCause
  <1>1. IInv => ErrorIsTheCause  BY DEF IInv, GroupInv
  <1> QED  BY <1>1, Invariant, PTL

(* For every stored cut ffmpeg was asked for its span, with the buffer     *)
(* where it is due, up to rounding: for every span, those that end before  *)
(* they start too, and every buffer and clock.                             *)
THEOREM CutsCover == Spec => []CutCoversSpan
  <1>1. IInv => CutCoversSpan
    <2> SUFFICES ASSUME IInv, NEW p \in blobs
                 PROVE  Covers(cut[p], span[p])
      BY DEF CutCoversSpan, Covers
    <2>1. p \in Pieces /\ span[p] \in Spans /\ cut[p] = Window(span[p])
      BY DEF IInv, TypeOK, CutInv
    <2> QED  BY <2>1, WindowCovers
  <1> QED  BY <1>1, Invariant, PTL
=============================================================================
