----------------------------- MODULE SplitChunk -----------------------------
(***************************************************************************)
(* splitChunk of pkg/archive.go and the end of Execute that calls it: one  *)
(* job of an errgroup for each piece cuts it out of the chunk's file with  *)
(* ffmpeg, stores the cut and saves a transmission; then the file is       *)
(* deleted.  Times are in ticks, Ms of them to a millisecond.  A piece may *)
(* end before it starts: the archiver makes such ones (Overtaken there).   *)
(***************************************************************************)
EXTENDS Integers

CONSTANTS
  Pieces,
  Spans,    (* bound: spans the pieces are taken from                     *)
  Buffer,   (* 100 * time.Millisecond                                     *)
  Ms        (* time.Millisecond                                           *)

ASSUME SplitAssumption ==
  /\ Ms \in Nat \ {0}
  /\ Buffer \in Nat
  /\ Spans \subseteq [start : Nat, end : Nat]

VARIABLES
  span,        (* a.Pieces                                                *)
  pc,          (* of each job                                             *)
  err,         (* what each job is going to return                        *)
  cut,         (* what ffmpeg was asked for: its start and duration       *)
  tmp,         (* jobs whose temporary file exists                        *)
  blobs,       (* pieces whose cut is in blob storage                     *)
  rows,        (* pieces whose transmission is in the database            *)
  firstError,  (* what group.Wait() is going to return                    *)
  ctxDone,     (* the caller's context is done                            *)
  main,        (* Execute: "wait", "remove", "saved" or "failed"          *)
  chunkFile    (* the chunk's file exists                                 *)

vars == <<span, pc, err, cut, tmp, blobs, rows, firstError, ctxDone, main,
          chunkFile>>

Errors == {"none", "cancelled", "failure"}

(* The jobs' context: the group's first error cancels it too. *)
JobsDone == ctxDone \/ firstError # "none"

-----------------------------------------------------------------------------
(* What is cut *)

Duration(s) == s.end - s.start

(* Duration.Round: to the nearest millisecond, halves away from zero. *)
RoundUp(d) ==
  LET r == d % Ms
  IN  IF r + r < Ms THEN d - r ELSE d + Ms - r
Round(d) == IF d < 0 THEN -RoundUp(-d) ELSE RoundUp(d)

(* Mutant: the buffer is added once. *)
WindowLopsided(s) ==
  IF s.start > Buffer
  THEN [start |-> Round(s.start - Buffer),
        duration |-> Round(Duration(s) + Buffer)]
  ELSE [start |-> Round(s.start), duration |-> Round(Duration(s))]

Window(s) ==
  IF s.start > Buffer
  THEN [start |-> Round(s.start - Buffer),
        duration |-> Round(Duration(s) + 2 * Buffer)]
  ELSE [start |-> Round(s.start), duration |-> Round(Duration(s))]

-----------------------------------------------------------------------------
(* splitAudio *)

Goto(p, label) == pc' = [pc EXCEPT ![p] = label]

(* The job's deferred removal is next. *)
GiveUp(p, e) ==
  /\ Goto(p, "cleanup")
  /\ err' = [err EXCEPT ![p] = e]

(* ffmpeg may finish also when the context is done already.  (If it is     *)
(* asked for less than nothing, it may give an empty cut, or fail.)        *)
Cut(p) ==
  /\ pc[p] = "cut"
  /\ cut' = [cut EXCEPT ![p] = Window(span[p])]
  /\ tmp' = tmp \cup {p}
  /\ Goto(p, "store")
  /\ UNCHANGED <<span, err, blobs, rows, firstError, ctxDone, main, chunkFile>>

(* It fails or is killed, with or without a part of its output. *)
CutFails(p) ==
  /\ pc[p] = "cut"
  /\ tmp' \in {tmp, tmp \cup {p}}
  /\ \/ GiveUp(p, "failure")
     \/ JobsDone /\ GiveUp(p, "cancelled")
  /\ UNCHANGED <<span, cut, blobs, rows, firstError, ctxDone, main, chunkFile>>

(* ReadFile and Store *)
Store(p) ==
  /\ pc[p] = "store"
  /\ blobs' = blobs \cup {p}
  /\ Goto(p, "save")
  /\ UNCHANGED <<span, err, cut, tmp, rows, firstError, ctxDone, main,
                 chunkFile>>

StoreFails(p) ==
  /\ pc[p] = "store"
  /\ GiveUp(p, "failure")
  /\ UNCHANGED <<span, cut, tmp, blobs, rows, firstError, ctxDone, main,
                 chunkFile>>

(* Mutant: the error is only logged. *)
SaveFailsUnnoticed(p) ==
  /\ pc[p] = "save"
  /\ Goto(p, "cleanup")
  /\ UNCHANGED <<span, err, cut, tmp, blobs, rows, firstError, ctxDone, main,
                 chunkFile>>

(* The database has the caller's context, not the jobs'. *)
Save(p) ==
  /\ pc[p] = "save"
  /\ ~ctxDone
  /\ rows' = rows \cup {p}
  /\ Goto(p, "cleanup")
  /\ UNCHANGED <<span, err, cut, tmp, blobs, firstError, ctxDone, main,
                 chunkFile>>

SaveFails(p) ==
  /\ pc[p] = "save"
  /\ GiveUp(p, IF ctxDone THEN "cancelled" ELSE "failure")
  /\ UNCHANGED <<span, cut, tmp, blobs, rows, firstError, ctxDone, main,
                 chunkFile>>

(* Mutant: a removal that fails is tried again. *)
CleanupRetried(p) ==
  /\ pc[p] = "cleanup"
  /\ p \in tmp
  /\ tmp' = tmp \ {p}
  /\ Goto(p, "return")
  /\ UNCHANGED <<span, err, cut, blobs, rows, firstError, ctxDone, main,
                 chunkFile>>

(* Mutant: the file is removed only after an error. *)
CleanupAfterError(p) ==
  /\ pc[p] = "cleanup"
  /\ tmp' = IF err[p] = "none" THEN tmp ELSE tmp \ {p}
  /\ Goto(p, "return")
  /\ UNCHANGED <<span, err, cut, blobs, rows, firstError, ctxDone, main,
                 chunkFile>>

(* The deferred removal: of a file that exists, it is taken to succeed;    *)
(* that there is none is only logged.                                      *)
Cleanup(p) ==
  /\ pc[p] = "cleanup"
  /\ tmp' = tmp \ {p}
  /\ Goto(p, "return")
  /\ UNCHANGED <<span, err, cut, blobs, rows, firstError, ctxDone, main,
                 chunkFile>>

(* Mutant: a later error overwrites an earlier one. *)
ReturnLast(p) ==
  /\ pc[p] = "return"
  /\ firstError' = IF err[p] # "none" THEN err[p] ELSE firstError
  /\ Goto(p, "done")
  /\ UNCHANGED <<span, err, cut, tmp, blobs, rows, ctxDone, main, chunkFile>>

(* errgroup: the first error is kept, and cancels the jobs' context. *)
Return(p) ==
  /\ pc[p] = "return"
  /\ firstError' = IF firstError = "none" THEN err[p] ELSE firstError
  /\ Goto(p, "done")
  /\ UNCHANGED <<span, err, cut, tmp, blobs, rows, ctxDone, main, chunkFile>>

-----------------------------------------------------------------------------
(* The caller *)

(* group.Wait *)
Wait ==
  /\ main = "wait"
  /\ \A p \in Pieces : pc[p] = "done"
  /\ main' = IF firstError = "none" THEN "remove" ELSE "failed"
  /\ UNCHANGED <<span, pc, err, cut, tmp, blobs, rows, firstError, ctxDone,
                 chunkFile>>

RemoveChunk ==
  /\ main = "remove"
  /\ \/ chunkFile' = FALSE /\ main' = "saved"
     \/ chunkFile' = chunkFile /\ main' = "failed"
  /\ UNCHANGED <<span, pc, err, cut, tmp, blobs, rows, firstError, ctxDone>>

Interrupt ==
  /\ ~ctxDone
  /\ main \in {"wait", "remove"}
  /\ ctxDone' = TRUE
  /\ UNCHANGED <<span, pc, err, cut, tmp, blobs, rows, firstError, main,
                 chunkFile>>

Init ==
  /\ span \in [Pieces -> Spans]
  /\ pc = [p \in Pieces |-> "cut"]
  /\ err = [p \in Pieces |-> "none"]
  /\ cut = [p \in Pieces |-> [start |-> 0, duration |-> 0]]
  /\ tmp = {}
  /\ blobs = {}
  /\ rows = {}
  /\ firstError = "none"
  /\ ctxDone \in BOOLEAN
  /\ main = "wait"
  /\ chunkFile = TRUE

Job(p) ==
  \/ Cut(p) \/ CutFails(p) \/ Store(p) \/ StoreFails(p)
  \/ Save(p) \/ SaveFails(p) \/ Cleanup(p) \/ Return(p)

Next ==
  \/ \E p \in Pieces : Job(p)
  \/ Wait \/ RemoveChunk \/ Interrupt

Spec == Init /\ [][Next]_vars

(* The goroutines go on, and ffmpeg ends. *)
FairSpec ==
  /\ Spec
  /\ WF_vars(Wait \/ RemoveChunk)
  /\ \A p \in Pieces : WF_vars(Job(p))

-----------------------------------------------------------------------------
(* Properties *)

(* Every variable has its type. *)
TypeOK ==
  /\ span \in [Pieces -> Spans]
  /\ pc \in [Pieces -> {"cut", "store", "save", "cleanup", "return", "done"}]
  /\ err \in [Pieces -> Errors]
  /\ cut \in [Pieces -> [start : Nat, duration : Int]]
  /\ tmp \subseteq Pieces
  /\ blobs \subseteq Pieces
  /\ rows \subseteq Pieces
  /\ firstError \in Errors
  /\ ctxDone \in BOOLEAN
  /\ main \in {"wait", "remove", "saved", "failed"}
  /\ chunkFile \in BOOLEAN

(* The chunk's file is deleted only when every piece of it has been stored *)
(* and saved: whichever job fails, and whenever the context is done.       *)
KeptUntilSplit == ~chunkFile => rows = Pieces /\ blobs = Pieces

(* A transmission never points to a blob that is not there. *)
RowsHaveBlobs == rows \subseteq blobs

(* No job leaves a temporary file behind, on any of its ways out. *)
NoTemporaryLeft == main # "wait" => tmp = {}

(* An error that is not a cancellation is never reported as one: jobs that *)
(* the first error cancels do not hide it.                                 *)
ErrorIsTheCause == firstError = "cancelled" => ctxDone

(* What ffmpeg was asked for, for a cut that was stored, is the span with  *)
(* the buffer on both sides, when there is room for it, to within the      *)
(* rounding to milliseconds: nothing of the span is cut off, and nothing   *)
(* of its neighbours comes in.  (Of a span that ends before it starts, by  *)
(* more than two buffers, that is a duration below zero.)                  *)
CutCoversSpan ==
  \A p \in blobs :
    LET s   == span[p]
        c   == cut[p]
        b   == IF s.start > Buffer THEN Buffer ELSE 0
        end == c.start + c.duration
    IN  /\ 2 * (s.start - b) - Ms <= 2 * c.start
        /\ 2 * c.start <= 2 * (s.start - b) + Ms
        /\ s.end + b - Ms <= end
        /\ end <= s.end + b + Ms

(* Execute comes to an end. *)
Ends == <>(main \in {"saved", "failed"})
=============================================================================
