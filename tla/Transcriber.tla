----------------------------- MODULE Transcriber -----------------------------
(***************************************************************************)
(* pkg/transcribe.go: transcribe processes poll one database for           *)
(* transmissions without a transcription, run speech-to-text on a batch of *)
(* them and save the results.  A process that fails exits, and its         *)
(* supervisor starts it again; the database and the blobs outlive it.      *)
(***************************************************************************)
EXTENDS Naturals, FiniteSets

CONSTANTS
  Transmissions,
  Poison,     (* those whose blob is gone or that Whisper cannot read     *)
  Workers,    (* processes: one in docker-compose.yml                     *)
  MaxBatch,   (* stt.MaxBatchSize(): 1 for Whisper                        *)
  MaxFaults   (* bound: transient failures and crashes                    *)

ASSUME TranscriberAssumption ==
  /\ IsFiniteSet(Transmissions)
  /\ IsFiniteSet(Workers)
  /\ Poison \subseteq Transmissions
  /\ MaxBatch \in Nat \ {0}
  /\ MaxFaults \in Nat

VARIABLES
  (* the database *)
  present,     (* transmissions that have a row                           *)
  count,       (* transcriptions of each transmission                     *)
  (* each process *)
  pc,          (* "query", "work", "save", "sleep", "exited", "failed"    *)
  batch,       (* what it took from its last query                        *)
  cancelled,   (* its context is done                                     *)
  faults       (* transient failures so far                               *)

databaseVars == <<present, count>>
vars == <<databaseVars, pc, batch, cancelled, faults>>

Running(w) == pc[w] \notin {"exited", "failed"}

(* A worker goes on at label, with what it has in hand. *)
Goto(w, label, hand) ==
  /\ pc' = [pc EXCEPT ![w] = label]
  /\ batch' = [batch EXCEPT ![w] = hand]

-----------------------------------------------------------------------------
(* transcribeOnce *)

(* Mutant: the join's condition is dropped. *)
UntranscribedOrNot == present

Untranscribed == {t \in present : count[t] = 0}

(* The batches the query may give: LIMIT without ORDER BY. *)
Batches(S) ==
  {b \in SUBSET S :
     \/ Cardinality(b) = MaxBatch
     \/ b = S /\ Cardinality(S) < MaxBatch}

(* Mutant: the query is made without the context. *)
QueryAnyway(w) ==
  /\ pc[w] = "query"
  /\ \E b \in Batches(Untranscribed) :
       Goto(w, IF b = {} THEN "sleep" ELSE "work", b)
  /\ UNCHANGED <<databaseVars, cancelled, faults>>

(* An empty result breaks the inner loop. *)
Query(w) ==
  /\ pc[w] = "query"
  /\ ~cancelled[w]
  /\ \E b \in Batches(Untranscribed) :
       Goto(w, IF b = {} THEN "sleep" ELSE "work", b)
  /\ UNCHANGED <<databaseVars, cancelled, faults>>

(* Link and SpeechToText for every transmission of the batch, whose first  *)
(* error ends the process.  The download of a file by http.Get is not      *)
(* given the context, and goes on when that is done; it is assumed to end. *)
Work(w) ==
  /\ pc[w] = "work"
  /\ IF batch[w] \cap Poison = {}
     THEN Goto(w, "save", batch[w])
     ELSE Goto(w, "failed", {})
  /\ UNCHANGED <<databaseVars, cancelled, faults>>

(* One insert for the whole batch. *)
Save(w) ==
  /\ pc[w] = "save"
  /\ ~cancelled[w]
  /\ count' = [t \in Transmissions |->
                 count[t] + IF t \in batch[w] THEN 1 ELSE 0]
  /\ Goto(w, "query", {})
  /\ UNCHANGED <<present, cancelled, faults>>

(* A database or storage error, or whisper's. *)
TransientFailure(w) ==
  /\ Running(w)
  /\ pc[w] # "sleep"
  /\ faults < MaxFaults
  /\ faults' = faults + 1
  /\ Goto(w, "failed", {})
  /\ UNCHANGED <<databaseVars, cancelled>>

-----------------------------------------------------------------------------
(* Transcribe's loop *)

(* Mutant: the break leaves the outer loop as well. *)
WakeNever(w) ==
  /\ pc[w] = "sleep"
  /\ Goto(w, "exited", {})
  /\ UNCHANGED <<databaseVars, cancelled, faults>>

(* time.After: select may take it also when the context is done. *)
Wake(w) ==
  /\ pc[w] = "sleep"
  /\ Goto(w, "query", {})
  /\ UNCHANGED <<databaseVars, cancelled, faults>>

(* The context is done: the query or the insert fails with it, whisper is  *)
(* interrupted (after the download, if there is one), or the select sees   *)
(* it.  That is not an error.                                              *)
NoticeCancelled(w) ==
  /\ Running(w)
  /\ cancelled[w]
  /\ Goto(w, "exited", {})
  /\ UNCHANGED <<databaseVars, cancelled, faults>>

-----------------------------------------------------------------------------
(* The surroundings *)

(* The downloader saves a transmission. *)
Arrive(t) ==
  /\ t \notin present
  /\ present' = present \cup {t}
  /\ UNCHANGED <<count, pc, batch, cancelled, faults>>

Interrupt(w) ==
  /\ Running(w)
  /\ ~cancelled[w]
  /\ cancelled' = [cancelled EXCEPT ![w] = TRUE]
  /\ UNCHANGED <<databaseVars, pc, batch, faults>>

(* The process is killed. *)
Crash(w) ==
  /\ Running(w)
  /\ faults < MaxFaults
  /\ faults' = faults + 1
  /\ Goto(w, "failed", {})
  /\ UNCHANGED <<databaseVars, cancelled>>

(* restart: unless-stopped *)
Restart(w) ==
  /\ pc[w] = "failed"
  /\ Goto(w, "query", {})
  /\ cancelled' = [cancelled EXCEPT ![w] = FALSE]
  /\ UNCHANGED <<databaseVars, faults>>

Init ==
  /\ present = {}
  /\ count = [t \in Transmissions |-> 0]
  /\ pc = [w \in Workers |-> "query"]
  /\ batch = [w \in Workers |-> {}]
  /\ cancelled = [w \in Workers |-> FALSE]
  /\ faults = 0

Step(w) ==
  \/ Query(w) \/ Work(w) \/ Save(w) \/ Wake(w) \/ NoticeCancelled(w)

Next ==
  \/ \E t \in Transmissions : Arrive(t)
  \/ \E w \in Workers :
       \/ Step(w) \/ TransientFailure(w)
       \/ Interrupt(w) \/ Crash(w) \/ Restart(w)

Spec == Init /\ [][Next]_vars

(* A process goes on while it runs and is started again when it failed. *)
FairSpec ==
  /\ Spec
  /\ \A w \in Workers : WF_vars(Step(w)) /\ WF_vars(Restart(w))

-----------------------------------------------------------------------------
(* Properties *)

(* Every variable has its type, and no batch is larger than allowed. *)
TypeOK ==
  /\ present \subseteq Transmissions
  /\ count \in [Transmissions -> Nat]
  /\ pc \in [Workers ->
               {"query", "work", "save", "sleep", "exited", "failed"}]
  /\ batch \in [Workers -> SUBSET present]
  /\ \A w \in Workers : Cardinality(batch[w]) <= MaxBatch
  /\ cancelled \in [Workers -> BOOLEAN]
  /\ faults \in 0 .. MaxFaults

(* The processes that have a transmission in hand *)
Holders(t) == {w \in Workers : t \in batch[w]}

(* A transmission is never transcribed more often than there are           *)
(* processes, whatever crashes and restarts: with one process, once.       *)
(* Nothing is claimed before the slow work, so that more processes do      *)
(* repeat each other's.                                                    *)
NoMoreThanWorkers ==
  \A t \in Transmissions : count[t] <= Cardinality(Workers)

(* The work on a transmission is never lost for good: one that has arrived *)
(* is transcribed in the end if a process is left to do it, through any    *)
(* finite number of failures and crashes.  One that cannot be transcribed  *)
(* may stand in the way of all others for ever: the query may give it      *)
(* again and again.                                                        *)
Stopped == \A w \in Workers : pc[w] = "exited" /\ cancelled[w]

Blocked == Poison \cap present # {}

EventuallyTranscribed ==
  \A t \in Transmissions :
    t \in present ~> (count[t] > 0 \/ Stopped \/ Blocked)

(* An interrupted process ends, also while there is a backlog. *)
InterruptEnds == \A w \in Workers : cancelled[w] ~> ~Running(w)
=============================================================================
