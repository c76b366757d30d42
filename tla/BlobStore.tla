------------------------------ MODULE BlobStore ------------------------------
(***************************************************************************)
(* On-disk blob storage (pkg/on_disk_storage/storage.go): Store writes a   *)
(* blob to the file named after its hash, and takes a file that is there   *)
(* for a blob that is stored.  Several goroutines, and several processes   *)
(* on the same directory, store at the same time.  A file is the set of    *)
(* its blocks that hold what they should; a blob is blocks 1 .. NumBlocks. *)
(***************************************************************************)
EXTENDS Naturals

CONSTANTS
  Writers,    (* goroutines that call Store                               *)
  Keys,       (* blob keys, one for each content                          *)
  NumBlocks,  (* blocks that are written one by one                       *)
  Faults      (* what may happen to a write: "error", "crash"             *)

ASSUME BlobStoreAssumption ==
  /\ NumBlocks \in Nat \ {0}
  /\ Faults \subseteq {"error", "crash"}

VARIABLES
  exists,   (* keys that have a file                                      *)
  content,  (* good blocks of each file                                   *)
  step,     (* of each writer: "idle", "stat", "open" or "write"          *)
  key,      (* what each writer is storing                                *)
  written,  (* blocks a writer has written since it opened the file       *)
  acked,    (* keys for which a Store returned without an error           *)
  torn      (* history: keys whose write was given up half-way            *)

storeVars == <<exists, content, step, key, written, acked, torn>>

Blocks == 1 .. NumBlocks

StepTo(w, label) == step' = [step EXCEPT ![w] = label]

-----------------------------------------------------------------------------
(* Store *)

(* KeyForBytes, and MkdirAll of the root directory *)
Begin(w) ==
  /\ step[w] = "idle"
  /\ \E k \in Keys : key' = [key EXCEPT ![w] = k]
  /\ StepTo(w, "stat")
  /\ UNCHANGED <<exists, content, written, acked, torn>>

(* Mutant: the blob is written again although it is there. *)
StatIgnored(w) ==
  /\ step[w] = "stat"
  /\ StepTo(w, "open")
  /\ UNCHANGED <<exists, content, key, written, acked, torn>>

(* os.Stat: "Already exists" is a success. *)
Stat(w) ==
  /\ step[w] = "stat"
  /\ IF key[w] \in exists
     THEN StepTo(w, "idle") /\ acked' = acked \cup {key[w]}
     ELSE StepTo(w, "open") /\ UNCHANGED acked
  /\ UNCHANGED <<exists, content, key, written, torn>>

(* os.WriteFile opens with O_CREATE and O_TRUNC ... *)
Open(w) ==
  /\ step[w] = "open"
  /\ exists' = exists \cup {key[w]}
  /\ content' = [content EXCEPT ![key[w]] = {}]
  /\ written' = [written EXCEPT ![w] = 0]
  /\ StepTo(w, "write")
  /\ UNCHANGED <<key, acked, torn>>

(* ... and writes at its own offset ... *)
WriteBlock(w) ==
  /\ step[w] = "write"
  /\ written[w] < NumBlocks
  /\ written' = [written EXCEPT ![w] = @ + 1]
  /\ content' = [content EXCEPT ![key[w]] = @ \cup {written[w] + 1}]
  /\ UNCHANGED <<exists, step, key, acked, torn>>

(* Mutant: a short write is taken for a whole one. *)
FinishShort(w) ==
  /\ step[w] = "write"
  /\ StepTo(w, "idle")
  /\ acked' = acked \cup {key[w]}
  /\ UNCHANGED <<exists, content, key, written, torn>>

(* ... until all is written and closed. *)
Finish(w) ==
  /\ step[w] = "write"
  /\ written[w] = NumBlocks
  /\ StepTo(w, "idle")
  /\ acked' = acked \cup {key[w]}
  /\ UNCHANGED <<exists, content, key, written, torn>>

(* A write fails, the disk being full: Store returns the error and leaves  *)
(* the file as it is.                                                      *)
WriteFails(w) ==
  /\ "error" \in Faults
  /\ step[w] = "write"
  /\ StepTo(w, "idle")
  /\ torn' = torn \cup {key[w]}
  /\ UNCHANGED <<exists, content, key, written, acked>>

(* The process ends in the middle of a Store, and is started again. *)
Crash(w) ==
  /\ "crash" \in Faults
  /\ step[w] # "idle"
  /\ StepTo(w, "idle")
  /\ torn' = IF step[w] = "write" THEN torn \cup {key[w]} ELSE torn
  /\ UNCHANGED <<exists, content, key, written, acked>>

(* What an idle writer's key is has no meaning. *)
StoreInit ==
  /\ exists = {}
  /\ content = [k \in Keys |-> {}]
  /\ step = [w \in Writers |-> "idle"]
  /\ key \in [Writers -> Keys]
  /\ written = [w \in Writers |-> 0]
  /\ acked = {}
  /\ torn = {}

StoreStep(w) == Stat(w) \/ Open(w) \/ WriteBlock(w) \/ Finish(w)

StoreNext ==
  \E w \in Writers : Begin(w) \/ StoreStep(w) \/ WriteFails(w) \/ Crash(w)

StoreSpec == StoreInit /\ [][StoreNext]_storeVars

(* A Store that was called goes on. *)
FairStoreSpec == StoreSpec /\ \A w \in Writers : WF_storeVars(StoreStep(w))

-----------------------------------------------------------------------------
(* Properties *)

(* Every variable has its type. *)
StoreTypeOK ==
  /\ exists \subseteq Keys
  /\ content \in [Keys -> SUBSET Blocks]
  /\ step \in [Writers -> {"idle", "stat", "open", "write"}]
  /\ key \in [Writers -> Keys]
  /\ written \in [Writers -> 0 .. NumBlocks]
  /\ acked \subseteq Keys
  /\ torn \subseteq Keys

Writing(w, k) == step[w] = "write" /\ key[w] = k

(* What a file lacks some writer is still going to write, however many     *)
(* truncate and write it together: when nobody writes it, a file whose     *)
(* writes all succeeded is whole.                                          *)
MissingIsInHand ==
  \A k \in exists \ torn : \A b \in Blocks \ content[k] :
    \E w \in Writers : Writing(w, k) /\ written[w] < b

(* Unless a write of it was given up, a blob that was stored becomes whole *)
(* and then stays so: late truncations end.                                *)
EventuallyWhole ==
  \A k \in Keys : k \in acked ~> (k \in torn \/ [](content[k] = Blocks))
=============================================================================
