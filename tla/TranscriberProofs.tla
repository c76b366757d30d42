------------------------- MODULE TranscriberProofs -------------------------
(* Theorems about Transcriber, for any transmissions, processes, batch     *)
(* size, and number of failures.                                           *)
EXTENDS Transcriber, FiniteSetTheorems, TLAPS

USE TranscriberAssumption

LEMMA InitTypes == Init => TypeOK
  <1> SUFFICES ASSUME Init PROVE TypeOK  OBVIOUS
  <1>1. Cardinality({}) = 0  BY FS_EmptySet
  <1>2. cancelled \in [Workers -> BOOLEAN]  BY DEF Init
  <1> QED  BY <1>1, <1>2 DEF Init, TypeOK

(* A step that only takes work in hand away. *)
LEMMA GotoTypes ==
  ASSUME TypeOK, present' = present, NEW w \in Workers,
         NEW label \in {"query", "work", "save", "sleep", "exited", "failed"},
         NEW hand \in SUBSET present, Cardinality(hand) <= MaxBatch,
         Goto(w, label, hand)
  PROVE  /\ pc' \in [Workers ->
                       {"query", "work", "save", "sleep", "exited", "failed"}]
         /\ batch' \in [Workers -> SUBSET present']
         /\ \A v \in Workers : Cardinality(batch'[v]) <= MaxBatch
  BY DEF TypeOK, Goto

LEMMA TypeStep == ASSUME TypeOK, [Next]_vars PROVE TypeOK'
  <1> USE DEF TypeOK, databaseVars
  <1>0. Cardinality({}) = 0 /\ 0 <= MaxBatch  BY FS_EmptySet
  <1>1. ASSUME NEW w \in Workers, Query(w) PROVE TypeOK'
    <2>1. PICK b \in Batches(Untranscribed) :
            Goto(w, IF b = {} THEN "sleep" ELSE "work", b)
      BY <1>1 DEF Query
    <2>2. b \in SUBSET present /\ Cardinality(b) <= MaxBatch
      <3>1. b \subseteq Untranscribed /\ Untranscribed \subseteq present
        BY <2>1 DEF Batches, Untranscribed
      <3>2. CASE Cardinality(b) = MaxBatch
        BY <3>1, <3>2
      <3>3. CASE b = Untranscribed /\ Cardinality(Untranscribed) < MaxBatch
        <4>1. IsFiniteSet(Untranscribed)
          BY <3>1, FS_Subset
        <4>2. Cardinality(Untranscribed) \in Nat
          BY <4>1, FS_CardinalityType
        <4> QED  BY <3>1, <3>3, <4>2
      <3> QED  BY <2>1, <3>2, <3>3 DEF Batches
    <2> QED  BY <1>1, <2>1, <2>2, GotoTypes DEF Query
  <1>2. ASSUME NEW w \in Workers, Work(w) PROVE TypeOK'
    <2>1. CASE batch[w] \cap Poison = {}
      BY <1>2, <2>1, GotoTypes DEF Work
    <2>2. CASE batch[w] \cap Poison # {}
      BY <1>0, <1>2, <2>2, GotoTypes DEF Work
    <2> QED  BY <2>1, <2>2
  <1>3. ASSUME NEW w \in Workers, Save(w) PROVE TypeOK'
    <2>1. count' \in [Transmissions -> Nat]
      BY <1>3 DEF Save
    <2> QED  BY <1>0, <1>3, <2>1, GotoTypes DEF Save
  <1>4. ASSUME NEW w \in Workers, TransientFailure(w) \/ Crash(w) PROVE TypeOK'
    <2>1. faults' \in 0 .. MaxFaults
      BY <1>4 DEF TransientFailure, Crash
    <2> QED  BY <1>0, <1>4, <2>1, GotoTypes DEF TransientFailure, Crash
  <1>5. ASSUME NEW w \in Workers, Wake(w) \/ NoticeCancelled(w) PROVE TypeOK'
    BY <1>0, <1>5, GotoTypes DEF Wake, NoticeCancelled
  <1>6. ASSUME NEW t \in Transmissions, Arrive(t) PROVE TypeOK'
    BY <1>6 DEF Arrive
  <1>7. ASSUME NEW w \in Workers, Interrupt(w) PROVE TypeOK'
    <2>1. cancelled' \in [Workers -> BOOLEAN]  BY <1>7 DEF Interrupt
    <2> QED  BY <1>7, <2>1 DEF Interrupt
  <1>8. ASSUME NEW w \in Workers, Restart(w) PROVE TypeOK'
    <2>1. cancelled' \in [Workers -> BOOLEAN]  BY <1>8 DEF Restart
    <2> QED  BY <1>0, <1>8, <2>1, GotoTypes DEF Restart
  <1>9. CASE UNCHANGED vars  BY <1>9 DEF vars
  <1> QED
    BY <1>1, <1>2, <1>3, <1>4, <1>5, <1>6, <1>7, <1>8, <1>9 DEF Next, Step

-----------------------------------------------------------------------------
(* The inductive invariant: every process accounts for one transcription   *)
(* of a transmission, the one that it may still save or one that was.  A   *)
(* query starts the account anew, because it gives only transmissions that *)
(* have none.                                                              *)
AccountInv ==
  \A t \in Transmissions :
    count[t] + Cardinality(Holders(t)) <= Cardinality(Workers)

LEMMA HoldersFinite ==
  ASSUME NEW t
  PROVE  /\ IsFiniteSet(Holders(t)) /\ Cardinality(Holders(t)) \in Nat
         /\ Cardinality(Workers) \in Nat
         /\ Cardinality(Holders(t)) <= Cardinality(Workers)
  <1>1. Holders(t) \subseteq Workers  BY DEF Holders
  <1> QED  BY <1>1, FS_Subset, FS_CardinalityType

(* A step after which nobody holds more than before, and nothing is saved. *)
LEMMA HoldLess ==
  ASSUME TypeOK, AccountInv, count' = count,
         \A w \in Workers : batch'[w] \subseteq batch[w]
  PROVE  AccountInv'
  <1> SUFFICES ASSUME NEW t \in Transmissions
               PROVE  count[t] + Cardinality(Holders(t)')
                        <= Cardinality(Workers)
    BY DEF AccountInv
  <1>1. Holders(t)' \subseteq Holders(t)  BY DEF Holders
  <1>2. Cardinality(Holders(t)') \in Nat
        /\ Cardinality(Holders(t)') <= Cardinality(Holders(t))
    BY <1>1, HoldersFinite, FS_Subset, FS_CardinalityType
  <1>3. count[t] \in Nat  BY DEF TypeOK
  <1>4. count[t] + Cardinality(Holders(t)) <= Cardinality(Workers)
    BY DEF AccountInv
  <1> QED  BY <1>2, <1>3, <1>4, HoldersFinite

LEMMA AccountStep ==
  ASSUME TypeOK, AccountInv, [Next]_vars PROVE AccountInv'
  <1> USE DEF databaseVars
  <1>1. ASSUME NEW w \in Workers, Query(w) PROVE AccountInv'
    <2> SUFFICES ASSUME NEW t \in Transmissions
                 PROVE  count[t] + Cardinality(Holders(t)')
                          <= Cardinality(Workers)
      BY <1>1 DEF AccountInv, Query
    <2>1. PICK b \in Batches(Untranscribed) :
            batch' = [batch EXCEPT ![w] = b]
      BY <1>1 DEF Query, Goto
    <2>2. Holders(t)' \subseteq Workers  BY DEF Holders
    <2>3. Cardinality(Holders(t)') \in Nat
          /\ Cardinality(Holders(t)') <= Cardinality(Workers)
      BY <2>2, FS_Subset, FS_CardinalityType
    <2>4. CASE t \in b
      <3>1. count[t] = 0  BY <2>4 DEF Batches, Untranscribed
      <3> QED  BY <2>3, <3>1
    <2>5. CASE t \notin b
      <3>1. Holders(t)' \subseteq Holders(t)
        BY <2>1, <2>5 DEF Holders, TypeOK
      <3>2. Cardinality(Holders(t)') <= Cardinality(Holders(t))
        BY <3>1, HoldersFinite, FS_Subset
      <3>3. count[t] \in Nat
            /\ count[t] + Cardinality(Holders(t)) <= Cardinality(Workers)
        BY DEF TypeOK, AccountInv
      <3> QED  BY <2>3, <3>2, <3>3, HoldersFinite
    <2> QED  BY <2>4, <2>5
  <1>2. ASSUME NEW w \in Workers, Save(w) PROVE AccountInv'
    <2> SUFFICES ASSUME NEW t \in Transmissions
                 PROVE  count'[t] + Cardinality(Holders(t)')
                          <= Cardinality(Workers)
      BY DEF AccountInv
    <2>1. batch' = [batch EXCEPT ![w] = {}]
      BY <1>2 DEF Save, Goto
    <2>2. count[t] \in Nat
          /\ count[t] + Cardinality(Holders(t)) <= Cardinality(Workers)
      BY DEF TypeOK, AccountInv
    <2>3. CASE t \in batch[w]
      <3>1. count'[t] = count[t] + 1  BY <1>2, <2>3 DEF Save
      <3>2. w \in Holders(t) /\ Holders(t)' = Holders(t) \ {w}
        BY <2>1, <2>3 DEF Holders, TypeOK
      <3>3. Cardinality(Holders(t)') = Cardinality(Holders(t)) - 1
        BY <3>2, HoldersFinite, FS_RemoveElement
      <3> QED  BY <2>2, <3>1, <3>3, HoldersFinite
    <2>4. CASE t \notin batch[w]
      <3>1. count'[t] = count[t]  BY <1>2, <2>2, <2>4 DEF Save
      <3>2. Holders(t)' = Holders(t)
        BY <2>1, <2>4 DEF Holders, TypeOK
      <3> QED  BY <2>2, <3>1, <3>2
    <2> QED  BY <2>3, <2>4
  <1>3. ASSUME NEW w \in Workers,
               \/ Work(w) \/ TransientFailure(w) \/ Wake(w)
               \/ NoticeCancelled(w) \/ Crash(w) \/ Restart(w)
        PROVE  AccountInv'
    <2>1. count' = count
      BY <1>3 DEF Work, TransientFailure, Wake, NoticeCancelled, Crash, Restart
    <2>2. batch' = [batch EXCEPT ![w] = {}]
            \/ batch' = [batch EXCEPT ![w] = batch[w]]
      BY <1>3
      DEF Work, TransientFailure, Wake, NoticeCancelled, Crash, Restart, Goto
    <2>3. \A v \in Workers : batch'[v] \subseteq batch[v]
      BY <2>2 DEF TypeOK
    <2> QED  BY <2>1, <2>3, HoldLess
  <1>4. CASE \/ \E t \in Transmissions : Arrive(t)
             \/ \E w \in Workers : Interrupt(w)
             \/ UNCHANGED vars
    <2>1. count' = count /\ batch' = batch
      BY <1>4 DEF Arrive, Interrupt, vars
    <2> QED  BY <2>1, HoldLess
  <1> QED  BY <1>1, <1>2, <1>3, <1>4 DEF Next, Step

LEMMA Invariant == Spec => [](TypeOK /\ AccountInv)
  <1>1. Init => TypeOK /\ AccountInv
    <2> SUFFICES ASSUME Init PROVE AccountInv  BY InitTypes
    <2>1. \A t \in Transmissions : Holders(t) = {} /\ count[t] = 0
      BY DEF Init, Holders
    <2>2. Cardinality({}) = 0 /\ Cardinality(Workers) \in Nat
      BY FS_EmptySet, FS_CardinalityType
    <2> QED  BY <2>1, <2>2 DEF AccountInv
  <1>2. TypeOK /\ AccountInv /\ [Next]_vars => (TypeOK /\ AccountInv)'
    BY TypeStep, AccountStep
  <1> QED  BY <1>1, <1>2, PTL DEF Spec

(* Every variable keeps its type, and no batch exceeds MaxBatchSize. *)
THEOREM TypeCorrect == Spec => []TypeOK
  BY Invariant, PTL

(* However the processes interleave, fail and are restarted, a             *)
(* transmission gets at most one transcription from each.                  *)
THEOREM BoundedRepetition == Spec => []NoMoreThanWorkers
  <1>1. TypeOK /\ AccountInv => NoMoreThanWorkers
    <2> SUFFICES ASSUME TypeOK, AccountInv, NEW t \in Transmissions
                 PROVE  count[t] <= Cardinality(Workers)
      BY DEF NoMoreThanWorkers
    <2>1. count[t] \in Nat
          /\ count[t] + Cardinality(Holders(t)) <= Cardinality(Workers)
      BY DEF TypeOK, AccountInv
    <2> QED  BY <2>1, HoldersFinite
  <1> QED  BY <1>1, Invariant, PTL

(* With the one process of docker-compose.yml nothing is transcribed       *)
(* twice.                                                                  *)
THEOREM OneWorkerOnce ==
  ASSUME NEW w, Workers = {w}
  PROVE  Spec => [](\A t \in Transmissions : count[t] <= 1)
  <1>1. Cardinality(Workers) = 1  BY FS_Singleton
  <1>2. NoMoreThanWorkers => \A t \in Transmissions : count[t] <= 1
    BY <1>1 DEF NoMoreThanWorkers
  <1> QED  BY <1>2, BoundedRepetition, PTL
=============================================================================
