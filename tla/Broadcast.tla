------------------------------ MODULE Broadcast ------------------------------
(***************************************************************************)
(* The broadcast channel of pkg/broadcast.go: a goroutine takes messages   *)
(* from a source channel and offers each to every listener's channel       *)
(* without waiting, under a mutex that Subscribe and cancel take as well.  *)
(* Messages are numbered in the order they are put in the source.          *)
(***************************************************************************)
EXTENDS Naturals, Sequences, SequencesExt

CONSTANTS
  Listeners,       (* calls of Subscribe                                  *)
  Capacity,        (* of a listener's channel: 1 in the code              *)
  SourceCapacity,  (* of the source: 0, or 10 in one of the tests         *)
  MaxMsgs          (* bound: messages put in the source                   *)

ASSUME BroadcastAssumption ==
  /\ Capacity \in Nat
  /\ SourceCapacity \in Nat
  /\ MaxMsgs \in Nat

VARIABLES
  (* the source channel *)
  sent,          (* messages that were put in it                          *)
  sourceClosed,
  (* the goroutine of NewBroadcastChannel *)
  pc,            (* "range", "lock", "loop", "clear" or "done"            *)
  msg,           (* the message it took last; later ones are in the       *)
                 (* source's buffer                                       *)
  next,          (* index of the listener it offers msg to                *)
  listeners,     (* b.listeners                                           *)
  (* the listeners' channels, and what has been done with them *)
  buffer,
  closed,
  received,      (* what each listener has read                           *)
  state,         (* "new", "subscribed" or "cancelled"                    *)
  since,         (* history: messages taken before the subscription       *)
  cleared        (* history: clear has run                                *)

sourceVars  == <<sent, sourceClosed>>
channelVars == <<buffer, closed>>
clientVars  == <<received, state, since>>
vars == <<sourceVars, pc, msg, next, listeners, channelVars, clientVars,
          cleared>>

(* The goroutine holds b.mu while it offers a message to the listeners. *)
Locked == pc = "loop"

-----------------------------------------------------------------------------
(* The owner of the source.  A send goes to the goroutine that waits for   *)
(* it, or finds room in the channel's buffer.                              *)

Send ==
  /\ ~sourceClosed
  /\ sent < MaxMsgs
  /\ \/ pc = "range" /\ msg = sent
     \/ sent - msg < SourceCapacity
  /\ sent' = sent + 1
  /\ UNCHANGED <<sourceClosed, pc, msg, next, listeners, channelVars,
                 clientVars, cleared>>

CloseSource ==
  /\ ~sourceClosed
  /\ sourceClosed' = TRUE
  /\ UNCHANGED <<sent, pc, msg, next, listeners, channelVars, clientVars,
                 cleared>>

-----------------------------------------------------------------------------
(* The goroutine *)

(* range gives it the oldest message, also after the source was closed. *)
Take ==
  /\ pc = "range"
  /\ msg < sent
  /\ msg' = msg + 1
  /\ pc' = "lock"
  /\ UNCHANGED <<sourceVars, next, listeners, channelVars, clientVars,
                 cleared>>

Lock ==
  /\ pc = "lock"
  /\ pc' = "loop"
  /\ next' = 1
  /\ UNCHANGED <<sourceVars, msg, listeners, channelVars, clientVars,
                 cleared>>

(* Mutant: the goroutine waits for a slow listener, holding the mutex. *)
OfferWaiting ==
  /\ Locked
  /\ next <= Len(listeners)
  /\ Len(buffer[listeners[next]]) < Capacity
  /\ buffer' = [buffer EXCEPT ![listeners[next]] = Append(@, msg)]
  /\ next' = next + 1
  /\ UNCHANGED <<sourceVars, pc, msg, listeners, closed, clientVars,
                 cleared>>

(* select with a default: a listener whose buffer is full misses msg. *)
Offer ==
  /\ Locked
  /\ next <= Len(listeners)
  /\ LET l == listeners[next]
     IN  buffer' = IF Len(buffer[l]) < Capacity
                   THEN [buffer EXCEPT ![l] = Append(@, msg)]
                   ELSE buffer
  /\ next' = next + 1
  /\ UNCHANGED <<sourceVars, pc, msg, listeners, closed, clientVars,
                 cleared>>

Unlock ==
  /\ Locked
  /\ next > Len(listeners)
  /\ pc' = "range"
  /\ UNCHANGED <<sourceVars, msg, next, listeners, channelVars, clientVars,
                 cleared>>

RangeEnds ==
  /\ pc = "range"
  /\ sourceClosed
  /\ msg = sent
  /\ pc' = "clear"
  /\ UNCHANGED <<sourceVars, msg, next, listeners, channelVars, clientVars,
                 cleared>>

(* The deferred clear, one critical section *)
Clear ==
  /\ pc = "clear"
  /\ pc' = "done"
  /\ closed' = [l \in Listeners |-> closed[l] \/ l \in Range(listeners)]
  /\ listeners' = << >>
  /\ cleared' = TRUE
  /\ UNCHANGED <<sourceVars, msg, next, buffer, clientVars>>

-----------------------------------------------------------------------------
(* The listeners *)

(* Mutant: a new listener is given the latest message at once. *)
SubscribeReplaying(l) ==
  /\ state[l] = "new"
  /\ ~Locked
  /\ state' = [state EXCEPT ![l] = "subscribed"]
  /\ listeners' = Append(listeners, l)
  /\ since' = [since EXCEPT ![l] = IF pc = "lock" THEN msg - 1 ELSE msg]
  /\ buffer' = [buffer EXCEPT ![l] = IF msg = 0 THEN << >> ELSE <<msg>>]
  /\ UNCHANGED <<sourceVars, pc, msg, next, closed, received, cleared>>

Subscribe(l) ==
  /\ state[l] = "new"
  /\ ~Locked
  /\ state' = [state EXCEPT ![l] = "subscribed"]
  /\ listeners' = Append(listeners, l)
  /\ since' = [since EXCEPT ![l] = IF pc = "lock" THEN msg - 1 ELSE msg]
  /\ UNCHANGED <<sourceVars, pc, msg, next, channelVars, received, cleared>>

Receive(l) ==
  /\ state[l] # "new"
  /\ buffer[l] # << >>
  /\ received' = [received EXCEPT ![l] = Append(@, Head(buffer[l]))]
  /\ buffer' = [buffer EXCEPT ![l] = Tail(@)]
  /\ UNCHANGED <<sourceVars, pc, msg, next, listeners, closed, state, since,
                 cleared>>

(* Mutant: the last listener is cut off, not the one that was replaced. *)
CutOff(seq, i) == SubSeq(seq, 1, Len(seq) - 1)

SwapRemove(seq, i) ==
  SubSeq([seq EXCEPT ![i] = seq[Len(seq)]], 1, Len(seq) - 1)

(* cancel calls unregister, once or again; one that is not registered any  *)
(* more is left alone.                                                     *)
Cancel(l) ==
  /\ state[l] # "new"
  /\ ~Locked
  /\ state' = [state EXCEPT ![l] = "cancelled"]
  /\ IF l \in Range(listeners)
     THEN LET i == CHOOSE j \in 1 .. Len(listeners) : listeners[j] = l
          IN  /\ listeners' = SwapRemove(listeners, i)
              /\ closed' = [closed EXCEPT ![l] = TRUE]
     ELSE UNCHANGED <<listeners, closed>>
  /\ UNCHANGED <<sourceVars, pc, msg, next, buffer, received, since, cleared>>

Init ==
  /\ sent = 0
  /\ sourceClosed = FALSE
  /\ pc = "range"
  /\ msg = 0
  /\ next = 1
  /\ listeners = << >>
  /\ buffer = [l \in Listeners |-> << >>]
  /\ closed = [l \in Listeners |-> FALSE]
  /\ received = [l \in Listeners |-> << >>]
  /\ state = [l \in Listeners |-> "new"]
  /\ since = [l \in Listeners |-> 0]
  /\ cleared = FALSE

Goroutine == Take \/ Lock \/ Offer \/ Unlock \/ RangeEnds \/ Clear

Next ==
  \/ Send \/ CloseSource \/ Goroutine
  \/ \E l \in Listeners : Subscribe(l) \/ Receive(l) \/ Cancel(l)

Spec == Init /\ [][Next]_vars

(* Only the goroutine is sure to go on: listeners may never read, and the  *)
(* source may never be closed.                                             *)
FairSpec == Spec /\ WF_vars(Goroutine)

-----------------------------------------------------------------------------
(* Properties *)

(* Every variable has its type. *)
TypeOK ==
  /\ sent \in 0 .. MaxMsgs
  /\ sourceClosed \in BOOLEAN
  /\ pc \in {"range", "lock", "loop", "clear", "done"}
  /\ msg \in 0 .. MaxMsgs
  /\ next \in Nat
  /\ Locked => next \in 1 .. Len(listeners) + 1
  /\ listeners \in Seq(Listeners)
  /\ buffer \in [Listeners -> Seq(1 .. MaxMsgs)]
  /\ \A l \in Listeners : Len(buffer[l]) <= Capacity
  /\ closed \in [Listeners -> BOOLEAN]
  /\ received \in [Listeners -> Seq(1 .. MaxMsgs)]
  /\ state \in [Listeners -> {"new", "subscribed", "cancelled"}]
  /\ since \in [Listeners -> 0 .. MaxMsgs]
  /\ cleared \in BOOLEAN

(* A channel is sent to and closed only while it is registered and open,   *)
(* whatever order cancel and the end of the source come in: neither a send *)
(* on a closed channel nor a second close, which would be panics.          *)
RegisteredAreOpen ==
  /\ IsInjective(listeners)
  /\ \A l \in Range(listeners) : ~closed[l] /\ state[l] = "subscribed"

(* And nobody else is registered or forgotten: a subscriber that has not   *)
(* cancelled is still offered every message, until the source ends.        *)
NobodyForgotten ==
  \A l \in Listeners :
    state[l] = "subscribed" /\ ~cleared => l \in Range(listeners)

(* What a listener gets is in the order of the source, without repetition, *)
(* and nothing that the goroutine was through with when it subscribed.     *)
Got(l) == received[l] \o buffer[l]

InOrder ==
  \A l \in Listeners :
    /\ \A i \in 1 .. Len(Got(l)) : Got(l)[i] > since[l]
    /\ \A i \in 1 .. Len(Got(l)) - 1 : Got(l)[i] < Got(l)[i + 1]

(* When the source is closed, the listeners that subscribed before the     *)
(* goroutine has noticed see their channel closed: it is never held up by  *)
(* a listener that does not read.                                          *)
ListenersClosed ==
  \A l \in Listeners :
    (sourceClosed /\ ~cleared /\ l \in Range(listeners)) ~> closed[l]

=============================================================================
