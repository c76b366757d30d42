--------------------------- MODULE BroadcastProofs ---------------------------
(* Theorems about Broadcast, for any listeners, capacity and messages. *)
EXTENDS Broadcast, TLAPS

USE BroadcastAssumption

(* A swap-remove takes one element away and leaves the others, once each. *)
LEMMA SwapRemoves ==
  ASSUME NEW S, NEW s \in Seq(S), IsInjective(s), NEW i \in 1 .. Len(s)
  PROVE  /\ SwapRemove(s, i) \in Seq(S)
         /\ IsInjective(SwapRemove(s, i))
         /\ Range(SwapRemove(s, i)) = Range(s) \ {s[i]}
  <1> DEFINE n == Len(s)
             t == SwapRemove(s, i)
  <1>1. n \in Nat /\ n - 1 \in Nat /\ DOMAIN s = 1 .. n /\ n \in 1 .. n
        /\ i \in 1 .. n
    OBVIOUS
  <1> HIDE DEF n, t
  <1>2. DOMAIN t = 1 .. n - 1
    BY <1>1 DEF SwapRemove, n, t
  <1>3. \A j \in 1 .. n - 1 : t[j] = IF j = i THEN s[n] ELSE s[j]
    BY <1>1 DEF SwapRemove, n, t
  <1>4. t \in Seq(S)
    BY <1>1 DEF SwapRemove, n, t
  <1>5. IsInjective(t)
    <2> SUFFICES ASSUME NEW a \in 1 .. n - 1, NEW b \in 1 .. n - 1,
                        t[a] = t[b]
                 PROVE  a = b
      BY <1>2 DEF IsInjective
    <2>1. a \in 1 .. n /\ b \in 1 .. n /\ a # n /\ b # n
      BY <1>1
    <2>2. \A x, y \in 1 .. n : s[x] = s[y] => x = y
      BY <1>1 DEF IsInjective
    <2>3. CASE t[a] = s[a] /\ t[b] = s[b]
      BY <2>1, <2>2, <2>3
    <2>4. CASE a = i
      <3>1. t[a] = s[n]  BY <1>3, <2>4
      <3>2. CASE b # i
        <4>1. s[n] = s[b]  BY <1>3, <3>1, <3>2
        <4> QED  BY <1>1, <2>1, <2>2, <4>1
      <3> QED  BY <2>4, <3>2
    <2>5. CASE b = i
      <3>1. t[b] = s[n]  BY <1>3, <2>5
      <3>2. CASE a # i
        <4>1. s[n] = s[a]  BY <1>3, <3>1, <3>2
        <4> QED  BY <1>1, <2>1, <2>2, <4>1
      <3> QED  BY <2>5, <3>2
    <2> QED  BY <1>3, <2>3, <2>4, <2>5
  <1>6. Range(t) = Range(s) \ {s[i]}
    <2>1. \A x, y \in 1 .. n : s[x] = s[y] => x = y
      BY <1>1 DEF IsInjective
    <2>2. ASSUME NEW j \in 1 .. n - 1
          PROVE  t[j] \in Range(s) \ {s[i]}
      <3>1. j \in 1 .. n /\ j # n  BY <1>1
      <3>2. CASE j = i
        <4>1. t[j] = s[n]  BY <1>3, <3>2
        <4>2. s[n] # s[i]  BY <1>1, <2>1, <3>1, <3>2
        <4> QED  BY <1>1, <3>1, <4>1, <4>2 DEF Range
      <3>3. CASE j # i
        <4>1. t[j] = s[j]  BY <1>3, <3>3
        <4>2. s[j] # s[i]  BY <1>1, <2>1, <3>1, <3>3
        <4> QED  BY <1>1, <3>1, <4>1, <4>2 DEF Range
      <3> QED  BY <3>2, <3>3
    <2>3. ASSUME NEW x \in 1 .. n, s[x] # s[i]
          PROVE  \E j \in 1 .. n - 1 : t[j] = s[x]
      <3>1. CASE x = n
        <4>1. i \in 1 .. n - 1  BY <1>1, <2>3, <3>1
        <4> QED  BY <1>3, <3>1, <4>1
      <3>2. CASE x # n
        <4>1. x \in 1 .. n - 1 /\ x # i  BY <1>1, <2>3, <3>2
        <4> QED  BY <1>3, <4>1
      <3> QED  BY <3>1, <3>2
    <2>4. Range(t) = {t[j] : j \in 1 .. n - 1} /\ Range(s) = {s[x] : x \in 1 .. n}
      BY <1>1, <1>2 DEF Range
    <2>5. Range(t) \subseteq Range(s) \ {s[i]}
      BY <2>2, <2>4
    <2>6. Range(s) \ {s[i]} \subseteq Range(t)
      BY <2>3, <2>4
    <2> QED  BY <2>5, <2>6
  <1> QED  BY <1>4, <1>5, <1>6 DEF t

(* An element that is not in a sequence can be appended. *)
LEMMA AppendNew ==
  ASSUME NEW S, NEW s \in Seq(S), IsInjective(s), NEW e \in S,
         e \notin Range(s)
  PROVE  /\ IsInjective(Append(s, e))
         /\ Range(Append(s, e)) = Range(s) \cup {e}
  <1> DEFINE n == Len(s)
  <1> SUFFICES ASSUME NEW t, t = Append(s, e)
               PROVE  IsInjective(t) /\ Range(t) = Range(s) \cup {e}
    OBVIOUS
  <1>1. n \in Nat /\ DOMAIN s = 1 .. n /\ DOMAIN t = 1 .. n + 1
    OBVIOUS
  <1>2. t[n + 1] = e /\ \A j \in 1 .. n : t[j] = s[j]
    OBVIOUS
  <1>3. \A j \in 1 .. n : s[j] # e
    BY <1>1 DEF Range
  <1>4. \A x, y \in 1 .. n : s[x] = s[y] => x = y
    BY <1>1 DEF IsInjective
  <1> HIDE DEF n
  <1>5. \A j \in 1 .. n + 1 : j \in 1 .. n \/ j = n + 1
    BY <1>1
  <1>6. IsInjective(t)
    BY <1>1, <1>2, <1>3, <1>4, <1>5 DEF IsInjective
  <1>7. Range(t) = Range(s) \cup {e}
    <2>1. Range(t) = {t[j] : j \in 1 .. n + 1} /\ Range(s) = {s[x] : x \in 1 .. n}
      BY <1>1 DEF Range
    <2>2. Range(t) \subseteq Range(s) \cup {e}
      BY <1>2, <1>5, <2>1
    <2>3. n + 1 \in 1 .. n + 1 /\ \A j \in 1 .. n : j \in 1 .. n + 1
      BY <1>1
    <2>4. Range(s) \cup {e} \subseteq Range(t)
      BY <1>2, <2>1, <2>3
    <2> QED  BY <2>2, <2>4
  <1> QED  BY <1>6, <1>7

-----------------------------------------------------------------------------
(* The inductive invariant *)

(* Only a channel that has been handed out is closed, and clear is the     *)
(* goroutine's end.                                                        *)
ClosedInv ==
  /\ \A l \in Listeners : closed[l] => state[l] # "new"
  /\ cleared = (pc = "done")

(* What the listeners in set L hold is older than m, as is their           *)
(* subscription.                                                           *)
OlderThan(L, m) ==
  \A l \in L :
    /\ since[l] < m
    /\ \A i \in 1 .. Len(Got(l)) : Got(l)[i] < m

(* msg is the latest message that was taken, and new to those it is still *)
(* offered to.                                                            *)
OfferInv ==
  /\ OlderThan(Listeners, msg + 1)
  /\ pc = "lock" => OlderThan(Listeners, msg)
  /\ Locked => OlderThan({listeners[j] : j \in next .. Len(listeners)}, msg)
  /\ \A l \in Listeners : state[l] = "new" => Got(l) = << >>

MembersInv == ClosedInv /\ RegisteredAreOpen /\ NobodyForgotten

IInv == TypeOK /\ MembersInv /\ OfferInv /\ InOrder

-----------------------------------------------------------------------------
(* Types *)

LEMMA InitTypes == Init => TypeOK
  <1> SUFFICES ASSUME Init PROVE TypeOK  OBVIOUS
  <1>1. << >> \in Seq(Listeners) /\ << >> \in Seq(1 .. MaxMsgs)
    OBVIOUS
  <1>2. sourceClosed \in BOOLEAN /\ cleared \in BOOLEAN
    BY DEF Init
  <1>3. closed \in [Listeners -> BOOLEAN]
    BY DEF Init
  <1>4. /\ received \in [Listeners -> Seq(1 .. MaxMsgs)]
        /\ buffer \in [Listeners -> Seq(1 .. MaxMsgs)]
        /\ \A l \in Listeners : Len(buffer[l]) <= Capacity
    BY <1>1 DEF Init
  <1>5. /\ sent \in 0 .. MaxMsgs /\ msg \in 0 .. MaxMsgs
        /\ next \in Nat /\ pc = "range"
        /\ state \in [Listeners -> {"new", "subscribed", "cancelled"}]
        /\ since \in [Listeners -> 0 .. MaxMsgs]
        /\ listeners \in Seq(Listeners)
    BY <1>1 DEF Init
  <1> QED  BY <1>2, <1>3, <1>4, <1>5 DEF TypeOK, Locked

(* What cancelling a registered listener does. *)
LEMMA CancelRemoves ==
  ASSUME TypeOK, NEW l \in Listeners, Cancel(l), l \in Range(listeners)
  PROVE  \E i \in 1 .. Len(listeners) :
           /\ listeners[i] = l
           /\ listeners' = SwapRemove(listeners, i)
           /\ closed' = [closed EXCEPT ![l] = TRUE]
  <1>1. DOMAIN listeners = 1 .. Len(listeners)  BY DEF TypeOK
  <1>2. \E i \in 1 .. Len(listeners) : listeners[i] = l
    BY <1>1 DEF Range
  <1>3. PICK i \in 1 .. Len(listeners) :
          i = CHOOSE j \in 1 .. Len(listeners) : listeners[j] = l
    BY <1>2
  <1>4. listeners[i] = l  BY <1>2, <1>3
  <1>5. /\ listeners' = SwapRemove(listeners, i)
        /\ closed' = [closed EXCEPT ![l] = TRUE]
    BY <1>3 DEF Cancel
  <1> QED  BY <1>4, <1>5

LEMMA TypeStep ==
  ASSUME TypeOK, MembersInv, OfferInv, [Next]_vars PROVE TypeOK'
  <1> USE DEF TypeOK, Locked, sourceVars, channelVars, clientVars
  <1>1. ASSUME Send PROVE TypeOK'
    <2>1. sent + 1 \in 0 .. MaxMsgs  BY <1>1 DEF Send
    <2> QED  BY <1>1, <2>1 DEF Send
  <1>t. ASSUME Take PROVE TypeOK'
    <2>1. msg + 1 \in 0 .. MaxMsgs  BY <1>t DEF Take
    <2> QED  BY <1>t, <2>1 DEF Take
  <1>2. ASSUME CloseSource PROVE TypeOK'
    <2>1. sourceClosed' \in BOOLEAN  BY <1>2 DEF CloseSource
    <2> QED  BY <1>2, <2>1 DEF CloseSource
  <1>3. ASSUME Lock PROVE TypeOK'
    <2>1. next' = 1 /\ 1 \in 1 .. Len(listeners) + 1  BY <1>3 DEF Lock
    <2> QED  BY <1>3, <2>1 DEF Lock
  <1>4. ASSUME Offer PROVE TypeOK'
    <2> DEFINE l == listeners[next]
    <2>1. next \in 1 .. Len(listeners) /\ l \in Listeners
      BY <1>4 DEF Offer
    <2>2. l \in {listeners[j] : j \in next .. Len(listeners)}
      <3>1. next \in next .. Len(listeners)  BY <2>1
      <3> QED  BY <3>1
    <2>3. since[l] < msg
      BY <1>4, <2>2 DEF Offer, OfferInv, OlderThan
    <2>4. msg \in 1 .. MaxMsgs
      BY <2>1, <2>3
    <2>5. next' \in Nat /\ next' \in 1 .. Len(listeners) + 1
      BY <1>4, <2>1 DEF Offer
    <2>6. Append(buffer[l], msg) \in Seq(1 .. MaxMsgs)
      BY <2>1, <2>4
    <2>7. buffer' \in [Listeners -> Seq(1 .. MaxMsgs)]
      BY <1>4, <2>1, <2>6 DEF Offer
    <2>8. ASSUME NEW k \in Listeners PROVE Len(buffer'[k]) <= Capacity
      <3>1. \/ buffer'[k] = buffer[k]
            \/ /\ Len(buffer[k]) < Capacity
               /\ buffer'[k] = Append(buffer[k], msg)
        BY <1>4, <2>1 DEF Offer
      <3>2. Len(Append(buffer[k], msg)) = Len(buffer[k]) + 1
        BY <2>4
      <3> QED  BY <3>1, <3>2
    <2> QED  BY <1>4, <2>5, <2>7, <2>8 DEF Offer
  <1>5. ASSUME Unlock PROVE TypeOK'  BY <1>5 DEF Unlock
  <1>6. ASSUME RangeEnds PROVE TypeOK'  BY <1>6 DEF RangeEnds
  <1>7. ASSUME Clear PROVE TypeOK'
    <2>1. cleared' \in BOOLEAN  BY <1>7 DEF Clear
    <2>2. closed' \in [Listeners -> BOOLEAN]  BY <1>7 DEF Clear
    <2> QED  BY <1>7, <2>1, <2>2 DEF Clear
  <1>8. ASSUME NEW l \in Listeners, Subscribe(l) PROVE TypeOK'
    <2>1. listeners' \in Seq(Listeners)  BY <1>8 DEF Subscribe
    <2>2. pc = "lock" => msg - 1 \in 0 .. MaxMsgs
      BY DEF OfferInv, OlderThan
    <2>3. since' \in [Listeners -> 0 .. MaxMsgs]
      <3>1. CASE pc = "lock"
        BY <1>8, <2>2, <3>1 DEF Subscribe
      <3>2. CASE pc # "lock"
        BY <1>8, <3>2 DEF Subscribe
      <3> QED  BY <3>1, <3>2
    <2> QED  BY <1>8, <2>1, <2>3 DEF Subscribe
  <1>9. ASSUME NEW l \in Listeners, Receive(l) PROVE TypeOK'
    <2> DEFINE b == buffer[l]
    <2>1. b \in Seq(1 .. MaxMsgs) /\ b # << >> /\ Len(b) <= Capacity
      BY <1>9 DEF Receive
    <2>2. Head(b) \in 1 .. MaxMsgs /\ Tail(b) \in Seq(1 .. MaxMsgs)
          /\ Len(Tail(b)) <= Capacity
      BY <2>1
    <2>3. received' \in [Listeners -> Seq(1 .. MaxMsgs)]
      <3>1. Append(received[l], Head(b)) \in Seq(1 .. MaxMsgs)
        BY <2>2
      <3> QED  BY <1>9, <3>1 DEF Receive
    <2>4. buffer' \in [Listeners -> Seq(1 .. MaxMsgs)]
      BY <1>9, <2>2 DEF Receive
    <2>5. \A k \in Listeners : Len(buffer'[k]) <= Capacity
      BY <1>9, <2>2 DEF Receive
    <2> QED  BY <1>9, <2>3, <2>4, <2>5 DEF Receive
  <1>10. ASSUME NEW l \in Listeners, Cancel(l) PROVE TypeOK'
    <2>1. state' \in [Listeners -> {"new", "subscribed", "cancelled"}]
      BY <1>10 DEF Cancel
    <2>2. CASE l \in Range(listeners)
      <3>1. PICK i \in 1 .. Len(listeners) :
              /\ listeners' = SwapRemove(listeners, i)
              /\ closed' = [closed EXCEPT ![l] = TRUE]
        BY <1>10, <2>2, CancelRemoves
      <3>2. listeners' \in Seq(Listeners)
        BY <3>1, SwapRemoves DEF MembersInv, RegisteredAreOpen
      <3>3. closed' \in [Listeners -> BOOLEAN]  BY <3>1
      <3> QED  BY <1>10, <2>1, <3>2, <3>3 DEF Cancel
    <2>3. CASE l \notin Range(listeners)
      BY <1>10, <2>1, <2>3 DEF Cancel
    <2> QED  BY <2>2, <2>3
  <1>11. CASE UNCHANGED vars  BY <1>11 DEF vars
  <1> QED
    BY <1>1, <1>t, <1>2, <1>3, <1>4, <1>5, <1>6, <1>7, <1>8, <1>9, <1>10, <1>11
    DEF Next, Goroutine

-----------------------------------------------------------------------------
(* Who is registered *)

LEMMA InitMembers == Init => MembersInv
  <1> SUFFICES ASSUME Init PROVE MembersInv  OBVIOUS
  <1>1. Range(listeners) = {} /\ IsInjective(listeners)
    BY DEF Init, Range, IsInjective
  <1>2. \A l \in Listeners : closed[l] = FALSE /\ state[l] = "new"
    BY DEF Init
  <1>3. cleared = FALSE /\ pc = "range"  BY DEF Init
  <1> QED
    BY <1>1, <1>2, <1>3
    DEF MembersInv, ClosedInv, RegisteredAreOpen, NobodyForgotten

LEMMA MembersStep ==
  ASSUME TypeOK, TypeOK', MembersInv, [Next]_vars PROVE MembersInv'
  <1> USE DEF MembersInv, ClosedInv, RegisteredAreOpen, NobodyForgotten,
              sourceVars, channelVars, clientVars
  <1>1. ASSUME Send \/ CloseSource \/ Take \/ Lock \/ Offer \/ Unlock \/ RangeEnds
        PROVE  MembersInv'
    <2>1. UNCHANGED <<listeners, closed, state, cleared>>
      BY <1>1 DEF Send, CloseSource, Take, Lock, Offer, Unlock, RangeEnds
    <2>2. (pc # "done" /\ pc' # "done") \/ pc' = pc
      BY <1>1
      DEF Send, CloseSource, Take, Lock, Offer, Unlock, RangeEnds, Locked
    <2> QED  BY <2>1, <2>2
  <1>2. ASSUME Clear PROVE MembersInv'
    <2>1. Range(listeners') = {} /\ IsInjective(listeners')
      BY <1>2 DEF Clear, Range, IsInjective
    <2>2. cleared' = TRUE /\ pc' = "done" /\ UNCHANGED state
      BY <1>2 DEF Clear
    <2>3. \A l \in Listeners :
            closed'[l] = TRUE => closed[l] = TRUE \/ l \in Range(listeners)
      BY <1>2 DEF Clear
    <2>4. Range(listeners) \subseteq Listeners
      BY DEF TypeOK, Range
    <2>5. \A l \in Listeners : closed'[l] => state[l] # "new"
      BY <2>3, <2>4 DEF TypeOK
    <2> QED  BY <2>1, <2>2, <2>5
  <1>3. ASSUME NEW l \in Listeners, Subscribe(l) PROVE MembersInv'
    <2>1. /\ listeners' = Append(listeners, l)
          /\ state' = [state EXCEPT ![l] = "subscribed"]
          /\ state[l] = "new"
          /\ UNCHANGED <<pc, closed, cleared>>
      BY <1>3 DEF Subscribe
    <2>2. l \notin Range(listeners) /\ closed[l] = FALSE
      BY <2>1 DEF TypeOK
    <2>3. /\ Range(listeners') = Range(listeners) \cup {l}
          /\ IsInjective(listeners')
      <3>1. /\ listeners \in Seq(Listeners) /\ IsInjective(listeners)
            /\ l \in Listeners /\ l \notin Range(listeners)
        BY <2>2 DEF TypeOK
      <3>2. /\ IsInjective(Append(listeners, l))
            /\ Range(Append(listeners, l)) = Range(listeners) \cup {l}
        BY ONLY <3>1, AppendNew
      <3> QED  BY <2>1, <3>2, Zenon
    <2>4. \A k \in Listeners \ {l} : state'[k] = state[k]
      BY <2>1 DEF TypeOK
    <2>5. state'[l] = "subscribed"  BY <2>1 DEF TypeOK
    <2>6. Range(listeners) \subseteq Listeners \ {l}
      BY <2>2 DEF TypeOK, Range
    <2> QED  BY <2>1, <2>2, <2>3, <2>4, <2>5, <2>6
  <1>4. ASSUME NEW l \in Listeners, Receive(l) PROVE MembersInv'
    BY <1>4 DEF Receive
  <1>5. ASSUME NEW l \in Listeners, Cancel(l) PROVE MembersInv'
    <2>1. /\ state[l] # "new"
          /\ state' = [state EXCEPT ![l] = "cancelled"]
          /\ UNCHANGED <<pc, cleared>>
      BY <1>5 DEF Cancel
    <2>2. /\ \A k \in Listeners \ {l} : state'[k] = state[k]
          /\ state'[l] = "cancelled"
      BY <2>1 DEF TypeOK
    <2>3. Range(listeners) \subseteq Listeners  BY DEF TypeOK, Range
    <2>4. CASE l \in Range(listeners)
      <3>1. PICK i \in 1 .. Len(listeners) :
              /\ listeners[i] = l
              /\ listeners' = SwapRemove(listeners, i)
              /\ closed' = [closed EXCEPT ![l] = TRUE]
        BY <1>5, <2>4, CancelRemoves
      <3>2. listeners \in Seq(Listeners)  BY DEF TypeOK
      <3>3. /\ IsInjective(listeners')
            /\ Range(listeners') = Range(listeners) \ {l}
        BY <3>1, <3>2, SwapRemoves
      <3>4. \A k \in Listeners \ {l} : closed'[k] = closed[k]
        BY <3>1 DEF TypeOK
      <3> QED  BY <2>1, <2>2, <2>3, <3>3, <3>4
    <2>5. CASE l \notin Range(listeners)
      <3>1. UNCHANGED <<listeners, closed>>  BY <1>5, <2>5 DEF Cancel
      <3> QED  BY <2>1, <2>2, <2>3, <2>5, <3>1
    <2> QED  BY <2>4, <2>5
  <1>6. CASE UNCHANGED vars  BY <1>6 DEF vars
  <1> QED
    BY <1>1, <1>2, <1>3, <1>4, <1>5, <1>6 DEF Next, Goroutine

-----------------------------------------------------------------------------
(* What has been offered *)

LEMMA AppendToRight ==
  ASSUME NEW S, NEW r \in Seq(S), NEW b \in Seq(S), NEW e \in S
  PROVE  r \o Append(b, e) = Append(r \o b, e)
  OBVIOUS

LEMMA MoveHead ==
  ASSUME NEW S, NEW r \in Seq(S), NEW b \in Seq(S), b # << >>
  PROVE  Append(r, Head(b)) \o Tail(b) = r \o b
  OBVIOUS

LEMMA InitOffers == Init => OfferInv /\ InOrder
  <1> SUFFICES ASSUME Init PROVE OfferInv /\ InOrder  OBVIOUS
  <1>1. \A l \in Listeners : Got(l) = << >> /\ since[l] = 0
    BY DEF Init, Got
  <1>2. msg = 0 /\ pc = "range"  BY DEF Init
  <1> QED  BY <1>1, <1>2 DEF OfferInv, OlderThan, InOrder, Locked

(* A step after which every listener has got what it had got before. *)
LEMMA SameGot ==
  ASSUME TypeOK, InOrder, UNCHANGED since,
         \A l \in Listeners : Got(l)' = Got(l)
  PROVE  /\ InOrder'
         /\ \A L \in SUBSET Listeners, m \in Nat :
              OlderThan(L, m) => OlderThan(L, m)'
  BY DEF InOrder, OlderThan

LEMMA OffersStep ==
  ASSUME TypeOK, TypeOK', MembersInv, OfferInv, InOrder, [Next]_vars
  PROVE  OfferInv' /\ InOrder'
  <1> USE DEF Locked, sourceVars, channelVars, clientVars
  <1>a. msg \in Nat /\ msg' \in Nat /\ next \in Nat /\ Listeners \in SUBSET Listeners
        /\ \A l \in Listeners : since[l] \in Nat /\ Got(l) \in Seq(Nat)
    <2>1. msg \in Nat /\ msg' \in Nat /\ next \in Nat
      BY DEF TypeOK
    <2>2. ASSUME NEW l \in Listeners
          PROVE  since[l] \in Nat /\ Got(l) \in Seq(Nat)
      <3>1. /\ since[l] \in Nat
            /\ received[l] \in Seq(1 .. MaxMsgs)
            /\ buffer[l] \in Seq(1 .. MaxMsgs)
        BY DEF TypeOK
      <3>2. received[l] \o buffer[l] \in Seq(Nat)
        BY <3>1
      <3> QED  BY <3>1, <3>2 DEF Got
    <2> QED  BY <2>1, <2>2
  <1>b. /\ OlderThan(Listeners, msg + 1)
        /\ pc = "lock" => OlderThan(Listeners, msg)
        /\ Locked =>
             OlderThan({listeners[j] : j \in next .. Len(listeners)}, msg)
        /\ \A l \in Listeners : state[l] = "new" => Got(l) = << >>
    BY DEF OfferInv
  <1>1. ASSUME Take PROVE OfferInv' /\ InOrder'
    <2>1. UNCHANGED <<since, state>> /\ \A l \in Listeners : Got(l)' = Got(l)
      BY <1>1 DEF Take, Got
    <2>2. InOrder'
      BY <2>1, SameGot
    <2>3. msg' = msg + 1 /\ pc' = "lock"
      BY <1>1 DEF Take
    <2>4. OlderThan(Listeners, msg)' /\ OlderThan(Listeners, msg + 1)'
      BY <1>a, <1>b, <2>1, <2>3 DEF OlderThan
    <2> QED  BY <1>b, <2>1, <2>2, <2>3, <2>4 DEF OfferInv
  <1>2. ASSUME UNCHANGED <<since, state, msg>>,
               \A l \in Listeners : Got(l)' = Got(l),
               pc' = "lock" => pc = "lock",
               Locked' =>
                 OlderThan({listeners'[j] : j \in next' .. Len(listeners')}, msg)
        PROVE  OfferInv' /\ InOrder'
    <2>1. InOrder'
      BY <1>2, SameGot
    <2>2. OlderThan(Listeners, msg + 1)' /\ (pc' = "lock" => OlderThan(Listeners, msg)')
      BY <1>b, <1>2 DEF OlderThan
    <2>3. Locked' =>
            OlderThan({listeners[j] : j \in next .. Len(listeners)}, msg)'
      <3>1. SUFFICES ASSUME Locked'
                     PROVE  OlderThan({listeners[j] :
                                         j \in next .. Len(listeners)}, msg)'
        OBVIOUS
      <3>2. \A j \in next' .. Len(listeners') : listeners'[j] \in Listeners
        <4>1. /\ listeners' \in Seq(Listeners)
              /\ next' \in 1 .. Len(listeners') + 1
          BY <3>1 DEF TypeOK
        <4> QED  BY ONLY <4>1
      <3> QED  BY <1>2, <3>1, <3>2 DEF OlderThan
    <2> QED  BY <1>b, <1>2, <2>1, <2>2, <2>3 DEF OfferInv
  <1>3. ASSUME Send \/ CloseSource \/ Lock \/ Unlock \/ RangeEnds \/ Clear
        PROVE  OfferInv' /\ InOrder'
    <2>1. UNCHANGED <<since, state, msg, received, buffer>>
      BY <1>3 DEF Send, CloseSource, Lock, Unlock, RangeEnds, Clear
    <2>2. \A l \in Listeners : Got(l)' = Got(l)
      BY <2>1 DEF Got
    <2>3. pc' = "lock" => pc = "lock"
      BY <1>3 DEF Send, CloseSource, Lock, Unlock, RangeEnds, Clear
    <2>4. Locked' =>
            OlderThan({listeners'[j] : j \in next' .. Len(listeners')}, msg)
      <3>1. CASE Send \/ CloseSource
        BY <1>b, <3>1 DEF Send, CloseSource
      <3>2. CASE Lock
        <4>1. \A j \in next' .. Len(listeners') : listeners'[j] \in Listeners
          BY <3>2 DEF Lock, TypeOK
        <4> QED  BY <1>b, <3>2, <4>1 DEF Lock, OlderThan
      <3>3. CASE Unlock \/ RangeEnds \/ Clear
        BY <3>3 DEF Unlock, RangeEnds, Clear
      <3> QED  BY <1>3, <3>1, <3>2, <3>3
    <2> QED  BY <1>2, <2>1, <2>2, <2>3, <2>4
  <1>4. ASSUME NEW l \in Listeners, Receive(l) PROVE OfferInv' /\ InOrder'
    <2>1. \A k \in Listeners : Got(k)' = Got(k)
      <3>1. Append(received[l], Head(buffer[l])) \o Tail(buffer[l])
              = received[l] \o buffer[l]
        <4>1. received[l] \in Seq(1 .. MaxMsgs) /\ buffer[l] \in Seq(1 .. MaxMsgs)
              /\ buffer[l] # << >>
          BY <1>4 DEF Receive, TypeOK
        <4> QED  BY <4>1, MoveHead
      <3>2. /\ received'[l] = Append(received[l], Head(buffer[l]))
            /\ buffer'[l] = Tail(buffer[l])
            /\ \A k \in Listeners \ {l} :
                 received'[k] = received[k] /\ buffer'[k] = buffer[k]
        BY <1>4 DEF Receive, TypeOK
      <3>3. Got(l)' = Got(l)  BY <3>1, <3>2 DEF Got
      <3> QED  BY <3>2, <3>3 DEF Got
    <2>2. UNCHANGED <<since, state, msg, pc, next, listeners>>
      BY <1>4 DEF Receive
    <2> QED  BY <1>b, <1>2, <2>1, <2>2
  <1>5. ASSUME NEW l \in Listeners, Cancel(l) PROVE OfferInv' /\ InOrder'
    <2>1. UNCHANGED <<since, msg, pc>> /\ ~Locked
          /\ \A k \in Listeners : Got(k)' = Got(k)
      BY <1>5 DEF Cancel, Got
    <2>2. \A k \in Listeners : state'[k] = "new" => state[k] = "new"
      BY <1>5 DEF Cancel, TypeOK
    <2>3. InOrder'  BY <2>1, SameGot
    <2>4. OlderThan(Listeners, msg + 1)' /\ (pc' = "lock" => OlderThan(Listeners, msg)')
      BY <1>b, <2>1 DEF OlderThan
    <2> QED  BY <1>b, <2>1, <2>2, <2>3, <2>4 DEF OfferInv
  <1>6. ASSUME NEW l \in Listeners, Subscribe(l) PROVE OfferInv' /\ InOrder'
    <2>1. UNCHANGED <<msg, pc>> /\ ~Locked /\ state[l] = "new"
          /\ \A k \in Listeners : Got(k)' = Got(k)
      BY <1>6 DEF Subscribe, Got
    <2>2. \A k \in Listeners : state'[k] = "new" => state[k] = "new"
      BY <1>6 DEF Subscribe, TypeOK
    <2>3. since'[l] = IF pc = "lock" THEN msg - 1 ELSE msg
      BY <1>6 DEF Subscribe, TypeOK
    <2>4. \A k \in Listeners \ {l} : since'[k] = since[k]
      BY <1>6 DEF Subscribe, TypeOK
    <2>5. Got(l) = << >> /\ Got(l)' = << >>
      BY <1>b, <2>1
    <2>6. InOrder'
      BY <2>1, <2>4, <2>5 DEF InOrder
    <2>7. OlderThan(Listeners, msg + 1)'
      BY <1>a, <1>b, <2>1, <2>3, <2>4, <2>5 DEF OlderThan
    <2>8. pc' = "lock" => OlderThan(Listeners, msg)'
      BY <1>a, <1>b, <2>1, <2>3, <2>4, <2>5 DEF OlderThan
    <2> QED  BY <1>b, <2>1, <2>2, <2>6, <2>7, <2>8 DEF OfferInv
  <1>7. ASSUME Offer PROVE OfferInv' /\ InOrder'
    <2>1. next \in 1 .. Len(listeners) /\ listeners[next] \in Listeners
      BY <1>7 DEF Offer, TypeOK
    <2>l. PICK l \in Listeners : l = listeners[next]
      BY <2>1
    <2>2. UNCHANGED <<msg, pc, since, state, listeners, received>>
          /\ next' = next + 1 /\ pc = "loop"
      BY <1>7 DEF Offer
    <2>3. \A k \in Listeners \ {l} : Got(k)' = Got(k)
      BY <1>7, <2>1, <2>l DEF Offer, Got, TypeOK
    <2>4. Got(l)' = Got(l) \/ Got(l)' = Append(Got(l), msg)
      <3>1. \/ buffer'[l] = buffer[l]
            \/ buffer'[l] = Append(buffer[l], msg)
        BY <1>7, <2>1, <2>l DEF Offer, TypeOK
      <3>2. received[l] \in Seq(Nat) /\ buffer[l] \in Seq(Nat)
        BY DEF TypeOK
      <3>3. received[l] \o Append(buffer[l], msg)
              = Append(received[l] \o buffer[l], msg)
        <4>1. \A r, b \in Seq(Nat), e \in Nat :
                r \o Append(b, e) = Append(r \o b, e)
          BY AppendToRight
        <4> QED  BY <1>a, <3>2, <4>1, Zenon
      <3> QED  BY <2>2, <3>1, <3>3 DEF Got
    <2>5. since[l] < msg /\ \A i \in 1 .. Len(Got(l)) : Got(l)[i] < msg
      <3>1. next \in next .. Len(listeners)  BY <2>1
      <3> QED  BY <1>b, <2>2, <2>l, <3>1 DEF OlderThan
    <2>6. ASSUME Got(l)' = Append(Got(l), msg)
          PROVE  /\ \A i \in 1 .. Len(Got(l)') :
                      since[l] < Got(l)'[i] /\ Got(l)'[i] < msg + 1
                 /\ \A i \in 1 .. Len(Got(l)') - 1 : Got(l)'[i] < Got(l)'[i + 1]
      <3> DEFINE g == Got(l)
                 h == Append(g, msg)
                 n == Len(g)
      <3>1. g \in Seq(Nat) /\ n \in Nat /\ since[l] \in Nat
        BY <1>a, <2>1
      <3>2. Len(h) = n + 1 /\ h[n + 1] = msg /\ \A i \in 1 .. n : h[i] = g[i]
        BY <1>a, <3>1
      <3>3. /\ \A i \in 1 .. n : g[i] > since[l] /\ g[i] \in Nat
            /\ \A i \in 1 .. n - 1 : g[i] < g[i + 1]
        BY <2>1, <3>1 DEF InOrder
      <3>4. /\ \A i \in 1 .. n : g[i] < msg
            /\ since[l] < msg
        BY <2>5
      <3> HIDE DEF g, n
      <3>5. ASSUME NEW i \in 1 .. n + 1
            PROVE  since[l] < h[i] /\ h[i] < msg + 1
        <4>1. CASE i = n + 1  BY <1>a, <3>1, <3>2, <3>4, <4>1
        <4>2. CASE i # n + 1
          <5>1. i \in 1 .. n  BY <3>1, <4>2
          <5> QED  BY <1>a, <3>1, <3>2, <3>3, <3>4, <5>1
        <4> QED  BY <4>1, <4>2
      <3>6. ASSUME NEW i \in 1 .. n
            PROVE  h[i] < h[i + 1]
        <4>1. CASE i = n  BY <3>1, <3>2, <3>4, <4>1
        <4>2. CASE i # n
          <5>1. i \in 1 .. n - 1 /\ i + 1 \in 1 .. n  BY <3>1, <4>2
          <5> QED  BY <3>2, <3>3, <5>1
        <4> QED  BY <4>1, <4>2
      <3>7. Got(l)' = h  BY <2>6 DEF g
      <3>8. Len(h) - 1 = n  BY <3>1, <3>2
      <3> HIDE DEF h
      <3> QED  BY <3>2, <3>5, <3>6, <3>7, <3>8
    <2>7. InOrder'
      <3> SUFFICES ASSUME NEW k \in Listeners
                   PROVE  /\ \A i \in 1 .. Len(Got(k)') : Got(k)'[i] > since[k]
                          /\ \A i \in 1 .. Len(Got(k)') - 1 :
                               Got(k)'[i] < Got(k)'[i + 1]
        BY <2>2 DEF InOrder
      <3>1. CASE Got(k)' = Got(k)  BY <3>1 DEF InOrder
      <3>2. CASE k = l /\ Got(l)' = Append(Got(l), msg)
        BY <2>1, <2>6, <3>2
      <3> QED  BY <2>3, <2>4, <3>1, <3>2
    <2>8. OlderThan(Listeners, msg + 1)'
      <3> SUFFICES ASSUME NEW k \in Listeners
                   PROVE  /\ since[k] < msg + 1
                          /\ \A i \in 1 .. Len(Got(k)') : Got(k)'[i] < msg + 1
        BY <2>2 DEF OlderThan
      <3>1. CASE Got(k)' = Got(k)  BY <1>b, <3>1 DEF OlderThan
      <3>2. CASE k = l /\ Got(l)' = Append(Got(l), msg)
        BY <1>b, <2>1, <2>6, <3>2 DEF OlderThan
      <3> QED  BY <2>3, <2>4, <3>1, <3>2
    <2>9. OlderThan({listeners[j] : j \in next .. Len(listeners)}, msg)'
      <3> SUFFICES ASSUME NEW j \in next + 1 .. Len(listeners), NEW k,
                          k = listeners[j]
                   PROVE  /\ since[k] < msg
                          /\ \A i \in 1 .. Len(Got(k)') : Got(k)'[i] < msg
        BY <2>2 DEF OlderThan
      <3>1. j \in next .. Len(listeners) /\ j \in 1 .. Len(listeners) /\ j # next
        BY <2>1
      <3>2. k \in Listeners \ {l}
        <4>1. listeners \in Seq(Listeners) /\ DOMAIN listeners = 1 .. Len(listeners)
          BY DEF TypeOK
        <4> QED
          BY <2>1, <2>l, <3>1, <4>1 DEF MembersInv, RegisteredAreOpen, IsInjective
      <3>3. Got(k)' = Got(k)  BY <2>3, <3>2
      <3> QED  BY <1>b, <2>2, <3>1, <3>3 DEF OlderThan
    <2>10. \A k \in Listeners : state'[k] = "new" => Got(k)' = << >>
      <3>1. l \in Range(listeners)
        <4>1. DOMAIN listeners = 1 .. Len(listeners)  BY DEF TypeOK
        <4> QED  BY <2>1, <2>l, <4>1 DEF Range
      <3>2. state[l] = "subscribed"
        BY <3>1 DEF MembersInv, RegisteredAreOpen
      <3> QED  BY <1>b, <2>2, <2>3, <3>2
    <2> QED  BY <1>b, <2>2, <2>7, <2>8, <2>9, <2>10 DEF OfferInv
  <1>8. CASE UNCHANGED vars
    <2>1. UNCHANGED <<since, state, msg, pc, next, listeners>>
          /\ \A l \in Listeners : Got(l)' = Got(l)
      BY <1>8 DEF vars, Got
    <2> QED  BY <1>b, <1>2, <2>1
  <1> QED
    BY <1>1, <1>3, <1>4, <1>5, <1>6, <1>7, <1>8 DEF Next, Goroutine

-----------------------------------------------------------------------------
LEMMA Invariant == Spec => []IInv
  <1>1. Init => IInv
    BY InitTypes, InitMembers, InitOffers DEF IInv
  <1>2. IInv /\ [Next]_vars => IInv'
    <2> SUFFICES ASSUME IInv, [Next]_vars PROVE IInv'  OBVIOUS
    <2>1. TypeOK'  BY TypeStep DEF IInv
    <2>2. MembersInv'  BY <2>1, MembersStep DEF IInv
    <2>3. OfferInv' /\ InOrder'  BY <2>1, OffersStep DEF IInv
    <2> QED  BY <2>1, <2>2, <2>3 DEF IInv
  <1> QED  BY <1>1, <1>2, PTL DEF Spec

(* Every variable keeps its type, and no listener's buffer its capacity    *)
(* exceeded.                                                               *)
THEOREM TypeCorrect == Spec => []TypeOK
  <1>1. IInv => TypeOK  BY DEF IInv
  <1> QED  BY <1>1, Invariant, PTL

(* The goroutine never sends on a closed channel, and no channel is closed *)
(* twice, in whatever order subscriptions, cancels and the end of the      *)
(* source come: what is registered is open, and registered once.           *)
THEOREM NoChannelPanics == Spec => []RegisteredAreOpen
  <1>1. IInv => RegisteredAreOpen  BY DEF IInv, MembersInv
  <1> QED  BY <1>1, Invariant, PTL

(* The swap-remove of one listener's cancel never takes another listener's *)
(* channel out of the list.                                                *)
THEOREM ListenersKept == Spec => []NobodyForgotten
  <1>1. IInv => NobodyForgotten  BY DEF IInv, MembersInv
  <1> QED  BY <1>1, Invariant, PTL

(* What a listener gets is a subsequence of what the goroutine offered     *)
(* after it subscribed: in order and never twice, whatever it misses.      *)
THEOREM DeliveredInOrder == Spec => []InOrder
  <1>1. IInv => InOrder  BY DEF IInv
  <1> QED  BY <1>1, Invariant, PTL
=============================================================================
