---------------------------- MODULE PollerProofs ----------------------------
(***************************************************************************)
(* What holds of Poller for any number of subscriptions and rows.  The     *)
(* inductive invariant says of a subscription where its lastCheck comes    *)
(* from, and that what is being sent is no younger than what is due later. *)
(***************************************************************************)
EXTENDS Poller, TLAPS

LEMMA TypeInit == Init => TypeOK
  BY PollerAssumption DEF Init, TypeOK, NotYet

LEMMA TypeStep == ASSUME TypeOK, [Next]_vars PROVE TypeOK'
  <1> USE PollerAssumption DEF TypeOK, NotYet, tableVars, clientVars
  <1>1. ASSUME Tick PROVE TypeOK'  BY <1>1 DEF Tick
  <1>2. ASSUME NEW r \in Rows, Create(r) PROVE TypeOK'
    BY <1>2 DEF Create
  <1>3. ASSUME NEW r \in Rows, Commit(r) PROVE TypeOK'
    BY <1>3 DEF Commit
  <1>4. ASSUME NEW c \in Clients, Subscribe(c) \/ Begin(c) PROVE TypeOK'
    <2>1. CASE Subscribe(c)  BY <2>1 DEF Subscribe
    <2>2. CASE Begin(c)
      <3>1. now \in 0 .. now  OBVIOUS
      <3> QED  BY <2>2, <3>1 DEF Begin
    <2> QED  BY <1>4, <2>1, <2>2
  <1>5. ASSUME NEW c \in Clients, Poll(c) PROVE TypeOK'
    BY <1>5 DEF Poll, Polled, GoesOn
  <1>6. ASSUME NEW c \in Clients, PollFails(c) PROVE TypeOK'
    BY <1>6 DEF PollFails
  <1>7. ASSUME NEW c \in Clients, Send(c) PROVE TypeOK'
    <2>1. PICK r \in items[c] :
            /\ ch' = [ch EXCEPT ![c] = <<r>>]
            /\ lastCheck' = [lastCheck EXCEPT ![c] = created[r]]
            /\ items' = [items EXCEPT ![c] = @ \ {r}]
            /\ pc' = [pc EXCEPT ![c] = GoesOn(items[c] \ {r})]
      BY <1>7 DEF Send
    <2>2. r \in visible /\ created[r] \in 0 .. now
      OBVIOUS
    <2>3. ch' \in [Clients -> {<< >>} \cup {<<q>> : q \in visible}]
      BY <2>1, <2>2
    <2>4. lastCheck' \in [Clients -> 0 .. now]
      BY <2>1, <2>2
    <2>5. items' \in [Clients -> SUBSET visible]
      BY <2>1
    <2>6. pc' \in [Clients -> {"new", "started", "select", "send", "over"}]
      BY <2>1 DEF GoesOn
    <2> QED  BY <1>7, <2>3, <2>4, <2>5, <2>6 DEF Send
  <1>8. ASSUME NEW c \in Clients, NoticeDone(c) PROVE TypeOK'
    BY <1>8 DEF NoticeDone
  <1>9. ASSUME NEW c \in Clients, Receive(c) PROVE TypeOK'
    <2>1. PICK r \in visible : ch[c] = <<r>>
      BY <1>9 DEF Receive
    <2>2. Head(ch[c]) = r /\ Tail(ch[c]) = << >>
      BY <2>1
    <2>3. received' \in [Clients -> SUBSET visible]
      BY <1>9, <2>2 DEF Receive
    <2>4. ch' \in [Clients -> {<< >>} \cup {<<q>> : q \in visible}]
      BY <1>9, <2>2 DEF Receive
    <2> QED  BY <1>9, <2>3, <2>4 DEF Receive
  <1>10. ASSUME NEW c \in Clients, Leave(c) PROVE TypeOK'
    BY <1>10 DEF Leave
  <1>11. ASSUME UNCHANGED vars PROVE TypeOK'
    BY <1>11 DEF vars
  <1> QED
    BY <1>1, <1>2, <1>3, <1>4, <1>5, <1>6, <1>7, <1>8, <1>9, <1>10, <1>11
    DEF Next, Goroutine

(* The variables of a poller and of the table keep their types. *)
THEOREM TypeCorrect == Spec => []TypeOK
  <1>1. TypeOK /\ [Next]_vars => TypeOK'  BY TypeStep
  <1> QED  BY TypeInit, <1>1, PTL DEF Spec

-----------------------------------------------------------------------------
(* The inductive invariant, by subscription *)

(* One that has not begun has taken nothing, one between two polls sends   *)
(* nothing.                                                                *)
Fresh(c) ==
  /\ pc[c] \in {"new", "started"} => Taken(c) = {}
  /\ pc[c] = "select" => items[c] = {}

(* lastCheck is the time of the subscription or of some visible row.       *)
Checked(c) ==
  Subscribed(c) =>
    /\ since[c] <= lastCheck[c]
    /\ \/ lastCheck[c] = since[c]
       \/ \E q \in visible : lastCheck[c] = created[q]

OldNotTaken(c) == \A r \in Taken(c) : created[r] >= since[c]

(* What is due and was not taken is younger than lastCheck, and than all   *)
(* that is still to be sent, which is going to be lastCheck.               *)
DueLater(c) ==
  Subscribed(c) =>
    \A q \in Due(c) \ Taken(c) :
      /\ created[q] >= lastCheck[c]
      /\ \A r \in items[c] : created[r] <= created[q]

ClientInv(c) == Fresh(c) /\ Checked(c) /\ OldNotTaken(c) /\ DueLater(c)

IInv == TypeOK /\ \A c \in Clients : ClientInv(c)

(* What is in a channel: at most one row *)
LEMMA InChannel ==
  ASSUME NEW V, NEW s, s \in {<< >>} \cup {<<r>> : r \in V}
  PROVE  {s[i] : i \in 1 .. Len(s)} = {r \in V : s = <<r>>}
  <1>1. CASE s = << >>
    BY <1>1
  <1>2. ASSUME NEW r \in V, s = <<r>>
        PROVE  {s[i] : i \in 1 .. Len(s)} = {q \in V : s = <<q>>}
    <2>1. Len(s) = 1 /\ s[1] = r
      BY <1>2
    <2>2. {s[i] : i \in 1 .. Len(s)} = {r}
      BY <2>1
    <2>3. \A q \in V : s = <<q>> <=> q = r
      BY <1>2
    <2> QED  BY <2>2, <2>3
  <1> QED  BY <1>1, <1>2

LEMMA TakenIs ==
  ASSUME TypeOK, NEW c \in Clients
  PROVE  Taken(c) = received[c] \cup items[c] \cup {r \in visible : ch[c] = <<r>>}
  <1>1. ch[c] \in {<< >>} \cup {<<r>> : r \in visible}
    BY DEF TypeOK
  <1> QED  BY <1>1, InChannel DEF Taken

(* A step that leaves a subscription and the table alone *)
LEMMA Frame ==
  ASSUME NEW c \in Clients, ClientInv(c),
         visible' = visible, late' = late, created' = created,
         pc'[c] = pc[c], lastCheck'[c] = lastCheck[c], since'[c] = since[c],
         items'[c] = items[c], ch'[c] = ch[c], received'[c] = received[c]
  PROVE  ClientInv(c)'
  <1>1. Taken(c)' = Taken(c)
    BY DEF Taken
  <1>2. Due(c)' = Due(c)
    BY DEF Due
  <1> QED
    BY <1>1, <1>2
    DEF ClientInv, Fresh, Checked, OldNotTaken, DueLater, Subscribed

LEMMA InvInit == Init => IInv
  <1> SUFFICES ASSUME Init, NEW c \in Clients PROVE ClientInv(c)
    BY TypeInit DEF IInv
  <1>1. pc[c] = "new" /\ items[c] = {} /\ received[c] = {} /\ ch[c] = << >>
    BY DEF Init
  <1>2. Taken(c) = {}
    BY <1>1 DEF Taken
  <1> QED
    BY <1>1, <1>2
    DEF ClientInv, Fresh, Checked, OldNotTaken, DueLater, Subscribed

LEMMA CommitInv ==
  ASSUME IInv, TypeOK', NEW r \in Rows, Commit(r), NEW c \in Clients
  PROVE  ClientInv(c)'
  <1> USE DEF IInv, ClientInv
  <1>1. UNCHANGED <<pc, lastCheck, since, items, ch, received, created>>
    BY DEF Commit, clientVars
  <1>2. Taken(c)' = Taken(c)
    BY <1>1 DEF Taken
  <1>3. Subscribed(c)' <=> Subscribed(c)
    BY <1>1 DEF Subscribed
  <1>4. visible' = visible \cup {r} /\ visible \subseteq Rows
    BY DEF Commit, TypeOK
  <1>5. Due(c)' \subseteq Due(c) \cup {r}
    BY <1>1, <1>4 DEF Due, Commit
  <1>6. r \in Due(c)' => \A q \in visible : created[q] <= created[r]
    <2> SUFFICES ASSUME r \in Due(c)', NEW q \in visible
                 PROVE  created[q] <= created[r]
      OBVIOUS
    <2>1. ~(created[r] < created[q])
      BY <1>1 DEF Due, Commit
    <2>2. created[q] \in Nat /\ created[r] \in Nat
      BY PollerAssumption, <1>4 DEF TypeOK, NotYet
    <2> QED  BY <2>1, <2>2
  <1>7. Fresh(c)'
    BY <1>1, <1>2 DEF Fresh
  <1>8. Checked(c)'
    BY <1>1, <1>3, <1>4 DEF Checked
  <1>9. OldNotTaken(c)'
    BY <1>1, <1>2 DEF OldNotTaken
  <1>10. DueLater(c)'
    <2> SUFFICES ASSUME Subscribed(c), NEW q \in Due(c)' \ Taken(c)
                 PROVE  /\ created[q] >= lastCheck[c]
                        /\ \A p \in items[c] : created[p] <= created[q]
      BY <1>1, <1>2, <1>3 DEF DueLater
    <2>1. CASE q \in Due(c)
      BY <2>1 DEF DueLater
    <2>2. CASE q = r
      <3>1. created[r] >= since[c]
        BY <1>1, <2>2 DEF Due
      <3>2. created[r] >= lastCheck[c]
        BY <1>6, <2>2, <3>1 DEF Checked
      <3>3. items[c] \subseteq visible
        BY DEF TypeOK
      <3> QED  BY <1>6, <2>2, <3>2, <3>3
    <2> QED  BY <1>5, <2>1, <2>2
  <1> QED  BY <1>7, <1>8, <1>9, <1>10

LEMMA SubscribeInv ==
  ASSUME IInv, TypeOK', NEW c \in Clients, Subscribe(c)
  PROVE  ClientInv(c)'
  <1> USE DEF IInv, ClientInv
  <1>1. pc[c] = "new" /\ pc'[c] = "started" /\ Taken(c) = {}
    BY DEF Subscribe, TypeOK, Fresh
  <1>2. Taken(c)' = {}
    BY <1>1 DEF Subscribe, Taken, clientVars
  <1> QED
    BY <1>1, <1>2
    DEF Fresh, Checked, OldNotTaken, DueLater, Subscribed

LEMMA BeginInv ==
  ASSUME IInv, TypeOK', NEW c \in Clients, Begin(c)
  PROVE  ClientInv(c)'
  <1> USE DEF IInv, ClientInv
  <1>1. Taken(c) = {}
    BY DEF Begin, Fresh
  <1>2. Taken(c)' = {} /\ items'[c] = {}
    BY <1>1 DEF Begin, Taken, clientVars
  <1>3. pc'[c] = "select" /\ lastCheck'[c] = now /\ since'[c] = now
    BY DEF Begin, TypeOK
  <1>4. now \in Nat
    BY DEF TypeOK
  <1>5. \A q \in Due(c)' : created'[q] >= lastCheck'[c]
    BY <1>3 DEF Due
  <1> QED
    BY <1>2, <1>3, <1>4, <1>5
    DEF Fresh, Checked, OldNotTaken, DueLater

LEMMA PollInv ==
  ASSUME IInv, TypeOK', NEW c \in Clients, Poll(c)
  PROVE  ClientInv(c)'
  <1> USE DEF IInv, ClientInv
  <1>1. /\ UNCHANGED <<visible, late, created, lastCheck, since, ch, received>>
        /\ items'[c] = Polled(c)
        /\ pc'[c] = GoesOn(Polled(c))
        /\ Subscribed(c) /\ items[c] = {}
    BY DEF Poll, tableVars, clientVars, TypeOK, Subscribed, Fresh
  <1>2. Taken(c)' = Taken(c) \cup Polled(c)
    BY <1>1 DEF Taken
  <1>3. Due(c)' = Due(c) /\ Due(c) \subseteq visible
    BY <1>1 DEF Due
  <1>4. Fresh(c)'
    BY <1>1 DEF Fresh, GoesOn
  <1>5. Checked(c)'
    BY <1>1 DEF Checked
  <1>6. \A r \in visible : created[r] \in Nat
    BY PollerAssumption DEF TypeOK, NotYet
  <1>7. since[c] \in Nat /\ lastCheck[c] \in Nat
    BY DEF TypeOK
  <1>8. OldNotTaken(c)'
    <2>1. \A r \in Polled(c) : created[r] >= since[c]
      BY <1>1, <1>6, <1>7 DEF Polled, Checked
    <2> QED  BY <1>1, <1>2, <2>1 DEF OldNotTaken
  <1>9. Due(c)' \ Taken(c)' = {}
    <2>1. \A q \in Due(c) \ Taken(c) : q \in Polled(c)
      BY <1>1, <1>3 DEF DueLater, Polled
    <2> QED  BY <1>2, <1>3, <2>1
  <1>10. DueLater(c)'
    BY <1>9 DEF DueLater
  <1> QED  BY <1>4, <1>5, <1>8, <1>10

LEMMA SendInv ==
  ASSUME IInv, TypeOK', NEW c \in Clients, Send(c)
  PROVE  ClientInv(c)'
  <1> USE DEF IInv, ClientInv
  <1>1. PICK r \in items[c] :
          /\ ch' = [ch EXCEPT ![c] = <<r>>]
          /\ lastCheck' = [lastCheck EXCEPT ![c] = created[r]]
          /\ items' = [items EXCEPT ![c] = @ \ {r}]
          /\ pc' = [pc EXCEPT ![c] = GoesOn(items[c] \ {r})]
    BY DEF Send
  <1>2. /\ UNCHANGED <<visible, late, created, since, received>>
        /\ ch[c] = << >> /\ ch'[c] = <<r>>
        /\ lastCheck'[c] = created[r]
        /\ items'[c] = items[c] \ {r}
        /\ pc'[c] = GoesOn(items[c] \ {r})
        /\ Subscribed(c)
    BY <1>1 DEF Send, tableVars, clientVars, TypeOK, Subscribed
  <1>3. r \in visible /\ r \in Taken(c)
    BY DEF TypeOK, Taken
  <1>4. Taken(c)' = Taken(c)
    <2>1. Taken(c) = received[c] \cup items[c]
      BY <1>2, TakenIs
    <2>2. Taken(c)' = received'[c] \cup items'[c] \cup {q \in visible' : ch'[c] = <<q>>}
      <3>1. ch'[c] \in {<< >>} \cup {<<q>> : q \in visible'}
        BY DEF TypeOK
      <3> QED  BY <3>1, InChannel DEF Taken
    <2>3. {q \in visible' : ch'[c] = <<q>>} = {r}
      BY <1>2, <1>3
    <2> QED  BY <1>2, <2>1, <2>2, <2>3
  <1>5. Due(c)' = Due(c)
    BY <1>2 DEF Due
  <1>6. Fresh(c)'
    BY <1>2 DEF Fresh, GoesOn
  <1>7. Checked(c)'
    BY <1>2, <1>3 DEF Checked, OldNotTaken
  <1>8. OldNotTaken(c)'
    BY <1>2, <1>4 DEF OldNotTaken
  <1>9. DueLater(c)'
    <2> SUFFICES ASSUME NEW q \in Due(c) \ Taken(c)
                 PROVE  /\ created[q] >= created[r]
                        /\ \A p \in items[c] \ {r} : created[p] <= created[q]
      BY <1>2, <1>4, <1>5 DEF DueLater
    <2>1. \A p \in items[c] : created[p] <= created[q]
      BY <1>2 DEF DueLater
    <2>2. created[q] \in Nat /\ created[r] \in Nat
      BY PollerAssumption, <1>3 DEF TypeOK, NotYet, Due
    <2> QED  BY <2>1, <2>2
  <1> QED  BY <1>6, <1>7, <1>8, <1>9

LEMMA ReceiveInv ==
  ASSUME IInv, TypeOK', NEW c \in Clients, Receive(c)
  PROVE  ClientInv(c)'
  <1> USE DEF IInv, ClientInv
  <1>1. PICK r \in visible : ch[c] = <<r>>
    BY DEF Receive, TypeOK
  <1>2. Head(ch[c]) = r /\ Tail(ch[c]) = << >>
    BY <1>1
  <1>3. /\ UNCHANGED <<visible, late, created, since, lastCheck, items, pc>>
        /\ ch'[c] = << >>
        /\ received'[c] = received[c] \cup {r}
    BY <1>2 DEF Receive, tableVars, TypeOK
  <1>4. Taken(c)' = Taken(c)
    <2>1. Taken(c) = received[c] \cup items[c] \cup {r}
      BY <1>1, TakenIs
    <2>2. Taken(c)' = received'[c] \cup items'[c]
      BY <1>3 DEF Taken
    <2> QED  BY <1>3, <2>1, <2>2
  <1> QED
    BY <1>3, <1>4
    DEF Fresh, Checked, OldNotTaken, DueLater, Subscribed, Due

LEMMA InvStep == ASSUME IInv, [Next]_vars PROVE IInv'
  <1>1. TypeOK'  BY TypeStep DEF IInv
  <1> SUFFICES ASSUME NEW c \in Clients PROVE ClientInv(c)'
    BY <1>1 DEF IInv
  <1>2. ClientInv(c)
    BY DEF IInv
  <1> USE DEF tableVars, clientVars
  <1>3. CASE Tick \/ UNCHANGED vars
    BY <1>2, <1>3
    DEF Tick, vars, ClientInv, Fresh, Checked, OldNotTaken, DueLater,
        Subscribed, Due, Taken
  <1>4. ASSUME NEW r \in Rows, Create(r) PROVE ClientInv(c)'
    <2>1. \A q \in visible : created'[q] = created[q]
      BY <1>4 DEF Create, IInv, TypeOK
    <2>2. Taken(c)' = Taken(c) /\ Taken(c) \subseteq visible
      BY <1>4, TakenIs DEF Create, Taken, IInv, TypeOK
    <2>3. Due(c)' = Due(c) /\ Due(c) \subseteq visible
      BY <1>4, <2>1 DEF Create, Due
    <2>4. items[c] \subseteq visible
      BY DEF IInv, TypeOK
    <2>5. UNCHANGED <<visible, late, pc, lastCheck, since, items>>
      BY <1>4 DEF Create
    <2> QED
      BY <1>2, <2>1, <2>2, <2>3, <2>4, <2>5
      DEF ClientInv, Fresh, Checked, OldNotTaken, DueLater, Subscribed
  <1>5. ASSUME NEW r \in Rows, Commit(r) PROVE ClientInv(c)'
    BY <1>1, <1>5, CommitInv
  <1>6. ASSUME NEW d \in Clients, d # c,
               Subscribe(d) \/ Goroutine(d) \/ Receive(d) \/ Leave(d)
        PROVE  ClientInv(c)'
    <2>1. /\ visible' = visible /\ late' = late /\ created' = created
          /\ pc'[c] = pc[c] /\ lastCheck'[c] = lastCheck[c]
          /\ since'[c] = since[c] /\ items'[c] = items[c]
          /\ ch'[c] = ch[c] /\ received'[c] = received[c]
      BY <1>6
      DEF Subscribe, Goroutine, Begin, Poll, PollFails, Send, NoticeDone, Receive,
          Leave, IInv, TypeOK
    <2> QED  BY <1>2, <2>1, Frame
  <1>7. CASE Subscribe(c) \/ Begin(c)
    BY <1>1, <1>7, SubscribeInv, BeginInv
  <1>8. CASE Poll(c)  BY <1>1, <1>8, PollInv
  <1>9. CASE Send(c)  BY <1>1, <1>9, SendInv
  <1>10. CASE Receive(c)  BY <1>1, <1>10, ReceiveInv
  <1>11. CASE PollFails(c) \/ Leave(c)
    BY <1>2, <1>11, Frame DEF PollFails, Leave
  <1>12. CASE NoticeDone(c)
    <2>1. /\ pc'[c] = "over"
          /\ UNCHANGED <<tableVars, since, items, ch, received>>
      BY <1>12 DEF NoticeDone, IInv, TypeOK
    <2> QED
      BY <1>2, <2>1
      DEF ClientInv, Fresh, Checked, OldNotTaken, DueLater, Subscribed, Taken
  <1> QED
    BY <1>3, <1>4, <1>5, <1>6, <1>7, <1>8, <1>9, <1>10, <1>11, <1>12
    DEF Next, Goroutine

(* The two follow from the invariant. *)
LEMMA Consequences == IInv => NothingSkipped /\ NothingOld
  BY DEF IInv, ClientInv, OldNotTaken, DueLater, NothingSkipped, NothingOld

LEMMA Invariant == Spec => []IInv
  <1>1. IInv /\ [Next]_vars => IInv'  BY InvStep
  <1> QED  BY InvInit, <1>1, PTL DEF Spec

(* helpers.go asks for rows created at or after the last one it sent: no   *)
(* row that became visible in its turn is skipped, whatever times rows     *)
(* share and in whatever order a poll returns them.                        *)
THEOREM NoRowSkipped == Spec => []NothingSkipped
  BY Invariant, Consequences, PTL

(* No row from before a subscription has begun is sent to it.              *)
THEOREM NoOldRow == Spec => []NothingOld
  BY Invariant, Consequences, PTL
=============================================================================
