------------------------------- MODULE Poller -------------------------------
(***************************************************************************)
(* GraphQL subscriptions (begin and poll of pkg/graphql/helpers.go): for   *)
(* each subscription a goroutine asks the database at every tick of a      *)
(* timer for the rows created since the last one that it has sent, and     *)
(* sends them to the client.  Meanwhile other processes insert rows: a     *)
(* row's creation time is taken before its insert, and the row is visible  *)
(* only after it.                                                          *)
(***************************************************************************)
EXTENDS Naturals, Sequences

CONSTANTS
  Clients,    (* subscriptions to one table                               *)
  Rows,       (* rows that may be inserted                                *)
  MaxTime,    (* bound: ticks of the clock                                *)
  QueryFails  (* whether a query may fail although its client is there    *)

ASSUME PollerAssumption == MaxTime \in Nat /\ QueryFails \in BOOLEAN

VARIABLES
  (* the table *)
  now,
  created,    (* created_at of each row, once it was taken                *)
  visible,    (* rows that a query can see                                *)
  late,       (* history: rows that became visible after a younger one    *)
  (* the goroutine of each client *)
  pc,         (* "new", "started", "select", "send" or "over"             *)
  lastCheck,
  since,      (* history: when its subscription began                     *)
  items,      (* what is still to be sent of the last poll                *)
  ch,         (* its channel, with room for one                           *)
  (* each client, and the process *)
  received,
  ctxDone,    (* the client has gone                                      *)
  server      (* "up" or "down"                                           *)

tableVars  == <<now, created, visible, late>>
clientVars == <<received, ctxDone>>
vars == <<tableVars, pc, lastCheck, since, items, ch, clientVars, server>>

NotYet == MaxTime + 1

-----------------------------------------------------------------------------
(* The processes that insert *)

Tick ==
  /\ now < MaxTime
  /\ now' = now + 1
  /\ UNCHANGED <<created, visible, late, pc, lastCheck, since, items, ch,
                 clientVars, server>>

(* gorm takes the time ... *)
Create(r) ==
  /\ created[r] = NotYet
  /\ created' = [created EXCEPT ![r] = now]
  /\ UNCHANGED <<now, visible, late, pc, lastCheck, since, items, ch,
                 clientVars, server>>

(* ... and the insert commits, also after those of younger rows. *)
Commit(r) ==
  /\ created[r] # NotYet
  /\ r \notin visible
  /\ visible' = visible \cup {r}
  /\ late' = IF \E q \in visible : created[r] < created[q]
             THEN late \cup {r} ELSE late
  /\ UNCHANGED <<now, created, pc, lastCheck, since, items, ch, clientVars,
                 server>>

-----------------------------------------------------------------------------
(* The goroutine *)

(* begin has returned the channel; the goroutine reads the clock later. *)
Subscribe(c) ==
  /\ server = "up"
  /\ pc[c] = "new"
  /\ pc' = [pc EXCEPT ![c] = "started"]
  /\ UNCHANGED <<tableVars, lastCheck, since, items, ch, clientVars, server>>

(* Mutant: lastCheck starts as the zero time. *)
BeginFromZero(c) ==
  /\ server = "up"
  /\ pc[c] = "started"
  /\ pc' = [pc EXCEPT ![c] = "select"]
  /\ since' = [since EXCEPT ![c] = now]
  /\ UNCHANGED <<tableVars, lastCheck, items, ch, clientVars, server>>

(* lastCheck := time.Now(): rows created before that are not for the       *)
(* client, also if it has been given its channel (resolver_test.go sleeps  *)
(* meanwhile).                                                             *)
Begin(c) ==
  /\ server = "up"
  /\ pc[c] = "started"
  /\ pc' = [pc EXCEPT ![c] = "select"]
  /\ lastCheck' = [lastCheck EXCEPT ![c] = now]
  /\ since' = [since EXCEPT ![c] = now]
  /\ UNCHANGED <<tableVars, items, ch, clientVars, server>>

(* Mutant: only rows younger than the last one. *)
PolledYounger(c) == {r \in visible : created[r] > lastCheck[c]}

(* The times are compared as times.  In SQLite they are texts, stored in   *)
(* the local zone, and lastCheck is in UTC once a row was sent: this is so *)
(* where the local zone is UTC.                                            *)
Polled(c) == {r \in visible : created[r] >= lastCheck[c]}

GoesOn(S) == IF S = {} THEN "select" ELSE "send"

(* Mutant: the time of the poll is remembered. *)
PollAtNow(c) ==
  /\ server = "up"
  /\ pc[c] = "select"
  /\ ~ctxDone[c]
  /\ items' = [items EXCEPT ![c] = Polled(c)]
  /\ lastCheck' = [lastCheck EXCEPT ![c] = now]
  /\ pc' = [pc EXCEPT ![c] = GoesOn(Polled(c))]
  /\ UNCHANGED <<tableVars, since, ch, clientVars, server>>

(* case <-timer.C, and a query that succeeds *)
Poll(c) ==
  /\ server = "up"
  /\ pc[c] = "select"
  /\ ~ctxDone[c]
  /\ items' = [items EXCEPT ![c] = Polled(c)]
  /\ pc' = [pc EXCEPT ![c] = GoesOn(Polled(c))]
  /\ UNCHANGED <<tableVars, lastCheck, since, ch, clientVars, server>>

(* A query fails, at the latest when its client has gone, since it has the *)
(* client's context: logger.Fatal ends the process.                        *)
PollFails(c) ==
  /\ server = "up"
  /\ pc[c] = "select"
  /\ ctxDone[c] \/ QueryFails
  /\ server' = "down"
  /\ UNCHANGED <<tableVars, pc, lastCheck, since, items, ch, clientVars>>

(* case ch <- item: the query has no ORDER BY, any row may be next. *)
Send(c) ==
  /\ server = "up"
  /\ pc[c] = "send"
  /\ ch[c] = << >>
  /\ \E r \in items[c] :
       /\ ch' = [ch EXCEPT ![c] = <<r>>]
       /\ lastCheck' = [lastCheck EXCEPT ![c] = created[r]]
       /\ items' = [items EXCEPT ![c] = @ \ {r}]
       /\ pc' = [pc EXCEPT ![c] = GoesOn(items[c] \ {r})]
  /\ UNCHANGED <<tableVars, since, clientVars, server>>

(* Mutant: the inner select does not look at the context. *)
NoticeDoneIdle(c) ==
  /\ server = "up"
  /\ pc[c] = "select"
  /\ ctxDone[c]
  /\ pc' = [pc EXCEPT ![c] = "over"]
  /\ UNCHANGED <<tableVars, lastCheck, since, items, ch, clientVars, server>>

(* case <-ctx.Done(), of both selects *)
NoticeDone(c) ==
  /\ server = "up"
  /\ pc[c] \in {"select", "send"}
  /\ ctxDone[c]
  /\ pc' = [pc EXCEPT ![c] = "over"]
  /\ UNCHANGED <<tableVars, lastCheck, since, items, ch, clientVars, server>>

-----------------------------------------------------------------------------
(* The clients *)

Receive(c) ==
  /\ server = "up"
  /\ ch[c] # << >>
  /\ ~ctxDone[c]
  /\ received' = [received EXCEPT ![c] = @ \cup {Head(ch[c])}]
  /\ ch' = [ch EXCEPT ![c] = Tail(@)]
  /\ UNCHANGED <<tableVars, pc, lastCheck, since, items, ctxDone, server>>

Leave(c) ==
  /\ pc[c] \in {"started", "select", "send"}
  /\ ~ctxDone[c]
  /\ ctxDone' = [ctxDone EXCEPT ![c] = TRUE]
  /\ UNCHANGED <<tableVars, pc, lastCheck, since, items, ch, received, server>>

Init ==
  /\ now = 0
  /\ created = [r \in Rows |-> NotYet]
  /\ visible = {}
  /\ late = {}
  /\ pc = [c \in Clients |-> "new"]
  /\ lastCheck = [c \in Clients |-> 0]
  /\ since = [c \in Clients |-> 0]
  /\ items = [c \in Clients |-> {}]
  /\ ch = [c \in Clients |-> << >>]
  /\ received = [c \in Clients |-> {}]
  /\ ctxDone = [c \in Clients |-> FALSE]
  /\ server = "up"

Goroutine(c) == Begin(c) \/ Poll(c) \/ PollFails(c) \/ Send(c) \/ NoticeDone(c)

Next ==
  \/ Tick
  \/ \E r \in Rows : Create(r) \/ Commit(r)
  \/ \E c \in Clients :
       Subscribe(c) \/ Goroutine(c) \/ Receive(c) \/ Leave(c)

Spec == Init /\ [][Next]_vars

(* Goroutines are scheduled, and a client that is there reads. *)
FairSpec ==
  /\ Spec
  /\ \A c \in Clients : WF_vars(Goroutine(c)) /\ WF_vars(Receive(c))

-----------------------------------------------------------------------------
(* Properties *)

(* Every variable has its type. *)
TypeOK ==
  /\ now \in 0 .. MaxTime
  /\ created \in [Rows -> 0 .. now \cup {NotYet}]
  /\ visible \subseteq {r \in Rows : created[r] # NotYet}
  /\ late \subseteq visible
  /\ pc \in [Clients -> {"new", "started", "select", "send", "over"}]
  /\ lastCheck \in [Clients -> 0 .. now]
  /\ since \in [Clients -> 0 .. now]
  /\ items \in [Clients -> SUBSET visible]
  /\ ch \in [Clients -> {<< >>} \cup {<<r>> : r \in visible}]
  /\ received \in [Clients -> SUBSET visible]
  /\ ctxDone \in [Clients -> BOOLEAN]
  /\ server \in {"up", "down"}

Subscribed(c) == pc[c] \in {"select", "send"}

(* The rows that are on their way to a client, or arrived *)
Taken(c) == received[c] \cup items[c] \cup {ch[c][i] : i \in 1 .. Len(ch[c])}

(* The rows a client has a right to: created since its subscription began, *)
(* and visible no later than younger ones                                  *)
Due(c) == {r \in visible \ late : created[r] >= since[c]}

(* No row is skipped between two polls, whatever times rows share, in      *)
(* whatever order a poll returns them and whenever they become visible, as *)
(* long as none becomes visible after a younger one: what was not taken    *)
(* yet the next poll will find.                                            *)
NothingSkipped ==
  \A c \in Clients : Subscribed(c) =>
    \A r \in Due(c) \ Taken(c) : created[r] >= lastCheck[c]

(* schema.graphql: a subscription gets rows as they are recorded, and none *)
(* of those that were there before it.                                     *)
NothingOld ==
  \A c \in Clients : \A r \in Taken(c) : created[r] >= since[c]

(* What a client has a right to arrives while it stays.                    *)
Delivered ==
  \A c \in Clients : \A r \in Rows :
    (Subscribed(c) /\ r \in Due(c))
      ~> (r \in received[c] \/ ctxDone[c] \/ server = "down")

(* A client that goes leaves no goroutine behind, not even one that was    *)
(* about to send to it.                                                    *)
NoGoroutineLeaks ==
  \A c \in Clients : ctxDone[c] ~> (pc[c] = "over" \/ server = "down")

-----------------------------------------------------------------------------
(* What the code says of itself, and does not do *)

(* helpers.go: a poll that fails is logged, and its subscription returns:  *)
(* the server goes on.                                                     *)
ServerSurvives == server = "up"
=============================================================================
