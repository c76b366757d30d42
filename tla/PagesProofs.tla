---------------------------- MODULE PagesProofs ----------------------------
(***************************************************************************)
(* What holds of Pages for any tables, limits and page sizes: a walk whose *)
(* pages come in the order of the ids gets every row exactly once.  The    *)
(* inductive invariant puts the rows that it got on one side of its        *)
(* cursor, and those it is still due on the other.                         *)
(***************************************************************************)
EXTENDS Pages, FiniteSetTheorems, SequenceTheorems, TLAPS

-----------------------------------------------------------------------------
(* The inductive invariant *)

(* What the proofs need of the types *)
Typed ==
  /\ streams \in Seq([name : Names, removed : BOOLEAN])
  /\ chunks \in Seq(Nat)
  /\ Len(streams) <= MaxStreams
  /\ Len(chunks) <= MaxChunks
  /\ target \in Nat
  /\ count \in Int
  /\ cursor.id \in Nat
  /\ seen \in [Ids -> 0 .. 2]
  /\ atStart \subseteq Ids

TableOf(t) == IF t = AllStreams THEN DOMAIN streams ELSE DOMAIN chunks

(* A new walk has seen nothing, one that began expects rows that exist.    *)
Fresh ==
  /\ walk = "none" => \A r \in Ids : seen[r] = 0
  /\ walk # "none" => atStart \subseteq TableOf(target)

SeenBefore ==
  ordered => \A r \in Ids : seen[r] <= 1 /\ (seen[r] > 0 => r <= cursor.id)

DueAfter ==
  walk = "asking" /\ ordered =>
    \A r \in atStart \cap RowsOf(target) : seen[r] > 0 \/ r > cursor.id

AllSeen ==
  walk = "over" /\ ordered /\ count # 0 =>
    \A r \in atStart \cap RowsOf(target) : seen[r] > 0

IInv == Typed /\ Fresh /\ SeenBefore /\ DueAfter /\ AllSeen

LEMMA RowsInTable ==
  ASSUME Typed, NEW t \in Nat
  PROVE  RowsOf(t) \subseteq TableOf(t) /\ TableOf(t) \subseteq Ids
  <1>1. DOMAIN streams = 1 .. Len(streams) /\ Len(streams) \in Nat
    BY DEF Typed
  <1>2. DOMAIN chunks = 1 .. Len(chunks) /\ Len(chunks) \in Nat
    BY DEF Typed
  <1>3. DOMAIN streams \subseteq Ids /\ DOMAIN chunks \subseteq Ids
    BY <1>1, <1>2, PagesAssumption DEF Ids, Typed
  <1> QED  BY <1>3 DEF RowsOf, TableOf, Active

(* The tables only grow, and of the rows they had they only lose some.     *)
Grows ==
  \A t \in Nat : /\ TableOf(t) \subseteq TableOf(t)'
                 /\ RowsOf(t)' \cap TableOf(t) \subseteq RowsOf(t)

LEMMA DatabaseGrows == ASSUME Typed, Database PROVE Typed' /\ Grows
  <1>1. ASSUME NEW name \in Names, RegisterStream(name) PROVE Typed' /\ Grows
    <2>1. /\ streams' = Append(streams, [name |-> name, removed |-> FALSE])
          /\ chunks' = chunks
      BY <1>1 DEF RegisterStream
    <2>2. /\ streams' \in Seq([name : Names, removed : BOOLEAN])
          /\ DOMAIN streams \subseteq DOMAIN streams'
          /\ \A s \in DOMAIN streams : streams'[s] = streams[s]
          /\ Len(streams') = Len(streams) + 1
      BY <2>1 DEF Typed
    <2>3. Typed'
      BY <1>1, <2>1, <2>2, PagesAssumption DEF Typed, RegisterStream, walkVars
    <2>4. Grows
      BY <2>1, <2>2 DEF Grows, TableOf, RowsOf, Active
    <2> QED  BY <2>3, <2>4
  <1>2. ASSUME NEW s \in DOMAIN streams, RemoveStream(s) PROVE Typed' /\ Grows
    <2>1. /\ streams' = [streams EXCEPT ![s].removed = TRUE]
          /\ chunks' = chunks
      BY <1>2 DEF RemoveStream
    <2> DEFINE R   == [name : Names, removed : BOOLEAN]
               new == [streams[s] EXCEPT !.removed = TRUE]
    <2>2. streams \in Seq(R) /\ s \in 1 .. Len(streams)
      BY <1>2 DEF Typed
    <2>3. new \in R /\ new.removed = TRUE
      <3>1. streams[s] \in R
        BY <2>2, ElementOfSeq
      <3> SUFFICES ASSUME NEW q \in R
                   PROVE  /\ [q EXCEPT !.removed = TRUE] \in R
                          /\ [q EXCEPT !.removed = TRUE].removed = TRUE
        BY <3>1
      <3> QED  OBVIOUS
    <2>4. streams' = [streams EXCEPT ![s] = new]
      BY <2>1
    <2> HIDE DEF new, R
    <2>5. /\ streams' \in Seq(R)
          /\ Len(streams') = Len(streams)
          /\ \A i \in 1 .. Len(streams) :
               streams'[i] = IF i = s THEN new ELSE streams[i]
      BY <2>2, <2>3, <2>4, ExceptSeq
    <2>6. DOMAIN streams' = DOMAIN streams /\ streams'[s].removed = TRUE
      BY <2>2, <2>3, <2>5
    <2>7. Typed'
      BY <1>2, <2>5 DEF Typed, RemoveStream, walkVars, R
    <2>8. Grows
      BY <2>1, <2>2, <2>3, <2>5, <2>6 DEF Grows, TableOf, RowsOf, Active
    <2> QED  BY <2>7, <2>8
  <1>3. ASSUME NEW s \in DOMAIN streams, SaveChunk(s) PROVE Typed' /\ Grows
    <2>1. chunks' = Append(chunks, s) /\ streams' = streams
      BY <1>3 DEF SaveChunk
    <2>2. s \in Nat
      BY DEF Typed
    <2>3. /\ chunks' \in Seq(Nat)
          /\ DOMAIN chunks \subseteq DOMAIN chunks'
          /\ \A c \in DOMAIN chunks : chunks'[c] = chunks[c]
          /\ Len(chunks') = Len(chunks) + 1
      BY <2>1, <2>2 DEF Typed
    <2>4. Typed'
      BY <1>3, <2>1, <2>3, PagesAssumption DEF Typed, SaveChunk, walkVars
    <2>5. Grows
      BY <2>1, <2>3 DEF Grows, TableOf, RowsOf, Active
    <2> QED  BY <2>4, <2>5
  <1>4. CASE Download
    BY <1>4 DEF Download, Typed, Grows, TableOf, RowsOf, Active, walkVars
  <1> QED  BY <1>1, <1>2, <1>3, <1>4 DEF Database

LEMMA DatabaseInv == ASSUME IInv, Database PROVE IInv'
  <1>1. Typed' /\ Grows
    BY DatabaseGrows DEF IInv
  <1>2. UNCHANGED walkVars
    BY DEF Database, RegisterStream, RemoveStream, SaveChunk, Download
  <1> USE DEF walkVars
  <1>3. Fresh'
    BY <1>1, <1>2 DEF IInv, Typed, Fresh, Grows
  <1>4. SeenBefore'
    BY <1>2 DEF IInv, SeenBefore
  <1>5. walk # "none" =>
          atStart' \cap RowsOf(target)' \subseteq atStart \cap RowsOf(target)
    BY <1>1, <1>2 DEF IInv, Typed, Fresh, Grows
  <1>6. DueAfter' /\ AllSeen'
    BY <1>2, <1>5 DEF IInv, DueAfter, AllSeen
  <1> QED  BY <1>1, <1>3, <1>4, <1>6 DEF IInv

LEMMA BeginInv ==
  ASSUME IInv, NEW t \in {AllStreams} \cup Active, NEW n \in Counts,
         NEW c, c.id \in Nat, BeginWalk(t, n, c)
  PROVE  IInv'
  <1>1. UNCHANGED dbVars /\ seen' = seen /\ ordered' = ordered
    BY DEF BeginWalk
  <1>2. walk' = "asking" /\ target' = t /\ count' = n /\ cursor' = c
    BY DEF BeginWalk
  <1>3. t \in Nat /\ n \in Int
    BY PagesAssumption DEF IInv, Typed, Active, AllStreams
  <1>4. RowsOf(t)' = RowsOf(t) /\ TableOf(t)' = TableOf(t)
    BY <1>1 DEF dbVars, RowsOf, TableOf, Active
  <1>5. atStart' = {r \in RowsOf(t) : r > c.id}
    BY DEF BeginWalk, Following
  <1>6. RowsOf(t) \subseteq TableOf(t) /\ TableOf(t) \subseteq Ids
    BY <1>3, RowsInTable DEF IInv
  <1>7. walk = "none"
    BY DEF BeginWalk
  <1>8. Typed'
    BY <1>1, <1>2, <1>3, <1>5, <1>6 DEF IInv, Typed, dbVars
  <1>9. Fresh'
    BY <1>2, <1>4, <1>5, <1>6 DEF Fresh
  <1>10. SeenBefore'
    BY <1>1, <1>7 DEF IInv, Fresh, SeenBefore
  <1>11. DueAfter' /\ AllSeen'
    BY <1>2, <1>4, <1>5 DEF DueAfter, AllSeen
  <1> QED  BY <1>8, <1>9, <1>10, <1>11 DEF IInv

LEMMA GetPageInv == ASSUME IInv, GetPage PROVE IInv'
  <1> DEFINE n    == Clamped(target, count)
             rest == Following(target, cursor.id)
  <1> USE DEF IInv
  <1>1. UNCHANGED <<dbVars, target, count, atStart>> /\ walk = "asking"
    BY DEF GetPage
  <1>2. RowsOf(target)' = RowsOf(target) /\ TableOf(target)' = TableOf(target)
    BY <1>1 DEF dbVars, RowsOf, TableOf, Active
  <1>3. rest \subseteq Ids /\ Ids \subseteq Nat
    BY RowsInTable, PagesAssumption DEF Typed, Following, Ids
  <1>4. IsFiniteSet(rest)
    <2>1. IsFiniteSet(Ids)
      BY FS_Interval, PagesAssumption DEF Ids
    <2> QED  BY <1>3, <2>1, FS_Subset
  <1>5. n \in Int /\ (count # 0 => n # 0)
    BY PagesAssumption DEF Typed, Clamped, Limit
  <1>6. Fresh'
    BY <1>1, <1>2 DEF Fresh, GetPage
  <1>7. PICK page \in PagesOf(rest, n) :
          \/ /\ page = {}
             /\ walk' = "over"
             /\ UNCHANGED <<cursor, seen, ordered>>
          \/ \E last \in page :
               /\ walk' \in {"asking"} \cup
                    IF HasNextPage(page, n) THEN {} ELSE {"over"}
               /\ cursor' = EndCursor(target, last)
               /\ seen' = [r \in Ids |->
                             IF r \in page THEN OnceMore(seen[r]) ELSE seen[r]]
               /\ ordered' = (ordered /\ InOrder(page, last, rest))
    BY DEF GetPage
  <1>8. /\ page \subseteq rest
        /\ Cardinality(page) = IF 0 <= n /\ n < Cardinality(rest)
                                THEN n ELSE Cardinality(rest)
    BY DEF PagesOf
  <1>9. Cardinality(rest) \in Nat /\ Cardinality(page) \in Nat
    BY <1>4, <1>8, FS_CardinalityType, FS_Subset
  <1> HIDE DEF n, rest
  <1>10. CASE /\ page = {}
              /\ walk' = "over"
              /\ UNCHANGED <<cursor, seen, ordered>>
    <2>1. count # 0 => rest = {}
      BY <1>4, <1>5, <1>8, <1>9, <1>10, FS_EmptySet
    <2>2. AllSeen'
      <3> SUFFICES ASSUME ordered, count # 0,
                          NEW r \in atStart \cap RowsOf(target)
                   PROVE  seen[r] > 0
        BY <1>1, <1>2, <1>10 DEF AllSeen
      <3>1. r \notin rest
        BY <2>1
      <3> QED  BY <1>1, <3>1 DEF DueAfter, Following, rest
    <2>3. Typed' /\ SeenBefore' /\ DueAfter'
      BY <1>1, <1>10 DEF Typed, SeenBefore, DueAfter, dbVars
    <2> QED  BY <1>6, <2>2, <2>3
  <1>11. ASSUME NEW last \in page,
                walk' \in {"asking"} \cup
                  IF HasNextPage(page, n) THEN {} ELSE {"over"},
                cursor' = EndCursor(target, last),
                seen' = [r \in Ids |->
                          IF r \in page THEN OnceMore(seen[r]) ELSE seen[r]],
                ordered' = (ordered /\ InOrder(page, last, rest))
         PROVE  IInv'
    <2>1. cursor'.id = last /\ last \in Nat /\ cursor.id < last
      BY <1>3, <1>8, <1>11 DEF EndCursor, Node, Following, rest, Typed
    <2>2. Typed'
      BY <1>1, <1>11, <2>1 DEF Typed, dbVars, OnceMore
    <2>3. \A r \in page : r \in Ids /\ r > cursor.id
      BY <1>3, <1>8 DEF Following, rest
    <2>4. ordered' => ordered /\ InOrder(page, last, rest)
      BY <1>11
    <2>5. SeenBefore'
      <3> SUFFICES ASSUME ordered', NEW r \in Ids
                   PROVE  seen'[r] <= 1 /\ (seen'[r] > 0 => r <= last)
        BY <2>1 DEF SeenBefore
      <3>1. seen[r] \in Nat /\ r \in Nat /\ cursor.id \in Nat
        BY <1>3 DEF Typed
      <3>2. seen[r] <= 1 /\ (seen[r] > 0 => r <= cursor.id)
        BY <2>4 DEF SeenBefore
      <3>3. CASE r \in page
        BY <1>11, <2>3, <2>4, <3>1, <3>2, <3>3 DEF InOrder, OnceMore
      <3>4. CASE r \notin page
        BY <1>11, <2>1, <3>1, <3>2, <3>4
      <3> QED  BY <3>3, <3>4
    <2>6. \A r \in atStart \cap RowsOf(target) :
            ordered' => \/ seen'[r] > 0
                        \/ r \in rest \ page /\ r > last
      <3> SUFFICES ASSUME NEW r \in atStart \cap RowsOf(target), ordered'
                   PROVE  seen'[r] > 0 \/ (r \in rest \ page /\ r > last)
        OBVIOUS
      <3>1. r \in Ids /\ seen[r] \in Nat
        BY DEF Typed
      <3>2. seen[r] > 0 \/ r \in rest
        BY <1>1, <2>4 DEF DueAfter, Following, rest
      <3> QED  BY <1>11, <2>4, <3>1, <3>2 DEF InOrder, OnceMore
    <2>7. DueAfter'
      BY <1>1, <1>2, <2>1, <2>6 DEF DueAfter
    <2>8. AllSeen'
      <3>1. walk' = "over" => page = rest
        <4> SUFFICES ASSUME ~HasNextPage(page, n) PROVE page = rest
          BY <1>11
        <4>1. Cardinality(page) = Cardinality(rest)
          BY <1>5, <1>8, <1>9 DEF HasNextPage
        <4> QED  BY <1>4, <1>8, <4>1, FS_Subset
      <3> QED  BY <1>1, <1>2, <2>6, <3>1 DEF AllSeen
    <2> QED  BY <1>6, <2>2, <2>5, <2>7, <2>8
  <1> QED  BY <1>7, <1>10, <1>11

LEMMA InvInit == Init => IInv
  BY PagesAssumption
  DEF Init, IInv, Typed, Fresh, SeenBefore, DueAfter, AllSeen, NoCursor, Node,
      AllStreams, Ids

LEMMA InvStep == ASSUME IInv, [Next]_vars PROVE IInv'
  <1>1. CASE Database  BY <1>1, DatabaseInv
  <1>2. ASSUME NEW t \in {AllStreams} \cup Active, NEW n \in Counts,
               NEW c \in {NoCursor} \cup {Node("Stream", s) : s \in DOMAIN streams}
                            \cup {Node("Chunk", k) : k \in DOMAIN chunks},
               BeginWalk(t, n, c)
        PROVE  IInv'
    <2>1. c.id \in Nat
      BY DEF Node, NoCursor, IInv, Typed
    <2> QED  BY <1>2, <2>1, BeginInv
  <1>3. CASE GetPage  BY <1>3, GetPageInv
  <1>4. CASE GetNothing \/ UNCHANGED vars
    <2>1. /\ UNCHANGED <<dbVars, target, count, cursor, seen, atStart, ordered>>
          /\ (walk' = "failed" /\ walk = "asking") \/ walk' = walk
      BY <1>4 DEF GetNothing, vars, walkVars
    <2> QED
      BY <2>1
      DEF IInv, Typed, Fresh, SeenBefore, DueAfter, AllSeen, TableOf, RowsOf,
          Active, dbVars
  <1> QED  BY <1>1, <1>2, <1>3, <1>4 DEF Next, Client

(* pagination.go: "id > cursor" and the limit, with answers in the order   *)
(* of the ids, give every row that stays, once, whatever happens to the    *)
(* table between the pages.                                                *)
THEOREM PagesPartition == Spec => []EachRowOnce
  <1>1. IInv /\ [Next]_vars => IInv'  BY InvStep
  <1>2. IInv => EachRowOnce
    <2> SUFFICES ASSUME IInv, ordered PROVE EachRowOnce
      BY DEF EachRowOnce
    <2>1. \A r \in Ids : seen[r] <= 1 /\ seen[r] \in Nat
      BY DEF IInv, SeenBefore, Typed
    <2>2. atStart \subseteq Ids
      BY DEF IInv, Typed
    <2> QED  BY <2>1, <2>2 DEF EachRowOnce, IInv, AllSeen
  <1> QED  BY InvInit, <1>1, <1>2, PTL DEF Spec

-----------------------------------------------------------------------------
(* The types, and the cursors *)

LEMMA TypeOKStep == ASSUME Typed, Typed', TypeOK, [Next]_vars PROVE TypeOK'
  <1>1. ASSUME NEW name \in Names, RegisterStream(name) PROVE TypeOK'
    <2>1. /\ streams' = Append(streams, [name |-> name, removed |-> FALSE])
          /\ UNCHANGED <<chunks, recording, walkVars>>
      BY <1>1 DEF RegisterStream
    <2>2. DOMAIN streams \subseteq DOMAIN streams'
      BY <2>1 DEF TypeOK
    <2>3. chunks' \in Seq(DOMAIN streams')
      BY <2>1, <2>2 DEF TypeOK
    <2> QED  BY <2>1, <2>2, <2>3 DEF TypeOK, Typed, walkVars
  <1>2. ASSUME NEW s \in DOMAIN streams, RemoveStream(s) PROVE TypeOK'
    <2>1. DOMAIN streams' = DOMAIN streams
          /\ UNCHANGED <<chunks, recording, walkVars>>
      BY <1>2 DEF RemoveStream
    <2> QED  BY <2>1 DEF TypeOK, Typed, walkVars
  <1>3. ASSUME NEW s \in DOMAIN streams, SaveChunk(s) PROVE TypeOK'
    <2>1. chunks' = Append(chunks, s) /\ UNCHANGED <<streams, recording, walkVars>>
      BY <1>3 DEF SaveChunk
    <2>2. chunks' \in Seq(DOMAIN streams)
      BY <2>1 DEF TypeOK
    <2> QED  BY <2>1, <2>2 DEF TypeOK, walkVars
  <1>4. CASE Download
    BY <1>4 DEF Download, TypeOK, Active, walkVars
  <1>5. ASSUME NEW t \in {AllStreams} \cup Active, NEW n \in Counts,
               NEW c \in {NoCursor} \cup {Node("Stream", s) : s \in DOMAIN streams}
                            \cup {Node("Chunk", k) : k \in DOMAIN chunks},
               BeginWalk(t, n, c)
        PROVE  TypeOK'
    <2>1. /\ UNCHANGED <<dbVars, seen, ordered>>
          /\ walk' = "asking" /\ target' = t /\ count' = n /\ cursor' = c
      BY <1>5 DEF BeginWalk
    <2>2. DOMAIN streams \subseteq Ids /\ DOMAIN chunks \subseteq Ids
      BY RowsInTable DEF TableOf, AllStreams
    <2>3. c \in {NoCursor} \cup [kind : Kinds, id : Ids]
      BY <2>2 DEF Node, Kinds
    <2>4. t \in {AllStreams} \cup DOMAIN streams
      BY DEF Active
    <2> QED  BY <2>1, <2>3, <2>4 DEF TypeOK, Typed, dbVars
  <1>6. CASE GetPage
    <2>1. UNCHANGED <<dbVars, target, count, atStart>>
      BY <1>6 DEF GetPage
    <2>2. /\ walk' \in {"asking", "over"}
          /\ ordered' \in BOOLEAN
          /\ \/ cursor' = cursor
             \/ \E last \in Following(target, cursor.id) :
                  cursor' = EndCursor(target, last)
      BY <1>6 DEF GetPage, PagesOf, TypeOK
    <2>3. Following(target, cursor.id) \subseteq Ids
      BY RowsInTable DEF Following, Typed
    <2>4. cursor' \in {NoCursor} \cup [kind : Kinds, id : Ids]
      BY <2>2, <2>3 DEF EndCursor, Node, KindOf, Kinds, TypeOK
    <2> QED  BY <2>1, <2>2, <2>4 DEF TypeOK, Typed, dbVars
  <1>7. CASE GetNothing \/ UNCHANGED vars
    BY <1>7 DEF GetNothing, TypeOK, vars, dbVars, walkVars
  <1> QED
    BY <1>1, <1>2, <1>3, <1>4, <1>5, <1>6, <1>7 DEF Next, Database, Client

Started == \E r \in Ids : seen[r] > 0

(* From the first page on the cursor is the server's. *)
CursorInv ==
  /\ walk = "asking" /\ Started => cursor.kind = KindOf(target)
  /\ CursorsAccepted

LEMMA CursorStep ==
  ASSUME IInv, TypeOK, CursorInv, [Next]_vars
  PROVE  CursorInv'
  <1> USE DEF CursorInv, CursorsAccepted, Started
  <1>1. CASE Database
    <2>1. UNCHANGED walkVars /\ Grows
      BY <1>1, DatabaseGrows
      DEF IInv, Database, RegisterStream, RemoveStream, SaveChunk, Download
    <2>2. AllStreams \in Nat
      BY DEF AllStreams
    <2>3. Active' \cap DOMAIN streams \subseteq Active
      BY <2>1, <2>2 DEF Grows, RowsOf, TableOf
    <2>4. target \in {AllStreams} \cup DOMAIN streams
      BY DEF TypeOK
    <2>5. Found(target)' => Found(target)
      BY <2>1, <2>3, <2>4 DEF Found, walkVars
    <2> QED  BY <2>1, <2>5 DEF walkVars, KindOf
  <1>2. ASSUME NEW t, NEW n, NEW c, BeginWalk(t, n, c) PROVE CursorInv'
    <2>1. walk = "none" /\ walk' = "asking" /\ seen' = seen
      BY <1>2 DEF BeginWalk
    <2>2. ~Started'
      BY <2>1 DEF IInv, Fresh
    <2> QED  BY <2>1, <2>2
  <1>3. CASE GetPage
    <2>1. walk = "asking" /\ walk' \in {"asking", "over"} /\ target' = target
      BY <1>3 DEF GetPage
    <2>2. \/ cursor' = cursor /\ seen' = seen
          \/ \E last : cursor' = EndCursor(target, last)
      BY <1>3 DEF GetPage
    <2> QED  BY <2>1, <2>2 DEF EndCursor, Node, KindOf
  <1>4. CASE GetNothing
    <2>1. /\ walk = "asking" /\ walk' = "failed"
          /\ ~(Found(target) /\ Accepts(target, cursor))
          /\ UNCHANGED <<dbVars, target, cursor, seen>>
      BY <1>4 DEF GetNothing
    <2> QED  BY <2>1 DEF Accepts, Found, Active, dbVars
  <1>5. CASE UNCHANGED vars
    BY <1>5 DEF vars, dbVars, walkVars, KindOf, Found, Active
  <1> QED  BY <1>1, <1>2, <1>3, <1>4, <1>5 DEF Next, Client

LEMMA Invariant == Spec => [](IInv /\ TypeOK /\ CursorInv)
  <1>1. Init => IInv /\ TypeOK /\ CursorInv
    <2>1. Init => TypeOK
      BY DEF Init, TypeOK, NoCursor, Node, Ids
    <2>2. Init => CursorInv
      BY DEF Init, CursorInv, CursorsAccepted, Started
    <2> QED  BY InvInit, <2>1, <2>2
  <1>2. IInv /\ TypeOK /\ CursorInv /\ [Next]_vars
        => (IInv /\ TypeOK /\ CursorInv)'
    <2> SUFFICES ASSUME IInv, TypeOK, CursorInv, [Next]_vars
                 PROVE  (IInv /\ TypeOK /\ CursorInv)'
      OBVIOUS
    <2>1. IInv'  BY InvStep
    <2>2. TypeOK'  BY <2>1, TypeOKStep DEF IInv
    <2>3. CursorInv'  BY CursorStep
    <2> QED  BY <2>1, <2>2, <2>3
  <1> QED  BY <1>1, <1>2, PTL DEF Spec

(* pkg/graphql, stream.go: for any tables the variables keep their types,  *)
(* and every chunk refers to a stream that is, or was, registered.         *)
THEOREM TypeCorrect == Spec => []TypeOK
  BY Invariant, PTL

(* pagination.go, helpers.go: the cursor that a page gives has the kind of *)
(* its table, so that only a stream's removal can fail a walk on its way.  *)
THEOREM OwnCursorsAccepted == Spec => []CursorsAccepted
  <1>1. CursorInv => CursorsAccepted  BY DEF CursorInv
  <1> QED  BY Invariant, <1>1, PTL
=============================================================================
