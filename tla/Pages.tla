------------------------------- MODULE Pages -------------------------------
(***************************************************************************)
(* The GraphQL queries (pkg/graphql): a client that walks, page by page,   *)
(* over all streams or over the chunks of one, while streams are           *)
(* registered and removed and the download command adds chunks.            *)
(*                                                                         *)
(* A page is a query with a LIMIT and without ORDER BY: the database may   *)
(* return any of the rows that match, in any order.  Only which rows are   *)
(* on the page and which is the last of them matters.                      *)
(***************************************************************************)
EXTENDS Integers, Sequences, FiniteSets

CONSTANTS
  Names,        (* display names of streams                               *)
  Counts,       (* page sizes that clients ask for                        *)
  StreamLimit,  (* the longest page of streams                            *)
  ChunkLimit,   (* the longest page of chunks                             *)
  MaxStreams,   (* bound: streams that are registered                     *)
  MaxChunks     (* bound: chunks that are recorded                        *)

ASSUME PagesAssumption ==
  /\ Counts \subseteq Int
  /\ StreamLimit \in Nat \ {0}
  /\ ChunkLimit \in Nat \ {0}
  /\ MaxStreams \in Nat
  /\ MaxChunks \in Nat

VARIABLES
  (* the database; ids count from 1 *)
  streams,      (* by id: the name, and whether it was (softly) deleted   *)
  chunks,       (* by id: the stream it belongs to                        *)
  recording,    (* streams of the download command that runs              *)
  (* a client *)
  walk,         (* "none", "asking", "over" or "failed"                   *)
  target,       (* what it walks over: AllStreams, or a stream's chunks   *)
  count,
  cursor,       (* what it passes as "after": the id of a node, or none   *)
  seen,         (* how often it got each row: 0, 1, or 2 for more         *)
  (* history of the walk *)
  atStart,      (* the rows to come when it began                         *)
  ordered       (* all pages so far came in the order of the ids          *)

dbVars   == <<streams, chunks, recording>>
walkVars == <<walk, target, count, cursor, seen, atStart, ordered>>
vars == <<dbVars, walkVars>>

Kinds == {"Stream", "Chunk"}
Ids == 1 .. MaxStreams + MaxChunks
AllStreams == 0

(* modelId: an id says which table it is from. *)
Node(kind, n) == [kind |-> kind, id |-> n]
NoCursor == Node("none", 0)

-----------------------------------------------------------------------------
(* The database *)

Active == {s \in DOMAIN streams : ~streams[s].removed}

(* A display name is unique, among removed streams too: the insert of      *)
(* another one fails.                                                      *)
RegisterStream(name) ==
  /\ Len(streams) < MaxStreams
  /\ \A s \in DOMAIN streams : streams[s].name # name
  /\ streams' = Append(streams, [name |-> name, removed |-> FALSE])
  /\ UNCHANGED <<chunks, recording, walkVars>>

RemoveStream(s) ==
  /\ s \in Active
  /\ streams' = [streams EXCEPT ![s].removed = TRUE]
  /\ UNCHANGED <<chunks, recording, walkVars>>

(* A download command starts: it reads the streams once. *)
Download ==
  /\ recording' = Active
  /\ UNCHANGED <<streams, chunks, walkVars>>

(* It archives a chunk, also of a stream that was removed meanwhile. *)
SaveChunk(s) ==
  /\ Len(chunks) < MaxChunks
  /\ s \in recording
  /\ chunks' = Append(chunks, s)
  /\ UNCHANGED <<streams, recording, walkVars>>

-----------------------------------------------------------------------------
(* paginator.Page *)

KindOf(t) == IF t = AllStreams THEN "Stream" ELSE "Chunk"

(* Filter, and gorm's condition on deleted_at *)
RowsOf(t) ==
  IF t = AllStreams THEN Active ELSE {c \in DOMAIN chunks : chunks[c] = t}

Limit(t) == IF t = AllStreams THEN StreamLimit ELSE ChunkLimit

Clamped(t, n) == IF Limit(t) < n THEN Limit(t) ELSE n

(* Mutant: the row of the cursor is on the next page too. *)
FollowingOrSame(t, after) == {r \in RowsOf(t) : r >= after}
Following(t, after) == {r \in RowsOf(t) : r > after}

(* The pages that LIMIT n allows; a negative n is no limit. *)
PagesOf(S, n) ==
  {P \in SUBSET S :
     Cardinality(P) = IF 0 <= n /\ n < Cardinality(S)
                      THEN n ELSE Cardinality(S)}

InOrder(P, last, S) ==
  /\ \A r \in P : r <= last
  /\ \A r \in S \ P : r > last

(* Mutant: a full page has no next one. *)
HasMoreThan(P, n) == Cardinality(P) > n
HasNextPage(P, n) == Cardinality(P) >= n

(* Mutant: modelId takes every row for a stream. *)
EndCursorOfStream(t, last) == Node("Stream", last)
EndCursor(t, last) == Node(KindOf(t), last)

(* decodeModelId refuses an id from another table. *)
Accepts(t, c) == c = NoCursor \/ c.kind = KindOf(t)

(* getStreamById on the way to the chunks of a stream: null once it is     *)
(* removed                                                                 *)
Found(t) == t = AllStreams \/ t \in Active

-----------------------------------------------------------------------------
(* The client *)

OnceMore(n) == IF n = 0 THEN 1 ELSE 2

(* It begins at the start, or after some node that it knows. *)
BeginWalk(t, n, c) ==
  /\ walk = "none"
  /\ walk' = "asking"
  /\ target' = t
  /\ count' = n
  /\ cursor' = c
  /\ atStart' = Following(t, c.id)
  /\ UNCHANGED <<dbVars, seen, ordered>>

(* An empty page has no cursor, that is the end; the client may also stop  *)
(* where hasNextPage says so.                                              *)
GetPage ==
  /\ walk = "asking"
  /\ Found(target) /\ Accepts(target, cursor)
  /\ LET n    == Clamped(target, count)
         rest == Following(target, cursor.id)
     IN  \E page \in PagesOf(rest, n) :
           \/ /\ page = {}
              /\ walk' = "over"
              /\ UNCHANGED <<cursor, seen, ordered>>
           \/ \E last \in page :
                /\ walk' \in {"asking"} \cup
                     IF HasNextPage(page, n) THEN {} ELSE {"over"}
                /\ cursor' = EndCursor(target, last)
                /\ seen' = [r \in Ids |->
                              IF r \in page THEN OnceMore(seen[r]) ELSE seen[r]]
                /\ ordered' = (ordered /\ InOrder(page, last, rest))
  /\ UNCHANGED <<dbVars, target, count, atStart>>

(* An error, or null for the stream *)
GetNothing ==
  /\ walk = "asking"
  /\ ~(Found(target) /\ Accepts(target, cursor))
  /\ walk' = "failed"
  /\ UNCHANGED <<dbVars, target, count, cursor, seen, atStart, ordered>>

Init ==
  /\ streams = << >>
  /\ chunks = << >>
  /\ recording = {}
  /\ walk = "none"
  /\ target = AllStreams
  /\ count = 0
  /\ cursor = NoCursor
  /\ seen = [r \in Ids |-> 0]
  /\ atStart = {}
  /\ ordered = TRUE

(* "stream add" registers too; "stream remove" gives gorm no condition to  *)
(* delete by, which refuses, so that it changes nothing.                   *)
Database ==
  \/ \E name \in Names : RegisterStream(name)
  \/ \E s \in DOMAIN streams : RemoveStream(s) \/ SaveChunk(s)
  \/ Download

Client ==
  \/ \E t \in {AllStreams} \cup Active, n \in Counts :
       \E c \in {NoCursor} \cup {Node("Stream", s) : s \in DOMAIN streams}
                           \cup {Node("Chunk", k) : k \in DOMAIN chunks} :
         BeginWalk(t, n, c)
  \/ GetPage
  \/ GetNothing

Next == Database \/ Client

Spec == Init /\ [][Next]_vars

(* Queries are answered. *)
FairSpec == Spec /\ WF_vars(GetPage \/ GetNothing)

-----------------------------------------------------------------------------
(* Properties *)

(* Every variable has its type; a chunk belongs to a stream that is or was *)
(* registered.                                                             *)
TypeOK ==
  /\ streams \in Seq([name : Names, removed : BOOLEAN])
  /\ chunks \in Seq(DOMAIN streams)
  /\ recording \subseteq DOMAIN streams
  /\ walk \in {"none", "asking", "over", "failed"}
  /\ target \in {AllStreams} \cup DOMAIN streams
  /\ count \in Counts \cup {0}
  /\ cursor \in {NoCursor} \cup [kind : Kinds, id : Ids]
  /\ seen \in [Ids -> 0 .. 2]
  /\ atStart \subseteq Ids
  /\ ordered \in BOOLEAN

(* If the database keeps the order of the ids, no walk gets a row twice,   *)
(* and one that came to its end got every row that was there all the time, *)
(* whatever was registered, removed or recorded between its pages and      *)
(* whatever page size (but 0) it asked for.                                *)
EachRowOnce ==
  ordered =>
    /\ \A r \in Ids : seen[r] <= 1
    /\ walk = "over" /\ count # 0 =>
         \A r \in atStart \cap RowsOf(target) : seen[r] = 1

(* The cursor that a page ends with is one that the next query accepts: a  *)
(* walk that got rows fails only because its stream was removed.           *)
CursorsAccepted ==
  walk = "failed" /\ (\E r \in Ids : seen[r] > 0) => ~Found(target)

(* Every walk ends, in whatever order the database answers: a cursor never *)
(* goes back.  (The bound on rows ends a race with the download command.)  *)
WalksEnd == walk = "asking" ~> walk # "asking"
=============================================================================
