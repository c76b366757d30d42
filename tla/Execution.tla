----------------------------- MODULE Execution -----------------------------
(***************************************************************************)
(* The execution of a GraphQL document: the code gqlgen has generated from *)
(* the schema calls the resolvers of schema.resolvers.go, each of which    *)
(* asks the database on its own, while other clients, the download command *)
(* and the transcriber change it.                                          *)
(*                                                                         *)
(* The answer is a tree.  The fields of an object that ask a resolver are  *)
(* run concurrently; the object waits for all of them and becomes null if  *)
(* one that must not be null is null.                                      *)
(***************************************************************************)
EXTENDS GraphSchema, Integers, SequencesExt, FiniteSets

CONSTANTS
  Docs,               (* the documents that clients send                    *)
  MaxStreams,         (* bound: streams that are registered                 *)
  MaxRows,            (* bound: rows of all tables together                 *)
  MaxFaults           (* bound: resolvers that fail in one execution        *)

(* A document is an operation with the fields it selects, each with its    *)
(* path, the order of the fields at its top, and the id it is about.       *)
ASSUME ExecutionAssumption ==
  /\ \A d \in Docs :
       /\ d.op \in {"Query", "Mutation", "Subscription"}
       /\ \A p \in d.select : Len(p) > 1 => Front(p) \in d.select
       /\ {d.top[i] : i \in DOMAIN d.top} = {p[1] : p \in d.select}
       /\ d.top \in Seq(DOMAIN Fields[d.op]) \ {<< >>}
  /\ {MaxStreams, MaxRows, MaxFaults} \subseteq Nat

VARIABLES
  (* the database; ids count from 1 *)
  streams,         (* by id: was it (softly) deleted?                       *)
  chunks,          (* by id: its stream                                     *)
  transmissions,   (* by id: its chunk                                      *)
  transcriptions,  (* by id: its transmission                               *)
  (* the execution *)
  doc,
  node,            (* the answer so far, by position                        *)
  errors,          (* the positions that the response has an error about    *)
  nils,            (* the positions that are null because there is nothing  *)
  faults

dbVars   == <<streams, chunks, transmissions, transcriptions>>
execVars == <<doc, node, errors, nils, faults>>
vars == <<dbVars, execVars>>

-----------------------------------------------------------------------------
(* The answer *)

(* A position is the path of the fields that lead to it, where the         *)
(* elements of a list are the field "item", and the ids of these elements. *)
Root == [path |-> << >>, at |-> << >>]
Child(x, f) == [x EXCEPT !.path = Append(@, f)]
Item(x, r) == [path |-> Append(x.path, "item"), at |-> Append(x.at, r)]
NameOf(x) == Last(x.path)
Parent(x) ==
  [path |-> Front(x.path),
   at   |-> IF NameOf(x) = "item" THEN Front(x.at) ELSE x.at]

Selected(d, x) ==
  {Last(p) : p \in {q \in d.select : q # << >> /\ Front(q) = x.path}}

(* A field that waits for its resolver has the row of its object, an       *)
(* object its own.  NoRow: an object that no row was found for (id 0)      *)
Node(is, type, row) == [is |-> is, of |-> type, row |-> row]
NoRow == 0

Answered(x) == node[x].is \in {"done", "null"}
Running == Root \in DOMAIN node /\ ~Answered(Root)
Children(x) ==
  {y \in DOMAIN node : Len(y.path) = Len(x.path) + 1 /\ Parent(y) = x}

(* An object is there: its scalars are written at once, the fields that    *)
(* ask a resolver wait for it.                                             *)
Object(d, x, type, row) ==
  LET fields == Selected(d, x) \cap DOMAIN Fields[type]
      zero   == IF row = NoRow THEN Times ELSE {}
      Is(f)  == IF Fields[type][f].asks THEN "waiting"
                ELSE IF f \in zero THEN "null" ELSE "done"
  IN  [y \in {x} \cup {Child(x, f) : f \in fields} |->
         IF y = x THEN Node("open", type, row)
         ELSE Node(Is(NameOf(y)), Fields[type][NameOf(y)].of, row)]

(* A slice without elements is nil. *)
List(x, type, rows) ==
  LET items == [r \in rows |-> Object(doc, Item(x, r), Lists[type], r)]
  IN  [y \in {x} \cup UNION {DOMAIN items[r] : r \in rows} |->
         IF y = x THEN Node(IF rows = {} THEN "null" ELSE "open", type, NoRow)
         ELSE items[y.at[Len(x.at) + 1]][y]]

PageInfo(x, rows) ==
  LET fields == Selected(doc, x) \cap DOMAIN Fields["PageInfo"]
      Is(f)  == IF f = "endCursor" /\ rows = {} THEN "null" ELSE "done"
  IN  [y \in {x} \cup {Child(x, f) : f \in fields} |->
         IF y = x THEN Node("open", "PageInfo", NoRow)
         ELSE Node(Is(NameOf(y)), Scalar, NoRow)]

Connection(x, type, rows) ==
  LET parts == [f \in Selected(doc, x) \cap DOMAIN Fields[type] |->
                  IF f = "edges"
                  THEN List(Child(x, f), Fields[type][f].of, rows)
                  ELSE PageInfo(Child(x, f), rows)]
  IN  [y \in {x} \cup UNION {DOMAIN parts[f] : f \in DOMAIN parts} |->
         IF y = x THEN Node("open", type, NoRow)
         ELSE parts[y.path[Len(x.path) + 1]][y]]

Only(x, n) == [y \in {x} |-> n]
Nothing(x) == Only(x, Node("null", node[x].of, NoRow))

(* What a resolver gave is put in its place.  A nil that the field may not *)
(* have is reported.  (TLC evaluates what is given once.)                  *)
Put(new) ==
  \E given \in {new} :
  LET tree == given ++ node
      nulls == {y \in DOMAIN given : given[y].is = "null"}
      legal == {y \in nulls : Fields[tree[Parent(y)].of][NameOf(y)].nullable}
  IN  /\ node' = tree
      /\ nils' = nils \cup legal
      /\ errors' = errors \cup (nulls \ legal)
      /\ UNCHANGED <<doc, faults>>

-----------------------------------------------------------------------------
(* The database *)

HasRoom ==
  Len(streams) + Len(chunks) + Len(transmissions) + Len(transcriptions)
    < MaxRows

Active == {s \in DOMAIN streams : ~streams[s]}

AddStream ==
  /\ Len(streams) < MaxStreams /\ HasRoom
  /\ streams' = Append(streams, FALSE)
  /\ UNCHANGED <<chunks, transmissions, transcriptions>>

DeleteStream(s) ==
  /\ streams' = IF s \in Active THEN [streams EXCEPT ![s] = TRUE] ELSE streams
  /\ UNCHANGED <<chunks, transmissions, transcriptions>>

(* The download command goes on with streams that were removed. *)
SaveChunk(s) ==
  /\ HasRoom
  /\ chunks' = Append(chunks, s)
  /\ UNCHANGED <<streams, transmissions, transcriptions, execVars>>

SaveTransmission(c) ==
  /\ HasRoom
  /\ transmissions' = Append(transmissions, c)
  /\ UNCHANGED <<streams, chunks, transcriptions, execVars>>

(* Transmissions are transcribed in any order, and by two processes also   *)
(* twice.                                                                  *)
SaveTranscription(t) ==
  /\ HasRoom
  /\ transcriptions' = Append(transcriptions, t)
  /\ UNCHANGED <<streams, chunks, transmissions, execVars>>

-----------------------------------------------------------------------------
(* The resolvers.  Each asks the database when its turn comes, in a query  *)
(* of its own.                                                             *)

(* The fields at the top of a mutation are run one after the other.        *)
InTurn(x) ==
  doc.op = "Mutation" /\ Len(x.path) = 1 =>
    \A y \in Children(Root) :
      (\E i, j \in DOMAIN doc.top :
         i < j /\ doc.top[i] = NameOf(y) /\ doc.top[j] = NameOf(x))
      => Answered(y)

Asked(x, type, f) ==
  /\ NameOf(x) = f
  /\ node[Parent(x)].of = type
  /\ InTurn(x)

GetStreams(x) ==
  /\ Asked(x, "Query", "getStreams")
  /\ Put(Connection(x, node[x].of, Active))
  /\ UNCHANGED dbVars

(* decodeModelId refuses the id of another kind of row. *)
IsFor(kind) == doc.about.kind = kind

getByID(x, f, kind, rows) ==
  /\ Asked(x, "Query", f)
  /\ IsFor(kind)
  /\ Put(IF doc.about.id \in rows
          THEN Object(doc, x, kind, doc.about.id) ELSE Nothing(x))
  /\ UNCHANGED dbVars

GetStreamByID(x) == getByID(x, "getStreamById", "Stream", Active)
GetChunkByID(x) == getByID(x, "getChunkById", "Chunk", DOMAIN chunks)
GetTransmissionByID(x) ==
  getByID(x, "getTransmissionById", "Transmission", DOMAIN transmissions)

(* gorm leaves a condition on an id that is 0 out of its query: the chunks *)
(* of an empty stream are all chunks.                                      *)
StreamChunks(x) ==
  LET s == node[x].row
  IN  /\ Asked(x, "Stream", "chunks")
      /\ Put(Connection(x, node[x].of,
                {c \in DOMAIN chunks : s = NoRow \/ chunks[c] = s}))
      /\ UNCHANGED dbVars

(* Mutant: the join is without its second condition. *)
StreamTransmissionsOfAll(x) ==
  /\ Asked(x, "Stream", "transmissions")
  /\ Put(Connection(x, node[x].of, DOMAIN transmissions))
  /\ UNCHANGED dbVars

StreamTransmissions(x) ==
  /\ Asked(x, "Stream", "transmissions")
  /\ Put(Connection(x, node[x].of,
            {t \in DOMAIN transmissions :
               chunks[transmissions[t]] = node[x].row}))
  /\ UNCHANGED dbVars

ChunkTransmissions(x) ==
  /\ Asked(x, "Chunk", "transmissions")
  /\ Put(Connection(x, node[x].of,
            {t \in DOMAIN transmissions : transmissions[t] = node[x].row}))
  /\ UNCHANGED dbVars

(* signedURL: the storage has the blob, or not. *)
DownloadURL(x) ==
  /\ \E type \in {"Chunk", "Transmission"} : Asked(x, type, "downloadUrl")
  /\ \/ Put(Only(x, Node("done", Scalar, NoRow)))
     \/ Put(Nothing(x))
  /\ UNCHANGED dbVars

(* The child is looked up again, which cannot fail since only streams are  *)
(* removed, then its parent; Find leaves the parent empty if there is none. *)
getParentObject(x, child, f, parent, rows) ==
  /\ Asked(x, child, f)
  /\ Put(Object(doc, x, node[x].of, IF parent \in rows THEN parent ELSE NoRow))
  /\ UNCHANGED dbVars

ChunkStream(x) ==
  getParentObject(x, "Chunk", "stream", chunks[node[x].row], Active)
TransmissionChunk(x) ==
  getParentObject(x, "Transmission", "chunk",
                  transmissions[node[x].row], DOMAIN chunks)
TranscriptionTransmission(x) ==
  getParentObject(x, "Transcription", "transmission",
                  transcriptions[node[x].row], DOMAIN transmissions)

(* The transcription whose own id is the transmission's; it may well be    *)
(* another transmission's.                                                 *)
TranscriptionOf(t) == t

TransmissionTranscription(x) ==
  LET n == TranscriptionOf(node[x].row)
  IN  /\ Asked(x, "Transmission", "transcription")
      /\ Put(IF n \in DOMAIN transcriptions
              THEN Object(doc, x, node[x].of, n) ELSE Nothing(x))
      /\ UNCHANGED dbVars

RegisterStream(x) ==
  /\ Asked(x, "Mutation", "registerStream")
  /\ AddStream
  /\ Put(Object(doc, x, "Stream", Len(streams) + 1))

(* What is answered is the variable that names the table in the DELETE; it *)
(* stays empty.                                                            *)
RemoveStream(x) ==
  /\ Asked(x, "Mutation", "removeStream")
  /\ IsFor("Stream")
  /\ DeleteStream(doc.about.id)
  /\ Put(Object(doc, x, "Stream", NoRow))

Refuse(x) ==
  /\ node' = Nothing(x) ++ node
  /\ errors' = errors \cup {x}
  /\ UNCHANGED <<dbVars, doc, nils>>

KindAsked ==
  [getStreamById |-> "Stream", getChunkById |-> "Chunk",
   getTransmissionById |-> "Transmission", removeStream |-> "Stream"]

WrongID(x) ==
  /\ InTurn(x)
  /\ Parent(x) = Root /\ NameOf(x) \in DOMAIN KindAsked
  /\ ~IsFor(KindAsked[NameOf(x)])
  /\ Refuse(x)
  /\ UNCHANGED faults

(* A display name is unique, among removed streams too. *)
NameInUse(x) ==
  /\ Asked(x, "Mutation", "registerStream")
  /\ streams # << >>
  /\ Refuse(x)
  /\ UNCHANGED faults

(* The database or the storage fails. *)
ResolverFails(x) ==
  /\ InTurn(x)
  /\ faults < MaxFaults
  /\ faults' = faults + 1
  /\ Refuse(x)

Resolver(x) ==
  /\ node[x].is = "waiting"
  /\ \/ GetStreams(x) \/ GetStreamByID(x) \/ GetChunkByID(x)
     \/ GetTransmissionByID(x)
     \/ StreamChunks(x) \/ StreamTransmissions(x) \/ ChunkTransmissions(x)
     \/ DownloadURL(x)
     \/ ChunkStream(x) \/ TransmissionChunk(x) \/ TranscriptionTransmission(x)
     \/ TransmissionTranscription(x)
     \/ RegisterStream(x) \/ RemoveStream(x)
     \/ WrongID(x) \/ NameInUse(x) \/ ResolverFails(x)

-----------------------------------------------------------------------------
(* Objects and lists *)

(* Mutant: a list of one element is run in place, and waited for as well.  *)
CompleteUnlessOne(x) ==
  LET parts == Children(x)
  IN  /\ \A y \in parts : Answered(y)
      /\ node[x].of \in DOMAIN Lists => Cardinality(parts) # 1
Complete(x) == \A y \in Children(x) : Answered(y)
Ready == {x \in DOMAIN node : node[x].is = "open" /\ Complete(x)}

(* An element of a list is never null, whatever its type. *)
IsInvalid(x) ==
  LET type == node[x].of
  IN  \E y \in Children(x) :
        /\ type \in DOMAIN Lists \/ NameOf(y) \in Counts[type]
        /\ node[y].is = "null"

(* All goroutines of an object or a list are through: it is written, or    *)
(* null.  With the object at the root, the response is ready.              *)
Dispatched(x) ==
  /\ node' = [node EXCEPT ![x].is = IF IsInvalid(x) THEN "null" ELSE "done"]
  /\ UNCHANGED <<dbVars, doc, errors, nils, faults>>

(* What a subscription sends: the rows of a table, one at a time.  The     *)
(* condition on the stream's id is applied to the table that is polled,    *)
(* and transcriptions are joined by a column that they do not have.        *)
Subscribed(d, f) ==
  CASE f = "chunks" -> DOMAIN chunks
    [] f = "allTransmissions" -> DOMAIN transmissions
    [] f = "transmissions" -> DOMAIN transmissions \cap {d.about.id}
    [] f = "allTranscriptions" -> DOMAIN transcriptions
    [] f = "transcriptions" -> {}

(* A query or a mutation comes in, or the poller has a row for one that is *)
(* subscribed.                                                             *)
Exec(d) ==
  /\ ~Running
  /\ doc' = d
  /\ errors' = {} /\ nils' = {} /\ faults' = 0
  /\ IF d.op # "Subscription"
     THEN node' = Object(d, Root, d.op, NoRow)
     ELSE LET x    == Child(Root, d.top[1])
              type == Fields[d.op][d.top[1]].of
          IN  \E row \in Subscribed(d, d.top[1]) :
                node' = Only(Root, Node("open", d.op, NoRow))
                          ++ Object(d, x, type, row)
  /\ UNCHANGED dbVars

-----------------------------------------------------------------------------

Init ==
  /\ streams = << >> /\ chunks = << >>
  /\ transmissions = << >> /\ transcriptions = << >>
  /\ doc \in Docs
  /\ node = << >>
  /\ errors = {} /\ nils = {}
  /\ faults = 0

(* Other clients, the download command and the transcriber *)
Others ==
  \/ /\ AddStream \/ \E s \in Active : DeleteStream(s)
     /\ UNCHANGED execVars
  \/ \E s \in DOMAIN streams : SaveChunk(s)
  \/ \E c \in DOMAIN chunks : SaveTransmission(c)
  \/ \E t \in DOMAIN transmissions : SaveTranscription(t)

(* Objects and lists that are ready touch nothing that is shared: that     *)
(* they come first leaves out no outcome.                                  *)
Executor ==
  \/ \E x \in Ready : Dispatched(x)
  \/ Ready = {} /\ \E x \in DOMAIN node : Resolver(x)

Next ==
  \/ Executor
  \/ Ready = {} /\ (Others \/ \E d \in Docs : Exec(d))

Spec == Init /\ [][Next]_vars

(* The goroutines of an execution go on; resolvers return. *)
FairSpec == Spec /\ WF_vars(Executor)

-----------------------------------------------------------------------------
(* Properties *)

(* Every variable has its type; a row belongs to one that was saved.       *)
TypeOK ==
  /\ streams \in Seq(BOOLEAN)
  /\ chunks \in Seq(DOMAIN streams)
  /\ transmissions \in Seq(DOMAIN chunks)
  /\ transcriptions \in Seq(DOMAIN transmissions)
  /\ doc \in Docs
  /\ \A x \in DOMAIN node :
       /\ node[x].is \in {"waiting", "open", "done", "null"}
       /\ node[x].of \in {Scalar} \cup DOMAIN Lists \cup DOMAIN Fields
       /\ x # Root => Parent(x) \in DOMAIN node
  /\ errors \cup nils \subseteq DOMAIN node
  /\ faults \in 0 .. MaxFaults

Required(x, y) ==
  node[x].of \in DOMAIN Lists \/ NameOf(y) \in NonNull[node[x].of]

(* No object is answered with a null where schema.graphql has a "!", and   *)
(* no list with a null in it.  (The top of a subscription's message is: it *)
(* is written around its object, null or not.)                             *)
SchemaKept ==
  \A x \in DOMAIN node :
    node[x].is = "done" /\ node[x].of # "Subscription" =>
      \A y \in Children(x) : Required(x, y) => node[y].is # "null"

(* A null says that there is nothing, or has an error at its position, or  *)
(* stands for an object or a list in which something required is null: no  *)
(* failure takes more of the answer with it than schema.graphql says.      *)
NullsExplained ==
  \A x \in DOMAIN node :
    node[x].is = "null" =>
      \/ x \in nils \cup errors
      \/ \E y \in Children(x) : Required(x, y) /\ node[y].is = "null"

(* If no resolver fails and no stream was removed, only what the client    *)
(* gave may be wrong, at the top of its document: whatever is saved        *)
(* between the queries of an execution, what one of them found the next    *)
(* ones find too.  (A client that removes a stream is answered with one    *)
(* that is empty, whose times are null.)                                   *)
NoErrorWithoutCause ==
  Active = DOMAIN streams /\ faults = 0 =>
    \A x \in errors :
      Parent(x) = Root \/ NameOf(Parent(x)) = "removeStream"

Shown(x) == node[x].is \in {"open", "done"}
StreamOf(n) ==
  CASE n.of = "Stream" -> n.row
    [] n.of = "Chunk" -> chunks[n.row]
    [] n.of = "Transmission" -> chunks[transmissions[n.row]]

(* The streams that enclose a position with no transcription between them  *)
Encloses(y, x) ==
  /\ IsStrictPrefix(y.path, x.path) /\ IsPrefix(y.at, x.at)
  /\ node[y].of = "Stream"
  /\ "transcription" \notin {x.path[i] : i \in Len(y.path) + 1 .. Len(x.path)}
Innermost(S) == CHOOSE y \in S : \A z \in S : Len(z.path) <= Len(y.path)

(* What is found on a way down from a stream, and up again, is that        *)
(* stream's; only a stream that was removed meanwhile comes back empty.    *)
(* Nothing is claimed of what stands below such an empty stream, nor below *)
(* a transcription: there the resolvers do give other streams' rows        *)
(* (StreamChunks, TranscriptionOf).                                        *)
BelongsToStream ==
  \A x \in DOMAIN node :
    LET around == {y \in DOMAIN node : Encloses(y, x)}
        s      == node[Innermost(around)].row
    IN  /\ Shown(x) /\ node[x].of \in {"Stream", "Chunk", "Transmission"}
        /\ around # {} /\ s # NoRow
        => IF node[x].row = NoRow THEN s \notin Active
           ELSE StreamOf(node[x]) = s

(* Every execution ends: no object waits for a field that never comes.     *)
ExecutionEnds == Running ~> ~Running
=============================================================================
