---------------------------- MODULE GraphSchema ----------------------------
(***************************************************************************)
(* The tables gqlgen has generated from schema.graphql: for each type what *)
(* its field functions do with the value they get, and which of its fields *)
(* its object function counts as invalid when they are null.  Execution    *)
(* runs documents over these tables.                                       *)
(***************************************************************************)

(* Two tables in one; where both have an entry, the first one's *)
f ++ g ==
  [x \in DOMAIN f \cup DOMAIN g |-> IF x \in DOMAIN f THEN f[x] ELSE g[x]]

(* A field function gives an answer of some type.  It asks a resolver, or  *)
(* reads a field of the object it has.  A nil is passed on as null, or     *)
(* reported as "must not be null".                                         *)
Field(type, asks, nullable) ==
  [of |-> type, asks |-> asks, nullable |-> nullable]

Scalar == "scalar"
Reads(names) == [f \in names |-> Field(Scalar, FALSE, FALSE)]
Asks(type) == Field(type, TRUE, FALSE)
AsksOrNull(type) == Field(type, TRUE, TRUE)

(* The fields of every entity *)
NodeFields == {"id", "createdAt", "updatedAt"}

(* MarshalTime gives null for the zero time. *)
Times == {"createdAt", "updatedAt", "timestamp"}

-----------------------------------------------------------------------------
(* Field functions *)

ChunkScalars == Reads(NodeFields \cup {"timestamp", "sha256"})
ChunkLinks ==
  [downloadUrl   |-> AsksOrNull(Scalar),
   transmissions |-> Asks("TransmissionsConnection"),
   stream        |-> Asks("Stream")]

StreamScalars == Reads(NodeFields \cup {"displayName", "url"})
StreamLinks ==
  [chunks        |-> Asks("ChunksConnection"),
   transmissions |-> Asks("TransmissionsConnection")]

TransmissionScalars == Reads(NodeFields \cup {"timestamp", "length", "sha256"})
(* Mutant: a transmission must have a transcription. *)
TransmissionLinksStrict ==
  [downloadUrl   |-> AsksOrNull(Scalar),
   transcription |-> Asks("Transcription"),
   chunk         |-> Asks("Chunk")]
TransmissionLinks ==
  [downloadUrl   |-> AsksOrNull(Scalar),
   transcription |-> AsksOrNull("Transcription"),
   chunk         |-> Asks("Chunk")]

TranscriptionScalars == Reads(NodeFields \cup {"content"})
TranscriptionLinks == [transmission |-> Asks("Transmission")]

PageInfoFields ==
  Reads({"hasNextPage", "length"})
    ++ [endCursor |-> Field(Scalar, FALSE, TRUE)]

ConnectionTo(list) ==
  [edges    |-> Field(list, FALSE, TRUE),
   pageInfo |-> Field("PageInfo", FALSE, FALSE)]
ChunksConnectionFields == ConnectionTo("Chunks")
StreamsConnectionFields == ConnectionTo("Streams")
TransmissionsConnectionFields == ConnectionTo("Transmissions")

QueryPages == [getStreams |-> Asks("StreamsConnection")]
QueryLookups ==
  [getStreamById       |-> AsksOrNull("Stream"),
   getChunkById        |-> AsksOrNull("Chunk"),
   getTransmissionById |-> AsksOrNull("Transmission")]

RegisterStreamField == [registerStream |-> Asks("Stream")]
RemoveStreamField == [removeStream |-> Asks("Stream")]

(* The object comes from a channel; marshalN accepts no nil. *)
SubscriptionToAll ==
  [chunks            |-> Asks("Chunk"),
   allTransmissions  |-> Asks("Transmission"),
   allTranscriptions |-> Asks("Transcription")]
SubscriptionToStream ==
  [transmissions  |-> Asks("Transmission"),
   transcriptions |-> Asks("Transcription")]

Fields ==
  [Chunk                   |-> ChunkScalars ++ ChunkLinks,
   Stream                  |-> StreamScalars ++ StreamLinks,
   Transmission            |-> TransmissionScalars ++ TransmissionLinks,
   Transcription           |-> TranscriptionScalars ++ TranscriptionLinks,
   PageInfo                |-> PageInfoFields,
   ChunksConnection        |-> ChunksConnectionFields,
   StreamsConnection       |-> StreamsConnectionFields,
   TransmissionsConnection |-> TransmissionsConnectionFields,
   Query                   |-> QueryPages ++ QueryLookups,
   Mutation                |-> RegisterStreamField ++ RemoveStreamField,
   Subscription            |-> SubscriptionToAll ++ SubscriptionToStream]

(* The list marshallers *)
ChunkList == [Chunks |-> "Chunk"]
StreamList == [Streams |-> "Stream"]
TransmissionList == [Transmissions |-> "Transmission"]
Lists == ChunkList ++ StreamList ++ TransmissionList

-----------------------------------------------------------------------------
(* Object functions: the fields that are counted in Invalids when null *)

(* Mutant: one required field is not counted. *)
ChunkCountsLess == DOMAIN ChunkScalars \cup {"transmissions"}
ChunkCounts == DOMAIN ChunkScalars \cup {"transmissions", "stream"}
StreamCounts == DOMAIN StreamScalars \cup {"chunks", "transmissions"}
(* Mutant: a nullable field is counted. *)
TransmissionCountsMore ==
  DOMAIN TransmissionScalars \cup {"chunk", "transcription"}
TransmissionCounts == DOMAIN TransmissionScalars \cup {"chunk"}
TranscriptionCounts == DOMAIN TranscriptionScalars \cup {"transmission"}
PageInfoCounts == {"hasNextPage", "length"}
ChunksConnectionCounts == {"pageInfo"}
StreamsConnectionCounts == {"pageInfo"}
TransmissionsConnectionCounts == {"pageInfo"}
QueryCounts == {"getStreams"}
MutationCounts == {"registerStream", "removeStream"}
(* A message is written around its object, null or not. *)
SubscriptionCounts == {}

Counts ==
  [Chunk                   |-> ChunkCounts,
   Stream                  |-> StreamCounts,
   Transmission            |-> TransmissionCounts,
   Transcription           |-> TranscriptionCounts,
   PageInfo                |-> PageInfoCounts,
   ChunksConnection        |-> ChunksConnectionCounts,
   StreamsConnection       |-> StreamsConnectionCounts,
   TransmissionsConnection |-> TransmissionsConnectionCounts,
   Query                   |-> QueryCounts,
   Mutation                |-> MutationCounts,
   Subscription            |-> SubscriptionCounts]

-----------------------------------------------------------------------------
(* schema.graphql: the fields that are declared with "!" *)

NonNull ==
  [Chunk |-> {"id", "createdAt", "updatedAt", "timestamp", "sha256",
              "transmissions", "stream"},
   Stream |-> {"id", "createdAt", "updatedAt", "displayName", "url", "chunks",
               "transmissions"},
   Transmission |-> {"id", "createdAt", "updatedAt", "timestamp", "length",
                     "sha256", "chunk"},
   Transcription |-> {"id", "createdAt", "updatedAt", "content",
                      "transmission"},
   PageInfo |-> {"hasNextPage", "length"},
   ChunksConnection |-> {"pageInfo"},
   StreamsConnection |-> {"pageInfo"},
   TransmissionsConnection |-> {"pageInfo"},
   Query |-> {"getStreams"},
   Mutation |-> {"registerStream", "removeStream"},
   Subscription |-> {"chunks", "allTransmissions", "transmissions",
                     "allTranscriptions", "transcriptions"}]
=============================================================================
