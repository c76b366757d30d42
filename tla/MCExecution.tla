---------------------------- MODULE MCExecution ----------------------------
(* Execution over tables of two rows, with a document for each way through *)
(* the graph.                                                              *)
EXTENDS Execution

Document(op, kind, id, top, paths) ==
  [op |-> op, about |-> [kind |-> kind, id |-> id], top |-> top,
   select |-> UNION {{SubSeq(p, 1, n) : n \in 1 .. Len(p)} : p \in paths}]

(* getStreamById(1) { transmissions { edges { *)
(*   transcription { transmission { id } } } } } *)
Speech ==
  LET t == <<"getStreamById", "transmissions", "edges", "item">>
  IN  Document("Query", "Stream", 1, <<"getStreamById">>,
        {t \o <<"transcription", "transmission", "id">>})

(* getStreamById(1) { chunks { pageInfo { endCursor } edges { *)
(*   stream { createdAt } } } } *)
UpAgain ==
  LET c == <<"getStreamById", "chunks">>
  IN  Document("Query", "Stream", 1, <<"getStreamById">>,
        {c \o <<"pageInfo", "endCursor">>,
         c \o <<"edges", "item", "stream", "createdAt">>})

(* getChunkById(1) { transmissions { edges { id } } stream { *)
(*   transmissions { edges { chunk { stream { id } } } } } } *)
OneChunk ==
  LET s == <<"getChunkById", "stream">>
  IN  Document("Query", "Chunk", 1, <<"getChunkById">>,
        {<<"getChunkById", "transmissions", "edges", "item", "id">>,
         s \o <<"transmissions", "edges", "item", "chunk", "stream", "id">>})

(* getStreams { edges { id chunks { edges { id } } } } *)
(* getTransmissionById("Stream#1") { id } *)
Everything ==
  Document("Query", "Stream", 1, <<"getStreams", "getTransmissionById">>,
    {<<"getStreams", "edges", "item", "id">>,
     <<"getStreams", "edges", "item", "chunks", "edges", "item", "id">>,
     <<"getTransmissionById", "id">>})

(* getTransmissionById(2) { downloadUrl chunk { stream { createdAt } } } *)
OneTransmission ==
  Document("Query", "Transmission", 2, <<"getTransmissionById">>,
    {<<"getTransmissionById", "downloadUrl">>,
     <<"getTransmissionById", "chunk", "stream", "createdAt">>})

(* allTranscriptions { transmission { chunk { stream { createdAt } } } } *)
Message ==
  Document("Subscription", "none", 0, <<"allTranscriptions">>,
    {<<"allTranscriptions", "transmission", "chunk", "stream", "createdAt">>})

(* transmissions(1) { id } *)
OfStream ==
  Document("Subscription", "Stream", 1, <<"transmissions">>,
    {<<"transmissions", "id">>})

(* removeStream(1) { createdAt chunks { edges { id } } } *)
(* registerStream { createdAt } *)
Replace ==
  Document("Mutation", "Stream", 1, <<"removeStream", "registerStream">>,
    {<<"removeStream", "createdAt">>,
     <<"removeStream", "chunks", "edges", "item", "id">>,
     <<"registerStream", "createdAt">>})

AllDocs ==
  {Speech, UpAgain, OneChunk, Everything, OneTransmission, Message, OfStream,
   Replace}
=============================================================================
