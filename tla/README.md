# Radio Chatter: TLA+ models and proofs

Radio Chatter records radio streams (`download`), turns the speech in them into
text (`transcribe`) and publishes both over GraphQL (`serve`) to a web frontend.
This directory holds TLA+ modules that model the program's own logic, TLC
configurations that check them on small instances, and TLAPS proofs of what
holds for every instance. Line numbers refer to the source tree as it is beside
this directory.

    tlc -workers 2 -config MCArchiver.cfg MCArchiver     # a model-checking run
    tlapm ArchiverProofs.tla                             # a proof module

`PROJECT.json` lists, for every definition that models code, the lines it models
(`map`), and for every checked property a mutation of the model that breaks it.
Operators commented "Mutant:" exist for that only: they are what a plausible bug
would make of the definition that follows, and no specification uses them.

## 1. The system

```
 ffmpeg --stderr--> parser --callbacks--> archiver --ops--> Execute --+--> blobs (disk)
 (per stream)      parseStderr            completeFile      archive   |
        |  chunk files                                                +--> chunks, transmissions
        +------------------------------------------------> read, removed        |
                                                                                v
 frontend <-- pages, subscriptions -- GraphQL server <-- database <-- transcribe processes
```

| Component | State it keeps | Operations | Interacts with | What is hard | Correct when |
|---|---|---|---|---|---|
| Archiver (`archive.go` 17-136) | current file, start of the recording, file index, whether it is silent, start of the speech, pieces | five callbacks, `completeFile` | the parser calls it; it sends operations | two clocks: the silence filter runs ahead of the segment muxer; silences across ends of chunks | pieces lie in their chunk (but see section 3), in order, and contain the speech |
| Download pipeline (`download.go`, `process.go`, `preprocess.go` 44-147, `archive.go` 145-183) | ffmpeg, pipe, channel, errgroup, context, chunk files, rows | start, parse, send, execute, interrupt | blobs, database | five goroutines and processes per stream; every step may fail; an interrupt at any time | nothing is deleted unsaved, rows have blobs and no gaps, no panic, it ends |
| Splitting (`archive.go` 186-324) | one temporary file per piece, the group's first error | cut, store, save, clean up | ffmpeg, blobs, database | concurrent jobs of which some fail | the chunk's file outlives an incomplete split; errors are reported as what they were |
| ffmpeg output parser (`preprocess.go` 117-292) | the line scanner | `parseStderr`, `process` | the archiver's callbacks | end of the pipe against the closing of the pipe | each callback in its order |
| Blob storage (`on_disk_storage/storage.go`) | files named by hash | `Store`, `Link` | everyone who archives | two writers of one blob; writes that are cut short | what was stored is whole |
| Broadcast channel (`broadcast.go`) | listeners, their buffers | `Subscribe`, cancel, the loop | nobody in the program: only its tests use it | swap-remove and close against send | no panic, nobody forgotten, in order |
| Transcriber (`transcribe.go`) | none but the database | query, transcribe a batch, save | blobs, Whisper, database | restarts, several processes, poison items | each transmission is transcribed, boundedly often |
| Subscriptions (`graphql/helpers.go` 137-241) | time of the last item sent | `begin`, `poll` | database, websocket | creation time is not commit time; clients that go | none skipped, none old, no goroutine left |
| Paginator, registry (`graphql/pagination.go`, `stream.go`) | the streams and chunks tables; a client's cursor | pages, register, remove | database, frontend | no ORDER BY; rows come and go between pages | each row once; walks end |
| Resolvers and the generated code that runs them (`schema.resolvers.go`, `helpers.go`, `generated/server.generated.go`) | the four tables; the answer so far, its errors | a document's execution; look-ups of children, parents, transcriptions, links; the mutations | database, storage, clients | resolvers of one document run concurrently, each with a query of its own, while rows come and streams go; nulls take others with them | no null where the schema forbids one, and no other; what is shown together belongs together; it ends |
| Storage server and serve lifecycle (`storage.go` 19-92, `serve.go`) | an error channel, two goroutines | `New`, `Close`, shutdown | | late error against `close` | no panic, the end waits for requests |
| Stream table (`frontend/.../StreamTable.tsx`) | React state | a walk and two subscriptions | GraphQL server | closures over old state | each transmission one row |
| HTTP wiring, command line, pages, deployment | none of their own | | | | not modelled |

`PROJECT.json` has the complete list with a status each, and under `hazards` the
places where this code can go wrong in ways a test hardly reaches.

## 2. Modules

| Module | Models | Runs (`MC*.cfg`) | Proofs |
|---|---|---|---|
| `Archiver` | the archiver and, as its environment, ffmpeg's filter and muxer | `archiver` | `ArchiverProofs` |
| `ChunkLog` | abstract: the chunks table as a gap-free log that stops | (refined by `Pipeline`) | |
| `Pipeline` | the processes, goroutines, channel, errgroup and `Execute` of `download` | `pipeline`, `pipeline_errors`, `pipeline_split` | `PipelineProofs` |
| `SplitChunk` | `splitChunk`, `splitAudio`, the removal of the chunk's file | `split_chunk` | `StorageProofs` |
| `BlobStore` | `Store` over a file system's steps | `blob_store` | `StorageProofs` |
| `Broadcast` | the broadcast goroutine, `Subscribe`, cancel | `broadcast` | `BroadcastProofs` |
| `Transcriber` | transcribe processes and their supervisor | `transcriber` | `TranscriberProofs` |
| `Poller` | subscriptions, and the table they read | `subscriptions`, `subscription_leaves` | `PollerProofs` |
| `Pages` | streams and chunks tables, the two mutations, paged queries, a walking client | `pages` | `PagesProofs` |
| `GraphSchema` | what gqlgen generated for each type: which fields ask a resolver, which may be null, which make their object null | (used by `Execution`) | |
| `Execution` | the execution of a document over these tables, all resolvers, the four tables and those who change them | `execution` | `ExecutionProofs` |

`Pipeline` is the composition of ffmpeg, parser, `preprocess` and `archive`; its
property `LogSpec` is `ChunkLog` with the chunks table as the log. The others
meet in shared state only: `Pipeline` takes from `Archiver` that operations are
about consecutive files, and treats a chunk's `Store` as one step, whose insides
are `BlobStore`. `Execution` composes resolvers, generated code and tables; its
pages are whole tables, whose cutting is `Pages`, and its subscriptions begin
where `Poller` has sent a row.

### How they correspond to the code

* **Archiver**: the variables of `type archiver struct`, plus `ops`, the
  sequence of operations that were offered to the channel. Each callback is an
  operator (`onSilenceStart`, ...); `completeFile` is called inside them as in
  the code. An action is one event of ffmpeg together with the callback it
  leads to: `FilterQuiet` and `FilterLoud` (a tick goes through the silence
  filter, which may report a start or an end), `MuxTick` (which may open a
  file), and the end of the output. Times are ticks; the muxer may lag `Lag`
  ticks behind, since `stderr.txt` shows a silence of the next chunk printed
  before that chunk's file is opened. `Lag < SilenceMin` is assumed: a larger lag
  would let a silence begin and be reported before the previous file was opened.
* **Pipeline**: chunks of a stream are numbered. A `StderrPipe` is two counters
  (lines written, lines read) and `pipeClosed`, which `cmd.Wait` sets whatever is
  left in it. The unbuffered `archiveOps` is a rendezvous (`Send`); `Drop` is
  the other branch of `completeFile`'s select. The steps of `Execute` are
  actions of their own because an interrupt can come between any two; only the
  database's look at the context and its commit are one step (`Save`), between which
  nobody reads the table, and after which a failing insert is `SaveFails`. Each
  fault the code handles is an action (`StoreFails`, ...) enabled by `Faults`.
* **SplitChunk** starts where `Execute`'s guard (`archive.go:172`) lets it. In the
  program at this commit it never does (run `pipeline_split`), so this is a model
  of the function and not of a reachable part of the command. A span may end before
  it starts, since the archiver makes such spans. A temporary file that cannot be
  removed (`archive.go:216`) is left out.
* **BlobStore**: `os.WriteFile` is an open that truncates, then one step for each
  block at the writer's own offset. A file is the set of its good blocks.
* **Broadcast**: the mutex is held from `Lock` to `Unlock`; `Offer` is one
  iteration of the loop over the listeners, a non-blocking send. `Send` puts a message
  in the source, which may have a buffer (`broadcast_test.go:64` gives it one), `Take` is
  the goroutine's `range`. A listener may call its cancel again.
* **Transcriber**: `Query`, `Work`, `Save` per batch; Whisper and the download of
  a blob succeed or fail. `http.Get` (`transcribe.go:280`) is not given the context, so
  that an interrupt is noticed after the download. `Restart` is the supervisor of
  `docker-compose.yml`.
* **Poller**: `Subscribe` returns the channel; the goroutine reads the clock later
  (`Begin`), and only then is a subscription said to have begun: `resolver_test.go:84`
  sleeps for that. `Create` takes a row's creation time, `Commit` makes it visible,
  and other rows may be committed between the two. `Polled` is the query's set
  of rows, with times compared as times (see section 3); as there is no ORDER BY, `Send` takes any of them next. A channel has
  room for one. `NoticeDone` is the `ctx.Done()` of both selects.
* **Pages**: a page is a set of matching rows of the size LIMIT allows, and
  which of them came last. Node ids carry their table, as `modelId` makes them
  and `decodeModelId` checks them. The client is the frontend's (it ends at a
  page without a cursor) or one that believes `hasNextPage`.
* **GraphSchema** has one definition per group of field functions (`_Chunk_id`, ...),
  object function (`_Chunk`, ...) and marshaller of `server.generated.go`, as a table:
  8000 lines of code of a few shapes. `NonNull` is `schema.graphql` itself, which the
  tables are checked against and which they do not use.
* **Execution**: the answer is a tree of positions. A `waiting` node is a field
  whose resolver has not answered; an `open` one is an object in `Dispatch`, or a
  list in `wg.Wait()`. A resolver is one action although `getParentObject` makes two
  queries: the first finds the child, which is never deleted, again, and its
  reference never changes. Fields without resolvers are written with their object.
  `Dispatched` counts nulls as `Invalids` does. The fields of a mutation's top run in
  turn. `Others` are the download command, the transcriber and other clients, at any
  time between two resolvers.

## 3. What the runs show

| Run | Instance | Shows |
|---|---|---|
| `archiver` | chunks of 4 ticks, silences from 3, tiny up to 1, lag up to 2, 12 ticks | over every placement of sound in three chunks and an end at any moment: pieces lie in their chunk, but for a last one that a silence has overtaken (see below); they are in order, keep the speech of chunks that were followed by another, and contain no silence that was reported; time stamps are right |
| `pipeline` | two streams, one with up to 3 chunks, one that never brings any but may fail or be stopped; a pipe for one line; every fault | `RowsHaveBlobs`, `ReadWhenComplete`, `NothingDeletedUnsaved`, `NoSendOnClosed`, `CleanExitComplete`; the table is a `ChunkLog`; the command ends (`Stops`) |
| `split_chunk` | two pieces with spans around the buffer's length and half a millisecond, or that end before they start | the file is kept until all is split, no temporary is left, causes are reported, cuts begin and end where spans and buffers say, it ends |
| `blob_store` | two writers, two blobs of three blocks, errors and crashes | what a file lacks is in some writer's hands; stored blobs become whole, unless a write of them was given up |
| `broadcast` | three listeners, capacity 1, a source with a buffer for one, two messages | no send on or second close of a closed channel, nobody forgotten, order; the end closes all, held up by none |
| `transcriber` | three transmissions, one poison, two processes, batches of 2, two faults | at most one transcription per process; all are transcribed in the end; an interrupt ends a process with a backlog too |
| `subscriptions` | one client, three rows, times 0-2 | nothing due is skipped, nothing from before the goroutine's start is sent, what is due arrives, no goroutine is left behind |
| `pages` | two streams, three chunks, limits 1 and 2, counts -1, 0, 1, 3 | a walk in order gets each row once; the cursors it is given are accepted; every walk ends |
| `execution` | eight documents, two streams, five rows in all, one fault per execution | no null where the schema has "!"; each null is explained; no error without a cause; what is shown below a stream is that stream's, unless the stream came back empty or a transcription stands between; every execution ends |

Why these bounds are enough. The archiver needs a chunk with a predecessor and a
successor for its tails. In `Pipeline` streams meet only in the errgroup and its
context, so that a second stream need only fail, end or be cancelled, while a
third chunk is archived while two others are before and behind it; a pipe for
one line makes ffmpeg wait. Two writers, or two processes, are what it takes for
each race on a file or a row. Capacity 1 and two messages fill a listener's buffer, and
the source's while the goroutine is busy; without a buffer `Send` has fewer steps. Three
rows on three times share times, overtake one another and come in any order,
and subscriptions meet only in the table and in the server's end; `subscription_leaves`
has two of them. `Execution` needs a stream that is removed and one beside it, and
a row of each table under one of them (five rows); the documents go through every
resolver, down to children and up again, with lists of none, one and two elements,
and one failure can come at any place. Limits below the number of rows make pages end inside the table.
What is proved (section 4) holds without these bounds.

### Fairness

* `Pipeline`: goroutines are scheduled (weak fairness of the parser, `preprocess`
  and `archive`), the context's SIGINT is sent, and an ffmpeg that got it exits
  (by itself, or killed after `WaitDelay`). A stream need not end by itself, and
  neither an interrupt nor a fault is forced.
* `BlobStore`: a `Store` that was called goes on; nobody has to call it.
* `Broadcast`: the goroutine is scheduled; listeners owe nothing, neither reading
  nor cancelling, and the source may stay open.
* `Transcriber`: processes go on and are restarted (`restart: unless-stopped`);
  faults are finitely many (`MaxFaults`). Downloads end: nothing in the code bounds
  them, so that `InterruptEnds` says nothing of a server that never answers.
* `Poller`: the goroutine is scheduled, the timer ticks for ever, and a client
  that is there reads its channel (gqlgen's transport does).
* `Execution`: goroutines go on and resolvers return, with an answer or an error
  (each makes one or two queries and holds nothing that another waits for). Objects
  and lists that are complete come before resolvers and others: they touch nothing
  that is shared, and the order among them changes no outcome.
* `Pages`: queries are answered. The bound on rows stands for a table that grows
  more slowly than it is read.

### Where the code does not do what it says

Three runs have the expected result "violation":

* `pipeline_split`: `archive.go:172` looks at `chunk.Transmissions`, which nothing has
  filled, so no transmission is ever split off; `archive_test.go:339` expects seven.
* `pipeline_errors`: `cmd.Wait` (`preprocess.go:89`) closes the pipe under the parser;
  a recording that went well ends in an error and loses lines. The documentation
  of `StderrPipe` asks for all reads to be done before `Wait`.
* `subscription_leaves`: a client that goes just before a poll ends the server for
  all, by `logger.Fatal` in `poll` (`helpers.go:227`); the caller's handling of the
  error (`helpers.go:181`) is never reached.

Seen while modelling, and left out of the properties on purpose (no run states them):

* After an interrupt the last chunk may be dropped, by either branch of a select
  (`archive.go:132`, `process.go:55`), though `archive.go:79` says it is made sure that
  it gets persisted. `CleanExitComplete` is therefore about ends without interrupt.
* If ffmpeg cannot be started, `Preprocess` returns before its parser goroutine has
  called `onFinished` (`preprocess.go:79`), against `preprocess.go:218`. The call
  finds no current file and sends nothing, so `NoSendOnClosed` holds.
* When a silence lasts over the end of a chunk and is over before the next file is
  opened, `completeFile` sees sound that goes on and adds a piece from the end of the
  silence to the end of the chunk (`archive.go:117`): empty or inverted, and
  `archive_test.go:104` expects one, from 60.4186 s to 60 s. `PiecesWithinChunk` excepts the last
  piece of a chunk if it is of this kind (`Overtaken`), and says how far it reaches.
  `splitAudio` would cut a window around the end of the chunk for it, or, where it is
  inverted by more than two buffers, ask ffmpeg for a duration below zero (`SplitChunk`
  has such spans).
* Sound that is still on when the recording ends is dropped (`completeFile(false)`):
  `SpeechIsKept` is about chunks that were followed by another.
* A silence that ends within 10 ms of the end of a chunk leaves a tiny piece
  (`archive.go:118`), though tiny ones are meant to be ignored (`archive.go:92`).
* A write that is cut short leaves a file under the final name, which each later
  `Store` takes for the blob (`storage.go:126`, `146`; the FIXME at line 143 asks for a
  rename). `EventuallyWhole` excepts such blobs (`torn`).
* `Store` may return a key while another writer has only opened its file:
  `EventuallyWhole` says "becomes", not "is".
* A listener that subscribes after the broadcast goroutine has ended is never closed
  (`broadcast.go:54`); `ListenersClosed` is about those from before.
* A transmission that cannot be transcribed fails its whole batch, and may be chosen
  first for ever: `EventuallyTranscribed` excepts the time while one is there.
* The last item of a subscription is sent again at every tick (`>=` in
  `helpers.go:221`, "later than" in `helpers.go:148`). With `>` rows that share a
  time would be lost (the mutant of `NothingSkipped`).
* A row that is committed after a younger one was sent is never delivered (`late`
  in `Poller`).
* SQLite compares times as texts. Rows have `created_at` in the local zone (gorm's
  `time.Now`), as has the first `lastCheck`; after the first row that was sent,
  `lastCheck` is in UTC (`helpers.go:82`, `91`, `190`). Where the local zone is not UTC, rows
  are then skipped or sent again by the zone's distance. `Poller` compares times as
  times, and holds where the zone is UTC or the database is PostgreSQL.
* A count below zero escapes the limit (`pagination.go:36`), and `hasNextPage` is
  true of empty pages for counts of zero and less.
* `stream remove` never removes: gorm refuses to delete without a condition
  (`stream.go:107`). It is a stuttering step of `Pages`.
* `removeStream` answers with an empty stream, `Stream#0` (`schema.resolvers.go:80`), whose
  zero times are marshalled as null: a client that selects `createdAt` gets
  `data: null` and an error although the stream was removed.
* The parent of a chunk whose stream was removed is such an empty stream too, since
  `Find` does not fail (`helpers.go:288`). gorm ignores a condition on a zero field, so
  its `chunks` are the chunks of all streams. `BelongsToStream`
  leaves out what stands below a stream that is empty.
* A transmission's transcription is looked up by the transmission's id
  (`schema.resolvers.go:272`) instead of by `transmission_id`: it is another
  transmission's as soon as transcriptions are not numbered as transmissions are, and
  in `Transcriber` batches, failures and repetitions number them otherwise.
  `TranscriptionOf` models the look-up as it is. No property states whose transcription is
  shown, and `BelongsToStream` leaves out what stands below one.
* The subscription `transmissions(streamID)` compares the stream's id with
  `transmissions.id` (`schema.resolvers.go:206`), and joins tables before they are named,
  which SQLite accepts and PostgreSQL does not; `transcriptions(streamID)` joins by a column
  that the table does not have. A query that fails ends the server (see
  `subscription_leaves`); `Execution` has the rows that SQLite gives.
* A subscription whose object is null is written as `{"chunks":null}`, which the
  schema forbids: its messages are put together around the object. `SchemaKept`
  excepts that one place.
* `isAuthenticatedDirective` lets everybody through (`router.go:82`).

## 4. What is proved

All proofs are for every value of the constants, under the named assumptions of
the module (`ArchiverAssumption`, ...), which TLC evaluates in the runs too. The type
invariants of these modules are proved, and therefore in no run. Each
proof is an inductive invariant `IInv`: it holds initially, every action keeps it, and it
implies the property.

| Theorem | Property | Argument |
|---|---|---|
| `ArchiverProofs!TypeCorrect`, `PiecesStayInChunk`, `PiecesInOrder`, `ChunksTimed` | `TypeOK`, `PiecesWithinChunk`, `PiecesOrdered`, `ChunkTimestamps` | the pieces of the current chunk end before the last instant the archiver has heard of, and that instant and the start of the speech are bounded by what the filter and the muxer have done, lag included; this is what the order of callbacks gives, and is why `Lag < SilenceMin` is needed. That pieces stay in their chunk, or were overtaken as section 3 says, takes a third invariant, `PieceIInv`: a piece that a silence ends is never empty, and where the start of the speech has run ahead of the chunk's end, a silence lies before it |
| `ArchiverProofs!SpeechOnly`, `SpeechKept` | `PiecesAreSpeech`, `SpeechIsKept` | a second invariant, `SpeechIInv`, on top of the first: `quietRun` counts the quiet ticks at the end of what was filtered (`QuietInv`), so a silence that is reported began at the last loud tick; what is being spoken and the pieces so far hold no long silence (`SpokenInv`); a piece begins after a quiet tick (`BeginInv`), so no run of sound is half in it, and each run of the current chunk is being spoken or in a piece (`KeptInv`). `Lag < SilenceMin` again: at a change of files in a silence nothing loud was heard yet of the new chunk |
| `PipelineProofs!RowsNameBlobs`, `FilesReadComplete`, `DeletedAreSaved`, `NoPanic`, `CleanExit`, `TypeCorrect` | `RowsHaveBlobs`, `ReadWhenComplete`, `NothingDeletedUnsaved`, `NoSendOnClosed`, `CleanExitComplete`, `TypeOK` | the parser, ffmpeg and `preprocess` end in an order (`Places`), so that nobody is left to send when the channel is closed; as long as the context lives, every chunk that was handed over has a row but the one in hand (`Counting`), and an end without error has been through all of them (`Finished`) |
| `PipelineProofs!ImplementsLog` | `LogSpec` | a step of the command is a step of `ChunkLog` or leaves its log alone: `Save` appends the number that is next, which `Counting` knows, and only the cancellation stops the log |
| `StorageProofs!KeptUntilAllIsSplit`, `TransmissionsHaveBlobs`, `TemporariesRemoved`, `CauseReported`, `CutsCover`, `TypeCorrect` | `KeptUntilSplit`, `RowsHaveBlobs`, `NoTemporaryLeft`, `ErrorIsTheCause`, `CutCoversSpan`, `TypeOK` | a job that ended without an error has stored and saved; the group has no error only if no job that ended has one; rounding moves a time by half a millisecond, on either side of zero |
| `StorageProofs!NothingMissingForgotten`, `WholeWhenQuiet`, `StoreTypeCorrect` | `MissingIsInHand`, `StoreTypeOK` | the property is inductive: who truncates a file has all its blocks still to write |
| `BroadcastProofs!NoChannelPanics`, `ListenersKept`, `DeliveredInOrder`, `TypeCorrect` | `RegisteredAreOpen`, `NobodyForgotten`, `InOrder`, `TypeOK` | registered listeners are the open ones; a swap-remove takes one element only (lemma `SwapRemoves`); during the loop those at or after `next` have not had the message |
| `TranscriberProofs!BoundedRepetition`, `OneWorkerOnce`, `TypeCorrect` | `NoMoreThanWorkers`, `TypeOK` | transcriptions saved plus processes that hold an item never exceed the processes |
| `PollerProofs!NoRowSkipped`, `NoOldRow`, `TypeCorrect` | `NothingSkipped`, `NothingOld`, `TypeOK` | `lastCheck` is the time of a visible row or of the subscription, and what is due and not taken is no older than anything that is still to be sent, which is what `lastCheck` is going to be |
| `PagesProofs!OwnCursorsAccepted`, `TypeCorrect` | `CursorsAccepted`, `TypeOK` | from the first page on a cursor has the kind of its table, and a stream that was removed never comes back |
| `PagesProofs!PagesPartition` | `EachRowOnce` | the cursor separates the rows that were seen from those that are due; a page shorter than its limit is all that was left (by cardinality) |
| `ExecutionProofs!KeepsSchema`, `ExplainsNulls` | `SchemaKept`, `NullsExplained` | an answer is a tree (`Tree`): what is written is written all the way down, so an object counts its nulls when none below it can change any more (`Kept`, `Explained`), and what it counts is what the schema requires (`CountsRequired`, over the tables of `GraphSchema`) |
| `ExecutionProofs!StaysInStream`, `ErrsWithCause`, `TypeCorrect` | `BelongsToStream`, `NoErrorWithoutCause`, `TypeOK` | every row in the answer is right (`Right`) for the field it stands at and for the stream around it (`Source`), if there is one that is not empty, and goes on to be right while tables grow and streams are removed (`Grown`, `RightStays`): so a resolver needs to know no more than its own object, and its query gives rows of the same stream |

**Execution.** The proof is over answers of any depth. A position is a path of fields
with an id for each element of a list on it; that all resolvers give trees that fit
there is one lemma for each shape (`ObjectGraft`, `ListGraft`, `ConnectionGraft`), and
that such a tree in the place of a waiting node leaves the answer a tree is `PutTree`. The
stream around a position is the innermost one above it without a transcription between
them, by a choice over all positions; `SourceStep` says how it follows from the parent's,
and `PutSource` that answers elsewhere do not change it. Then each of the 17 actions of
`Resolver` keeps the invariant, by a lemma for it or for its kind, as do `Dispatched`, a
new execution, and whoever changes the tables. The invariant speaks of all positions, of which there are infinitely
many, so TLC checks what follows from it, the properties, and not the invariant itself.
The proof found one thing: `NoErrorWithoutCause`, as it was first checked, is not
inductive and not true of all documents. `removeStream { createdAt }` has an error
below the top of its document although nothing failed (see section 3); the
property now excepts what is below a `removeStream`, and the run has such a document.
The assumption about documents, that their fields are the schema's and the paths to
them are complete, is what gqlgen's validation leaves through.

`StorageProofs` holds the proofs of two components, since both are short; the names that
`BlobStore` would share with `SplitChunk` begin with `Store`.

Only model-checked: all liveness (`Stops`, `Ends`, `EventuallyWhole`, `ListenersClosed`,
`EventuallyTranscribed`, `InterruptEnds`, `Delivered`, `NoGoroutineLeaks`, `WalksEnd`,
`ExecutionEnds`), since fairness is out of the prover's reach.

## 5. What is not modelled

* What ffmpeg, Whisper, gorm and the database do inside: they are environment
  actions, written from how the code uses them.
* The text of ffmpeg's lines and of SQL, floating point, file names, logging.
* `createdAfter`; cursors within an execution, and the join of `Stream.transmissions`
  in `Pages` (the chunks of a stream stand for its rows there).
* Of the generated code: arguments (a document is about one id), introspection,
  complexity, `@defer`, `__typename`, and panics, which no resolver has.
* The storage server and the end of `serve`: two goroutines around net/http's `Serve`
  and `Shutdown`, with no state of their own but an error channel. Read, not checked:
  `Close` gets at most one of two errors; one goroutine closes the channel when
  `Shutdown` is through and the other may still send to it, if `Serve` failed for another
  reason at that moment (`storage.go:49`); `ListenAndServe` returns when `Shutdown`
  begins, so `serve` may end while requests run (`serve.go:65`).
* The frontend's stream table: its callbacks extend the rows of the render they were
  made in (`StreamTable.tsx:176`), so that two events before the next render lose one
  row. Whether that happens is decided by React's batching and Apollo's cache; a
  model would be one of guesses about them.
* The downloads' directories after `logger.Fatal` (`download.go:46`): nobody looks at
  them again. Streams that are registered while `download` runs (`download.go:34`) are not
  recorded; `Pages` has this, and the program promises nothing about it.
* HTTP routes and middleware, flags and output formats, AutoMigrate, pages and
  authentication of the frontend: no state of their own.

## 6. Plan

1. *(done)* `Archiver`, `Pipeline` with `ChunkLog`, `SplitChunk`, `BlobStore`, `Broadcast`,
   `Transcriber`, `Poller`, `Pages`, and their proofs.
2. *(done)* `GraphSchema` and `Execution`: resolvers and generated code over all tables.
3. *(done)* The proofs of `Pipeline`, with the refinement of `ChunkLog`.
4. `Execution` with the pages of `Pages` in place of whole tables.
5. An abstract specification of the storage (a set of keys that only grows) that
   `BlobStore` implements without faults, and of the transcriber (each item once
   per process).
6. *(done)* The proofs of `SpeechIsKept` and `PiecesAreSpeech`.
7. *(done)* The proofs of `Execution`, for documents of any depth.
8. What the liveness properties rest on, as state predicates that can be proved: in
   every execution, and in every end of `download`, whoever waits waits for somebody
   who can go on.
