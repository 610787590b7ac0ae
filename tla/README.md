# A verification project for IOTMP-Linux

IOTMP-Linux is a device agent in C++20: it keeps one connection to an IOTMP
server, answers the server's requests and carries streams for it (file
transfers, terminals, TCP proxies, commands). The code is coroutines and
callbacks of Boost.Asio on one `io_context` thread, plus a thread pool for the
callbacks of resources. What is hard in it is order: handlers that are queued
when the state they were meant for has changed, coroutines that resume on a
later connection, timers against answers, a server that does not wait.

Paths below are relative to `src/src/thinger/iotmp/`; `README.md` with a line number is
the one of the repository, `src/README.md`.

## 1. Inventory

| Part | Source | State it keeps | Operations | Correct when |
|---|---|---|---|---|
| Client connection | `client.hpp` | `running_`, `connected_`, `socket_`, `events_` with their parameters, `write_queue_`, `write_in_progress_`, resource pool | run loop (connect, authenticate, start the event streams, read), send, `stop()` | nothing is sent before authentication, one writer per socket, queued messages get written, a lost connection is noticed, subscriptions survive reconnection |
| Request dispatch | `client.hpp`, `core/iotmp_resource.hpp`, `core/iotmp_server_event.hpp` | `streams_`, `stream_id_` of each resource, continuations | RUN, DESCRIBE, START_STREAM, STOP_STREAM, STREAM_DATA, the interval loop | every request is answered once, data is sent for open streams only, intervals go on |
| Reading messages | `client.hpp` (`read_message`, `handle_message`, `wait_response`) | where each reading coroutine is | framing, matching answers to requests | what was sent is what is handled, answers reach who waits for them |
| Message codec | `core/iotmp_encoder.hpp`, `core/iotmp_decoder.hpp`, `core/pson_*` | none | encode, decode | decoding inverts encoding, integers at their width |
| Paths | `core/iotmp_resource.hpp`, `client.hpp` | `path_matches_` of a request | `matches`, `get_resource` | one resource per path, its own keys |
| Stream manager | `core/iotmp_stream_manager.*`, `core/iotmp_stream_session.hpp` | `sessions_`: stream id -> weak pointer | START_STREAM, STOP_STREAM, `on_end_` from a session's destructor | one reachable session per id, ends are told once, stopped sessions are released |
| File download | `extensions/fs/file_download_session.*` | state, offset, bytes in flight, three timers | `start`, `send_next_chunk`, `handle_input` (ACKs), timers, `stop` | flow control, never stalls, complete means everything sent and acknowledged |
| File upload | `extensions/fs/file_upload_session.*` | state, bytes received and not acknowledged, two timers, the buffer of the file stream | `start`, chunks, delayed ACKs, receive timeout, `stop` | ACKs neither late nor doubled, no partial file left, a session ends |
| Filesystem handlers | `extensions/fs/filesystem.*` | the disk | get, put, delete, move, info, hash, directories | overwrite policy, a GET returns what one PUT wrote, an answer is true |
| Command execution | `extensions/cmd/cmd.*` | pipes, timer, counter of pending completions | `exec()` | all output returned, the timeout always ends it |
| Command stream | `extensions/cmd/cmd_stream_session.*` | stdin queue, flags, pipes, timer | `run`, `stdin_write_loop`, `watch_timeout`, `stop` | exit frame last, input written in order, session released |
| Terminal, proxy | `extensions/terminal/*`, `extensions/proxy/*` | descriptor, write queue, shell pid | `read_loop`, `write_loop`, `handle_input`, window size, `stop` | bytes in order and not stranded, shell hung up once, session released |
| Logger, process helpers, OTA, version, `main.cpp` | | none that matters | | |
| Sockets, workers | thinger-http (external) | | | |

**Interactions.** The client reads frames, decodes them (`Receive`, `Codec`) and
handles a message by its type. A RUN or DESCRIBE finds its resource by path
(`Paths`), goes to the resource pool, and its answer comes back as a
`send_message` (`Dispatch`). START_STREAM, STOP_STREAM and STREAM_DATA go to the
table of streams of the client or, for a resource with a stream handler, to its
stream manager, which creates, stops or feeds a session (`StreamManager`). A
session sends its data with `send_message` of the client, so all of them share
the write queue (`Client`). A session owns itself through its coroutines
(terminal, proxy, command) or a `self_reference_` (file transfers); the manager
holds weak pointers only and hears of the end of a session from its destructor.
Filesystem handlers on the pool and file transfers on the io thread share the disk.

**Hard behaviours.** (1) A timer that expired has its handler queued and can no
longer be cancelled. (2) Handlers that captured `this` outlive the object. (3)
`start()` of a session may suspend (a proxy connects to its target), so START
and STOP for one id interleave with it. (4) Pool threads, coroutines waiting on
an old socket, queued messages and the table of streams outlive the connection
they belong to. (5) `stop()` runs on the thread of the application. (6) A child
of a command keeps its pipes open after the command was killed. (7) Pool threads
interleave their calls to the operating system. (8) A handler that throws takes
down what called it, and what it was to answer is not answered. (9) Two
coroutines may read from one socket. `PROJECT.json` lists each place under
`hazards`.

## 2. Modules

| Module | Models | One step is |
|---|---|---|
| `WindowedTransfer` | what a download promises: bytes sent and acknowledged in a window | an event of the transfer |
| `StreamService` | what the device promises an orderly server about streams, each known by itself and not by its id | an event of a stream |
| `Download` | `file_download_session`, implements `WindowedTransfer` | a whole handler |
| `Upload` | `file_upload_session` and a server that keeps within its window | a whole handler |
| `StreamManager` | `stream_manager`, the life of its sessions, the client's handlers of START/STOP; implements `StreamService` for an orderly server | a handler, or a coroutine up to its suspension |
| `Client` | `run_loop`, `initialize_streams`, `read_loop`, the write queue, the pool, `stop()` | a coroutine between two suspensions |
| `Dispatch` | `handle_resource_request`, `run_resource`, the table of streams, echo, `stream_interval_loop`, event subscriptions, continuations | a handler on the io thread or on the pool |
| `Codec` | the encoder and decoder of messages and PSON values, on bytes | (functions) |
| `Paths` | `matches()` and `get_resource()`, on characters | (functions) |
| `Receive` | `read_message`, `handle_message`, `wait_response`, over `Codec` and `Paths` | a coroutine between two reads |
| `CommandExec` | `cmd::exec()` | a handler of its own `io_context`, or a step of the command |
| `CommandStream` | `cmd_stream_session` | a coroutine between two suspensions, or a step of the command |
| `ByteStream` | `terminal_session` and `proxy_session`, which have the same loops, and the window size of a terminal set from the pool | a coroutine between two suspensions, or a call of the pool thread |
| `FsRequests` | put of a file or directory, get, hash, recursive delete, move, on the threads of the pool, on a tree | a call to the operating system |
| `MC...` | the values TLC takes for constants that are sets or functions | |
| `...Proofs` | the theorems about `Download`, `Upload` and `FsRequests` (both in `FilesystemProofs`), `StreamManager`, `Client`, `Dispatch`, `CommandExec`, `CommandStream`, `ByteStream` | |

Variables have the names of the members they stand for (without the trailing
underscore), actions those of the handlers or of the way a handler ends. The
`map` of `PROJECT.json` gives the lines of every definition. Two conventions:

- `ready` in `Download` and `Upload` is the queue of the `io_context`, first in
  first out, holding only handlers that will run with no error code. A timer is
  `null`, armed or expired; an expired one has its handler in `ready`, and only
  the handler's own checks can make it harmless.
- Some small definitions stand right after a variant of theirs (`Resume` after
  `ResumeAhead`, `Acknowledges` after `AcknowledgesAny`, ...). The variant is a
  plausible mistake: a dropped guard, a missing reset, a wrong order. It is used
  nowhere in the specification; put in place of the definition it must make the
  property it is paired with under `mutants` fail, which shows that the property
  depends on that piece of code.

Choices of the environment that stay the same during a behaviour are variables
chosen in `Init` and never changed: whether an upload is rate limited, which
window its server has, whether a server waits for the answer to START and reuses
ids, whether a command has a timeout, which kind of trouble a `Dispatch` behaviour
meets (none, a handler that throws, an id that collides, a lost connection).

Data is abstracted to what the properties tell apart: bytes to their number, a
message to the connection it belongs to, the content of a file to which request
wrote each block, time to the order of expirations. `Codec`, `Paths` and `Receive`
are the exception, since their properties are about the conversion itself: bytes
and characters are real there.

*How the models meet.* `Client` has the queue with all the ways a connection comes
and goes and abstracts requests; `Dispatch` has the requests and takes loss and
reconnection as one step each; `Receive` has the frames of one connection.
`Dispatch` leaves out resources with a stream handler, whose START and STOP are
those of `StreamManager`, which in turn knows of a session only whether it starts,
lives, ends; `Download`, `Upload`, `CommandStream` and `ByteStream` are such sessions.

## 3. Runs

| Run | Shows | Distinct states |
|---|---|---|
| `download` | flow control (`InFlightBound`), one sending chain (`SingleSender`), no stall before the end of the file, no timeout by a stale handler, refinement of `WindowedTransfer`; liveness: the end of the file or a stop is reached (`ReachesEof`), a completed session gets closed (`CompletedIsClosed`) | 33 432 |
| `upload` | each byte is acknowledged once without a limit, a server with room for a threshold and a chunk never blocks (`NeverBothWait`), no partial file stays, every session ends | 147 831 |
| `stream_manager` | any server: no dead entry in `sessions_`, no echo of a stop, stopped sessions are released. Orderly server: one reachable session per id, ends touch no other session, refinement of `StreamService` (`ImplementsService`) | 915 474 |
| `client` | nothing from the queue reaches a connection that is not authenticated, a queued message always has a writer, a lost connection is noticed; with reconnections and `stop()` | 34 055 |
| `dispatch` | each request has exactly one answer under way until the server has it and gets it, stream data is sent between the answers that open and close a stream, an enabled resource is in the table, intervals go on | 557 934 |
| `receive` | messages arrive as sent at all the edges of the format, frames stay aligned after a body that does not decode, a frame over the limit is rejected and only such a one, every awaited answer is taken, paths find their resource and keys; all this up to a frame at which a wait for an answer was given up (see 5) | 522 720 |
| `command_exec` | all output is returned unless timed out; the timeout ends the loop even if a descendant holds the pipes | 11 092 |
| `command_stream` | the exit frame is the last, input is written in order by one loop, stopped and timed-out sessions are released | 1 360 |
| `byte_stream` | input in order, one write loop, none stranded; the shell is hung up once, the descriptor closed, a stopped session released even if a window size is being set | 503 |
| `fs_requests` | requests on different parts of the tree: a success is answered only for what was done, overwrite policy of put and move, a GET or hash is of exactly what one PUT wrote | 1 231 567 (with symmetry) |
| `after_response` | finding: see 5 | |
| `concurrent_readers` | finding: see 5 | |

Deadlock is not checked: in every run sessions, requests or the client end, or
a bound is reached.

**Bounds.** *Download*: chunks of 2 bytes in a window of 5 make up to three
chunks in flight, the last one over the window; files of 0, 1, 2, 5, 7 and 8
bytes are empty, shorter than a chunk, one chunk, odd, even, and longer than the
window; ACKs of 0 to 4 bytes are missing the field, partial, exact and for
several chunks; the file may be rewritten at any moment with any of the sizes.
*Upload*: sizes 1, 5 and 11 give a last chunk
at once, a threshold of one chunk, and the cap of the threshold; windows of 5 and
6 are the least that never blocks and one more; chunks may be short, so every
remainder occurs. *StreamManager*: two ids and three session objects let an id
be used again twice while earlier sessions end, and an unrelated one exist.
*Client*: two subscriptions (a first and a last), a queue of three. *Dispatch*: a
resource with an answer of its own and a subscription, two ids (two requests at a
time, or two streams), two connections; one message may wait behind the one that
is written; a behaviour has one kind of trouble. *Receive*: the integers of 32 and 64 bits
have 18 and 22 here: 18 bits leave 4 and 22 leave 1 of the seven bits of the last
byte of a varint, as 32 and 64 do; the limit of a message is 140 bytes, where its
size takes two bytes; values are the edges of tags (30, 31), of varints (127, 128,
2^14) and of the integers, alone, in arrays and in objects; all paths of up to five
characters against five patterns; all conversations of three messages of twelve kinds,
answers of all three types that are taken and an id that is a float among them; no, one
or two subscriptions whose answers are awaited. What is read out of step after a
rejected frame is decoded like any other bytes.
*CommandExec*: pipes of two units, stdin of up to three (more than the pipe), three
units of output (a pipe is filled and drained). *CommandStream*: two messages of
input, one being written and one queued. *ByteStream*: four messages. *FsRequests*:
two directories with up to two entries, three requests, two at a time, chosen so
that their paths are equal, nested or beside each other; files of up to two blocks,
so that one may be read half written. The theorems of section 4 remove the bounds of
all of these modules but `Receive`.

**Fairness.** The `io_context` keeps running queued handlers (weak fairness of
`RunHandler`), armed timers expire, and an operation on a closed descriptor or
socket completes with an error. A spawned `start()` ends, if only by throwing. Nothing is assumed of
the server (it may fall silent, never acknowledge, never stop a stream), of the
other end of a terminal or proxy, or of a command: a read or write on an open
descriptor may wait for ever. In `Client` a connect, a delay and a write are
assumed to end one way or the other, at the latest when the system gives the TCP
connection up; a read from an open socket is not. In `Dispatch` a handler of the
pool returns or throws, and a write ends; a lost connection need not come back.
`Receive` and `FsRequests` state safety only.

## 4. Proofs

Nine components have theorems, in eight modules. All follow the same plan: none of the
properties is inductive, so a strengthening (`IInv`, `FsInv` for the filesystem) is shown to hold initially, to be
kept by every action and by stuttering, and to imply them.

**`DownloadProofs`**, for all chunk, window and file sizes and all values of ACKs
(`DownloadAssumption`: a positive chunk, natural numbers): `Invariance`,
`TypeCorrect`, `FlowControl`, `OneSender`, `AlwaysDriven`, `TimeoutsAreCurrent`,
`CompletionIsAcknowledged`; `CompleteIsWhole` (a completed transfer sent the whole
file, unless `Rewritable` or a read of it failed: `bad`); `Refinement`: `Spec => ImplementsTransfer`, with
`bytes_transferred` for the bytes sent and `bytes_transferred - bytes_in_flight` for
those acknowledged. *The argument:* that an ACK does not start a second chain depends
on what is in the queue, which depends on whether a timer expired, which depends on
who drives the session. `Situation` says it: a live session is in one of six
situations, `Inert` (not started), `Sending` (a call of `send_next_chunk` is queued),
`Delayed` (by the bandwidth limit), `Waiting` (for ACKs), `Unattended` (end of file,
bytes in flight, no timer) and `Closing` (completed), and each lists the timers that
may be armed and the exact content of the queue. At most one stale `ack_timeout` can
precede the handler that drives the session, and never while `waiting_for_ack` holds,
which is why a stale one does no harm.

**`FilesystemProofs`, `Upload`**, for all sizes, thresholds and windows: `PartialFilesAreRemoved`,
`BytesAreAckedOnce`, `ServersProceed`. *The argument:* the file is there as long as
the session may still complete (`Filed`); without a limit no ACK is ever delayed or
queued (`Counted`); the count stays below the threshold (`Timely`), so what the
server has outstanding is at most a threshold less a byte.

**`FilesystemProofs`, `FsRequests`**, for any tree of paths, any requests on it, any
length of the files and any number of pool threads: `FsInvariance`, `FsTypeCorrect`,
`ReadsAreWhole`, and the action properties `AnswersAreTruthful` and `CreatesAreSafe`.
*The argument:* a handler checks in one call to the operating system and acts in a
later one, so what it saw has to be still so. Lemmas about paths (`WithinOrder`,
`RenamedWithin`) and about what one call does to a tree (`HandlerGrown`: it makes a
directory, opens a file, removes an entry or moves a subtree) give the invariants of
the tree: what exists is in a directory (`Rooted`), a file has one path (`Unique`) and
is not there before its PUT has created it (`Fresh`). A request that is not in `disturbed`
is unrelated to every other one that runs (`Apart`), so the others change nothing at
or below its paths, and above them only make directories (`Elsewhere`). Hence what its
handler saw or made is so at its next call, for each call of each verb (`Own` for what
is there, `Steady` for what is still to create or to remove), which is `Undisturbed`.
`ReadIsWhole` needs `Whole` besides: while nothing is disturbed or lost, every file is
what one successful PUT wrote, or is being written or cleaned up by the PUT that still
runs at its path, which a GET or a hash of that path would have disturbed. `FsInv` was
checked by TLC with two and with three threads before it was proved.

**`StreamManagerProofs`**, for any number of ids and sessions. For any server:
`EntriesAreAlive` and `StopsAreToldOnce`, from what an entry of `sessions_` is (alive,
of that id, told to nobody) and from those already told being past their life. For an
orderly server, one that waits for the answer to START and reuses no id early:
`LiveAreReachable`, `EndingsAreLocal`, `EndsAreReported`, and the refinement of
`StreamService` (`Refinement`; `OrderlyRefinement`: `Spec /\ Orderly =>
Service!ServiceSpec`), from `Order`: an id has one
session that exists (`OneAlive`), the manager has it until its end was told
(`UntoldIsRegistered`), a starting one has not been registered yet and nobody asks for
its id (`StartingIsAwaited`). `on_end_` erases and stops by id; that this is the right
session is `OneAlive` and nothing else, which is why a server that is not orderly
breaks it (section 5). The refinement maps a session to a stream by its phase and by
who ended it; `sessions_`, `streams_` and the answers awaited have no image.

**`CommandExecProofs`**, for any amount of input and output and any pipe:
`OutputsAreComplete`. `pending` is the number of completions that are missing
(`Counting`), and the end of a stream is met only when all its writers are gone and
all they wrote was read, unless the timeout closed our end (`Ends`).

**`ByteStreamProofs`**, for any number of messages: `InputIsInOrder`,
`ReleasedAreStopped`. What was written, is being written and is queued are the
messages in order (`InOrder`), the loop in progress writes the first that is missing
(`OneLoop`), the descriptor is open exactly while the session runs (`Life`) and its
shell was hung up when it does not (`Shell`).

**`CommandStreamProofs`**, for any number of messages of input: `InputWritten`, and
the action property `ExitIsLast`. *The argument:* `stdin_writing_` is set exactly while
a write is pending (`Serial`), and a loop leaves input behind only when one side of the
pipe was closed, which is for good (`Written`). No output follows the exit frame
because `run()` sends it after both of its read loops (`Ended`) and a read loop does
not begin again: only `start()` begins them, on a session where nothing happened yet
(`Fresh`).

**`ClientProofs`**, for any number of subscriptions and any length of the queue:
`AuthFirst`, `NoneIsLeft`. *The argument:* a coroutine of the queue looks at
`connected_` only, so `connected_` has to say that the socket at hand is authenticated
(`Up`), and `write_in_progress_` has to be the lock of the one coroutine (`Marked`).
That a write which began on an earlier connection does not strand what is queued now
rests on the third part, `NoneYet`: until a connection is authenticated, all that is in
the queue, or comes from the pool, is of an earlier one. So what a coroutine leaves
behind when it finds `connected_` clear is of an earlier connection once there is
another. `NoneIsLeft` speaks of the messages of the connection that is up: those of
earlier ones stay in the queue until something new is sent.

**`DispatchProofs`**, for any resources and subscriptions, any number of ids and
connections: `OneAnswer`, `DataIsFramed`, `EnabledAreOpen`. *The argument:* an id the
server waits for is answered by a message of the queue or by a job of the pool, of this
connection, never by both (`Answered`; `Past`: nothing is from a connection that is
still to come, so what a new one finds is not taken for its own). A job answers what
was asked (`Asked`) and a START only with an OK (`Accepted`). For the streams, an entry
of `streams_` is of a stream that is open or whose opening answer is queued, unless a
lost connection left it behind (`Tabled`); what is sent for it is appended behind that
answer, and `handle_stop_stream()` removes the entry in the step that queues the closing
answer, so that nothing gets behind that one (`Fed`, which compares places in the
queue). Only `Streamed` (`Opened`, `Tabled`, `Fed`) and `EnabledIsOpen` exclude the
behaviours in which the server gives an id that is in use to a second stream; `OneAnswer`
holds in those too.

*Assumptions:* besides the ranges of numbers, that the value `None` is none of the
messages, requests, ids and entries of a table it stands beside (`ClientAssumption`,
`DispatchAssumption`, `FsRequestsAssumption`): it is the empty `std::optional`, null
pointer or missing entry of the code. For the filesystem also that a path has a name
and that what is above a path is a path, up to the base path.

*Only model-checked:* liveness (`ReachesEof`, `CompletedIsClosed`, `UploadEnds`,
`StoppedIsReleased`, `LostIsNoticed`, `LoopReturns`, `SessionIsReleased`,
`StopReleases`, `RequestIsAnswered`, `IntervalFlows`), which needs fairness and
`ENABLED`; and `Codec`, `Paths` and `Receive`, whose definitions are recursive, so that
what they compute for every input would take induction over data, which the provers
cannot do. The four properties of `Receive` depend on it: where one message ends and
the next begins is what the variable-length integers of the frame decode to.

## 5. Known disagreements between the code and what it says

Shown by a run that ends in a counterexample (`findings` in `PROJECT.json`):

- `after_response`: `core/iotmp_resource.hpp:293` promises that the callback of
  `after_response` runs once the response was sent on the wire; `client.hpp:881` gives
  it to the pool when the response was only queued (874), so a continuation that
  restarts or stops the agent may run before its answer leaves.
- `concurrent_readers`: `README.md:193` says that the request API is to be called when
  the streams are ready; `read_loop()` reads from the socket then too, takes an answer
  and drops it (`client.hpp:769-772`), so `wait_response()` (225) waits for ever.

The modules also state, under *What the code does not guarantee*, properties with
a counterexample that are not among the runs. To see one, name it in the `.cfg` of
its module in place of the properties there (as an `INVARIANT` if it is a state
formula):

| Property | Because |
|---|---|
| `Download!NeverHangs` | at the end of the file, an ACK for part of what is in flight cancels the ACK timer and nothing replaces it (`file_download_session.cpp:337-379`, against the comment at 191); if the server then falls silent the session never ends |
| `Download!SessionOutlivesHandlers` | handlers capture `this` and may run after `stop()` dropped `self_reference_` (102) |
| `Download!UnreadIsNotCompleted` | a read of the file that fails returns no byte, as one at its end does (`file_download_session.cpp:231-232`): with nothing in flight the transfer is completed with a part of the file (292-314) |
| `Upload!CompletedIsKept` | the receive timeout armed by the last chunk deletes a complete file if the server does not close the stream in time (`file_upload_session.cpp:223`) |
| `Upload!CompletedIsSaved` | the file is closed without looking at the result: what the stream still buffers may be lost after the final ACK |
| `Upload!TimeoutIsCurrent` | a queued timeout handler aborts an upload that just received data (309) |
| `Upload!FinalAckIsLast` | a delayed ACK is not cancelled by the final one (245) and counts its bytes again |
| `StreamManager!EndingIsAlwaysLocal`, `OneSessionPerId` | `on_end_` and the registration go by id (`core/iotmp_stream_manager.cpp:67`, 63), so a server that reuses ids early or does not wait gets the wrong session stopped, or two |
| `StreamManager!StartIsAnswered` | a `create_session()` or a `start()` that throws (a parameter of another type, `filesystem.cpp:747`; a directory that cannot be created) ends the handler or the spawned coroutine (`core/iotmp_stream_manager.cpp:45-50`, 55-75) and nobody answers START |
| `StreamManager!SessionsEndWithConnection` | nobody stops sessions when the connection is lost (`client.hpp:432`) |
| `Client!ParamsRestored` | when a START_STREAM of `initialize_streams()` cannot be written, `continue` (`client.hpp:555`) skips the swap that gives the parameters back (578-579), and so does an exception of a handler while the answer is awaited (237, 574); later connections subscribe without them |
| `Client!ReadyIsConnected` | STREAMS_READY is notified after a failed `initialize_streams()` (419) |
| `Client!WritesAreSerialized` | `write_message()` (686) writes while `process_write_queue()` does, during `initialize_streams()` |
| `Client!SentOnItsConnection`, `Dispatch!AnswerIsExpected` | responses and queued messages outlive their connection (869) |
| `Client!WriteErrorIsLocal` | a write that fails on an old socket closes the new one (671-672) |
| `Client!StopIsClean` | `stop()` resets `socket_` on another thread (164) |
| `Dispatch!NoStaleData` | `streams_` is not cleared when the connection is lost: on the next one the interval loop and the application send under ids the server does not know |
| `Dispatch!IntervalAlwaysFlows` | one handler that throws in `stream_interval_loop()` (735) ends it for every stream |
| `Receive!RejectedEndsReading` | `read_message()` returns nothing for a frame it rejects (`client.hpp:604-607`, 639-642), as for a lost connection; `read_loop()` ends, but `wait_response()` returns false (226) and `initialize_streams()` and `read_loop()` read on from the middle of that frame (559-584) |
| `Receive!AnyIsDelivered` | a negative integer is encoded as 0 (`core/iotmp_encoder.hpp:59`), a field above 32 bits is cut |
| `Receive!RejectedIsNotHandled` | the result of `decode()` is ignored (`client.hpp:618`): a message with an unknown wire type, rejected by `core/iotmp_decoder.hpp:89`, is handled with the fields read so far |
| `Receive!OnlyOwnKeys` | keys captured by a pattern that failed stay in the request (819) |
| `CommandExec!ExecReturns` | the synchronous write of stdin (`extensions/cmd/cmd.cpp:183`) comes before the timeout is armed (246); a command that does not read more than a pipe holds keeps the pool thread for ever |
| `CommandStream!NoExitAfterStop` | the exit frame is sent without looking at `stopped_externally_` (`cmd_stream_session.cpp:155-160`) |
| `ByteStream!ResizeIsLocal` | `update_params()` checks the descriptor and uses it on a pool thread while the io thread may close it in between |
| `ByteStream!EndIsOnIoContext` | the pool thread that resizes may hold a stopped session last, and destroys it |
| `FsRequests!AlwaysSafeCreate` | between the check for `overwrite=false` (`filesystem.cpp:271`) and the truncating open (318) another request may create the file; for a move 493 and 498 |
| `FsRequests!AnswersAreAlwaysTrue` | requests on the same paths undo each other's work between two calls, and the answer is success |
| `FsRequests!SuccessIsWritten` | the failure of `close()` (337), which writes what is buffered, is ignored |
| `FsRequests!FailureKeepsFile` | a PUT that fails removes what is at its path (328), also a file that another request put there |

`Download!CompletedIsAcked` (proved as `CompletionIsAcknowledged`),
`StreamManager!EndIsReported` (proved as `EndsAreReported`; `ImplementsService` implies
it) and `Upload!ThresholdIsAcked` hold and are in no run.

Met while reading: `README.md:12` announces exponential backoff where the client
waits a fixed 5 s, and `README.md:352` a variable for it that nothing reads; the
comment at `filesystem.cpp:55` puts the destination of a move in the parameters, the
code reads it from the payload (477).

## 6. Not modelled

- *Starting again after `stop()`*: depends on the workers of thinger-http; `Client`
  covers one life of the client.
- *Event ids* (`client.hpp:387`): a `uint8_t` that wraps to 0 at the 256th
  subscription; the ids are only keys of `events_`, and no interleaving is involved.
- *info and the details of a listing, path resolution against the base path, the size
  limit of inline files, `describe` and `fill_api()`*: they read or convert and keep no
  state. A listing is one step in `FsRequests`.
- *File transfers on the same disk as the filesystem handlers*: a download's file is
  rewritten by an action of `Download` instead; an upload is alone with its file.
- *Calls after the destruction of an upload*: only `Download` follows them (`dangling`).
- *Floating point*: numbers are multiples of a quarter, which the encoder and decoder
  carry exactly; no property is about rounding.
- *Logger, statistics, bandwidth figures, process helpers, OTA (declared, no
  implementation), version, `main.cpp`, thinger-http*: no state that the properties are
  about, or external.

## 7. Plan

Written, in this order: the download with its abstract transfer and its proofs,
uploads, the stream manager, the client, the sessions that run commands and carry
bytes, the dispatch of requests, the codec with paths and the reading of messages, the
filesystem on a tree, and the proofs: download, upload, stream manager, command
execution, terminal and proxy, command stream, client, dispatch, filesystem. What
remains:

1. The hazards without a property: the code is exposed to each of them, so they become
   properties when it no longer is. The formulas to check are defined at the end of the
   modules (section 5).
2. `Receive` in theorems: a framing whose decoding is a function over a bounded prefix,
   shown equal to the recursive one on bounded inputs.
