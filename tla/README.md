# A TLA+ model of QMSP

QMSP is a chat protocol over QUIC. `src/OriginalLinuxCode/` (below `O/`) holds the
program: a server and a client over msquic (`QMSP_Runner.c`), the protocol
kernel, the chat files and the wire codec, each with a small test program.
`src/` itself holds a later rewrite of the codec for another byte order and an
older sketch of the kernel. The modules here model `O/`.

## 1. The system

| Component | State | Operations | Talks to |
|---|---|---|---|
| Protocol kernel `O/QMSPkernel.c` | state, version, alternatives, permission byte and its validity, kick reason, amassed pieces, load counter, connected user | `receivedMessage`, `receivedVersionNegotiationResponse`, `sentMessage`, `givePermissions`, `noStoredPermissions`, `optionsError`, `giveUpConnection`, `imaginaryChatAccess`, `wantsToChangePermissions`, `wantsToChangeUser` | a host that calls it and reads its state to know what to send or fetch |
| Chat store `O/chatReader.c`, `O/chatWriter.c`, `applyMessage` of `O/MessageReader.c` | one file for each chat in `localChats/`: an id line, a line "Users:", rows "user, permissions", a marker line, posts | find a chat by id, read a user's row, add a row, append a post | the server's stream callback, one worker thread per connection |
| Variable-length integers `O/VariableLengthInt.c` | none | pack, unpack, sizes | headers and frames |
| Headers and frames `O/Messages.c`, `O/Frames.c`, `PackMessage`/`unpackMessage` | none | construct, serialize, rebuild, extract | client input loop, server |
| QUIC server `O/QMSP_Runner.c:96-458` | listener, connection and stream handles, send buffers | callbacks | msquic, chat store |
| QUIC client `O/QMSP_Runner.c:467-918` | connection and stream handles, send buffers, message counter | input loop and callbacks, in two threads | msquic |
| Client cache `O/chatCache.c` | the file `conDir/conmem.log` | append an entry, find an entry by nickname | the options of `RunClient` |
| Newer codec `src/Messages.c`, `src/Frames.c`, `src/VariableLengthInt.c` | none | as above, plus post metadata frames | nothing: no program links it |
| Formatted text packer `src/FtextPacker.c`, `src/colorNames.c` | none | parse a text markup | nothing: unfinished |

The kernel is not linked into the server: the server applies every message it
receives (`O/QMSP_Runner.c:152-163`) and echoes a reply. Kernel and chat store are
therefore modelled separately, each with the environment its interface allows.

What is hard here:

* the kernel's calls arrive in an order the *peer* and the *host* decide: answers
  of the permission store come late, kicks cross logouts, a second login
  comes on a connection already in use;
* the kernel never learns for whom an answer is: `givePermissions` carries no user id;
* a stream has no message boundaries, and the server takes every buffer of a receive event for one message;
* msquic calls back from one worker thread for each connection, so `applyMessage`
  runs concurrently with itself over the same files, without a lock. `addNewUser`
  replaces a file by a changed copy while others append to it;
* the cache's entries are not separated, so what one start of the client writes changes what later ones read, and nothing keeps their separators out of nicknames;
* ids are formatted into buffers sized for short ones: of a long id the line is cut (`O/chatWriter.c:109-117`);
* nothing recovers after a crash: what is in the directory is what the next start searches;
* the client's input loop and its callbacks share handles and buffers without synchronisation.

What makes each part correct: for the kernel, that nobody is admitted or served
without rights that were actually answered for, and with its host that these are the user's own, and that a cooperating host and peer always get
through the handshake; for the store, that an applied message is there once, stays there,
and that nothing is made up; for the codec, that unpacking undoes packing and
stays inside its buffer; for the sessions, that a handle is closed once and
not used afterwards, and a buffer is freed once and not before its send is complete.

## 2. Modules

| Module | Models | Composition |
|---|---|---|
| `Kernel` | the protocol kernel, one action per entry point | the host is the environment: any call, in any order, with any arguments |
| `KernelProofs` | theorems about `Kernel`, and about its composition `KernelHost` | extends `KernelHost` |
| `Access` | what the kernel promises: one user at a time, inside on the rights stored for that user | abstract specification |
| `KernelHost` | a host that hands the kernel the peer's messages, sends what the state asks for and asks a permission store, whose answers come late | extends `Kernel`, implements `Access` (`Abstract == INSTANCE Access WITH ...`) |
| `ChatLog` | what the store promises: chats with members and posts; `Join` and `Say` | abstract specification |
| `ChatStore` | the store as it is: directory, inodes, contents, worker threads, one system call per step | the threads share the files and nothing else |
| `ChatStoreProofs` | theorems about `ChatStore` | extends `ChatStore` |
| `ChatApart` | when the store keeps its promise: the condition on who joins where (`ApartAssumption`), and what holds under it | extends `ChatStore`, implements `ChatLog` (`Abstract == INSTANCE ChatLog WITH ...`) |
| `ChatApartProofs` | theorems about `ChatApart` | extends `ChatApart` and `ChatStoreProofs` |
| `Wire` | integers, headers, frames, packing, and the extraction loop as steps | its messages are those `Client` builds and `applyMessage` of `ChatStore` receives |
| `WireProofs` | theorems about `Wire` | extends `Wire` |
| `Delivery` | the receive event of a stream, `unpackMessage` step by step, `applyMessage` up to the post it writes | extends `Wire`: `Receive` makes its buffer, its `Next` takes it apart, `applyMessage` reads the result; the posts are the calls `ChatStore` begins with `Receive` |
| `DeliveryProofs` | theorems about `Delivery` | extends `Delivery` and `WireProofs` |
| `ChatCache` | the client's cache and the options of `RunClient`, over successive starts | what it connects to is the `ConnectionStart` of `Client` |
| `ChatCacheProofs` | theorems about `ChatCache` | extends `ChatCache` |
| `Server` | main thread, listener, connection and stream callbacks of the server | its `applyMessage` is one thread's call in `ChatStore`: fairness of it rests on `CallsEnd` there, and `CleanExit` says that Enter never causes the `Crash` of `ChatStore` |
| `ServerProofs` | theorems about `Server` | extends `Server` |
| `Client` | main thread and callbacks of the client | - |
| `ClientProofs` | theorems about `Client` | extends `Client` |
| `MCKernel`, `MCKernelHost`, `MCChatStore`, `MCChatApart`, `MCWire`, `MCDelivery`, `MCChatCache`, `MCServer`, `MCClient` | constants for TLC | |

Definitions named `<definition>_<Fault>` are faulty variants kept next to the
original. No specification uses them; put in place of the original, each one
breaks a property.

### How states and actions correspond to the code

**Kernel.** The variables are the globals of `QMSPkernel.c:5-24`. A call runs to its end, with the cascade of states it passes,
in one step. A header is its top three bits (`Classes`), the frames of a
message are the set of their kinds, a permission byte is a set of flags. `PSentInLastLoad` above the
limit is one value. Whether plain `char` is signed, the compiler's choice, is the constant
`CharIsSigned`.

**KernelHost.** The repository has no host. This one is the least that the kernel's variables
and functions require, and it is external: `Ask` when `pleaseFetchPermissions` is set, `HostAlerts`, `HostSendsOptions` and
`HostSendsPost` in the states that ask for a message, `HostAbandons` for the calls that kick. `asked` holds the users
whose answer is still under way, so an answer can come after its user has been given up and another one, or the same one, has
logged in. The host passes an answer on only if it is about the user logged in now (`PassOn`): the kernel cannot see that,
and without this check `ImplementsAccess` fails. The peer sends the messages of the protocol only; `Kernel` is checked with all others.
`stock` is the number of posts found for a load, `loaded` and `requested` record the load for `LoadBounded`.

**ChatStore.** `dir` maps names to inodes and `content` maps inodes to
sequences of tokens (head, user row, marker, post). The head is the id line and the line "Users:" with what is left of it: the search for a chat has read
the first 18 characters of the file when the copy begins, and the id line of the copy is formatted into 18 bytes, so that a joining to a chat with an id of nine digits
takes a character out of it, and one to a chat with ten digits the last digit (`NewIdLine`). `worker[t]` is the place of a thread in
`applyMessage` and its buffers: each stdio call that reaches the file system is a step of its
own, and the search of a directory is one step per file. An opened file keeps its inode when the name is removed or replaced. Reading from a null
`FILE` ends the process (`Die`), the scans past the end of a file spin (`spin`), `Crash`
kills the process and restarts it over the files as they are. Simplifications:
a file fits one stdio buffer (4096 bytes), so that open and first read are one step and a post is one
write; texts have no newline; user ids are positive; lines torn by
interleaved writes match nobody.

**Wire.** A byte has `Base` values, 256 in the program and fewer in a run, so that all widths of an integer occur with
numbers TLC can hold; only the stub, made of bit fields, is always an octet. The program
swaps bytes where the machine's order differs, so bytes are most significant first. The
buffer that arrives is followed by memory the program does not own (`Beyond`). `Extractable`
names the messages the format gives back: see section 6. `IsHeader` and `IsFrame` say what the packed values may be: the numbers
of a header fill fields of four bytes (`O/Messages.h:13-26`), logarithmic integers have 62 bits (`O/VariableLengthInt.c:75`), a text without length is a string.

**Delivery.** `Receive(n)` is an event whose buffer holds the next n messages of the stream (`Bundle(n)`). The steps of `Wire` then
run over that buffer, with the type of each next frame read from whatever lies at `curLoc`; in a joined buffer that can be the header of the next message.
Where such a read leaves the memory of the model the behaviour is undefined and the model stops (`FrameInMemory`).
The messages of a stream are those `applyMessage` can handle (`IsPost`): two frames, as its comment says (`O/MessageReader.c:74`), of which it takes the second for a text, and no
control message without data (section 6).
`idsOf` reads the ids from the header as words of four bytes in memory, two of them for the user: on a little-endian machine the bit that `applyMessage` tests is `DataFlag`.
`written` is the chunk loop of `addNewPost`; `Leftover` is what lies behind a text that `unpackPlaintext` does not terminate.

**ChatCache.** A step is one start of the client. The file is a sequence of lines, a line a sequence of symbols, since
everything hard here is where a line ends: letters of a name, one symbol for a host and for an id, the marks
between them. `Names` are plain nicknames, `MarkedNames` have a colon or a comma of their own, which the search takes for the separators. `Pieces` is what `fgets` returns with its 1024 bytes, `MatchesName` the `strncmp` over the cached name,
`chatOf` and `hostOf` the two copies, `LengthWraps` and `RunsOff` what goes wrong with the lengths they are made with, `Hits` and `getDetails` the loop, which takes the first piece that matches. A number computed from anything but one id is `SomeNumber`, and so is `cid` when nothing assigns it.
The copy of a host has no terminator: `ended` is whether the byte behind it happens to be one.

**Server, Client.** A handle is `none`, `open` or `closed`; `link`, `recv`, `send` and `flow` are what
msquic knows of connections and streams (msquic is vendored and external: it is modelled from what the callbacks rely on, namely that callbacks of one connection do not overlap, that a
SEND_COMPLETE comes for every successful send and before the stream's SHUTDOWN_COMPLETE, that the
connection's SHUTDOWN_COMPLETE comes after those of its streams). Every call
that may fail has both outcomes. Misuse of a handle or a buffer is recorded in
`misused` (server) or `undefined` (client, which then stops).
`PeerBidiStreamCount` is 1: a peer has one stream at a time.

## 3. Runs

| Run | Bounds | Shows |
|---|---|---|
| `Kernel` | two users, versions: spoken, accepted alternative, unknown; two posts per load instead of 50 | every state: who is admitted, on whose rights, what may change while admitted, how a connection closes, that the handshake proceeds |
| `KernelHost` | three users: one who may not join and whose id is the kernel's initial one, one who may join, one the store does not know; three versions; two posts per load, stocks of 0 to 3 | the kernel with its host implements `Access`; a Load frame is answered within the limit and every load ends; a login is decided |
| `KernelSignedChar` | versions and users of `Kernel`, `char` signed | violation of `HandshakeProgress` |
| `ChatApart` | two chats, one with an id of ten digits, three connections, three messages | joins one after another in one chat, concurrent posts in the other, whose id is long: the files implement `ChatLog`, each message is applied and stored once, each chat is readable at every moment |
| `ChatRaces` | one chat with an id of nine digits, two connections, four users (one with a long id), three messages, one crash | concurrent joins and posts, an unknown chat, a crash: nothing in the files is made up, open files match the places of threads, no call hangs but for a long user id |
| `ChatJoinPost` | one chat, a member who posts, a user who joins | violation of `AddedPostsStay` |
| `Wire` | bytes of 16 values; all four widths of both kinds of integer on both sides of each bound; texts of 0 to 4 bytes; lists of 1 to 3 frames; two memories behind the buffer | sizes equal bytes, nothing is read past the buffer, the round trip, termination |
| `Delivery` | bytes of 256 values; five messages in rows of one to three, all ways of joining them; texts on both sides of a chunk of 4; two memories behind the buffer and behind the text | what is posted was sent, in order, once, in its sender's name; messages apart are all posted |
| `ChatCache` | six names of which some begin others, two with a mark in them, the file of the repository, two entries added, lines of up to 10 symbols | while the cached names are plain, what `-conTo` connects to was cached, and an entry on a line of its own is found; with any names, what is found stays |
| `Server` | two connections, two streams each, one buffer per stream | no handle misused, replies freed once, no worker cut off by Enter, no half-open stream, the server ends |
| `Client` | one connection, one stream | stream and buffer released once under every failure, both handles closed at exit, the program ends |
| `ClientTwoCloses` | as `Client` | violation of `ConnectionClosedOnce` |

Why the bounds are enough. *Kernel*: the code compares users, versions and
counters for equality and order only; two users tell "the same" from "another",
three versions are the three verdicts, two posts per load give below, at and
above the limit. *ChatStore*: two threads show every race of two calls over one file, and the third
connection adds a chat that must not be touched; `LongIdsAssumption` keeps the joinings to a chat with an id of nine digits or more below nine, since the ninth would take a character out of
a row, which is a token of its own (the header of a message has 32 bits for a chat's id, so that no id has more than ten digits); `InodesAssumption` leaves an inode for every
chat, the temporary file and the two files each thread may still hold open. *Wire*: the
code branches on widths only; the values chosen lie on both sides of every bound.
*Server*: callbacks of different connections share nothing but the main
thread's handles, which two connections exercise, and a second stream shows what the first leaves behind.
*Client*: no bound is needed. *KernelHost*: a stock of 3 is above the limit and above what the options message sends;
three users let two answers be under way while the third logs in. *Delivery*: the code compares a buffer with one message only, so three messages
give a joined buffer, one before and one behind. *ChatCache*: two entries fall on one line, the case that is hard; `BufLen` 10 cuts it before the second entry's colon, host, comma or id, and
leaves some pairs whole.

`CHECK_DEADLOCK FALSE` is set where the system stops: chat runs when
`MaxMessages` have been handled, `Wire` when the message is unpacked, server and client when `main` has returned,
`Delivery` when the stream is at its end, `KernelHost` in `APPROVE_CHANGES` and `DENY_CHANGES`, which nothing leaves.

## 4. Fairness

* `Kernel`: `WF(HostSends)`, a host that sends its version alert and its options message when
  the state asks for them. Nothing is assumed of the peer.
* `KernelHost`: the host asks and sends what the state asks for, the store answers every request, and a peer that was sent a version
  alert answers it. The last is an assumption the kernel needs and does not enforce (`giveUpConnection` acts in
  `CHECK_JOIN_PERM` only): without it `LoginDecided` fails in `VERSION_NEGOTIATE_AWAIT`. Nothing makes the host abandon or the peer send.
* `ChatStore`: weak fairness of each thread inside `applyMessage`: the
  operating system runs it. None of `Receive` or `Crash`.
* `Wire`, `Delivery`: the worker that unpacks and applies runs. None of the events.
* `ChatCache`: none; every property is about states.
* `Server`: the main thread runs, `applyMessage` returns, msquic reports the completions it owes,
  and every connection is shut down at some time: the bounded peer falls silent, and the idle timeout
  (`IdleTimeoutMs`, three hours) follows. None of `Enter` or of the peers.
* `Client`: the main thread runs and msquic completes what it has begun. None of the user, the server or the
  network.

## 5. Proofs

`KernelProofs` proves for every set of users, every set of versions and alternatives, every load
limit and both kinds of `char`, from `Kernel`'s own assumptions on its constants:

* `TypeCorrect`: `TypeOK`, with one step per entry point.
* `AdmissionNeedsAnswer` and `RightsGuardDataHolds`: neither invariant is
  inductive alone. A late answer may change the flags, and only
  `FetchBeforeAdmission` says that none is outstanding for an admitted peer;
  an admission takes its right from the answer. The inductive invariant is
  their conjunction `Safety` relative to `TypeOK`, which excludes the passing states
  (`CHECK_READ_PERM`, `CHECK_POST_PERM`, `ASSEMBLE_POST`). `ReceiveSafe`, `SendSafe` and `CallSafe` have one step per action.
* `FrozenHolds`, `LogoutHolds`, `AnswerOnceHolds`: the three action properties,
  from `StepLemma`, which says that each holds of every step that starts in a state satisfying the invariant.

Of the composition `KernelHost` it proves two properties, for every set of users, every content of the store and every limit:

* `ImplementsAccessHolds`: the refinement of `Access`. `HostCallsKernel` shows that every step of the composition is a
  step of `Kernel`, so all of the above holds of it. What the refinement needs beyond that is
  `InsideOnStoredRights`: whoever is inside has the rights of the store. It is inductive only relative to `FetchBeforeAdmission`,
  as `givePermissions` keeps the old byte when nothing was asked. `AccessStep` then maps each action to a login, an
  admission, a leave or a stutter.
* `LoadBoundedHolds`: `LoadBounded` speaks of posts sent and the code counts messages; `LoadCounted` ties the two, and needs that a
  Load frame resets the counter.

`ServerProofs` proves `TypeOK`, `NoMisuse`, `CleanExit` and `NoHalfOpenStream` for any sets of
connections and of streams, and any number of messages. Alone, `NoMisuse` says nothing about the handles
still to be used; the inductive invariant `Inv` adds

* `Handles`: which handles of main are open at each of its places; a listener accepts only between
  `ListenerStart` and `ListenerClose`, and `Configuration` is open all that time;
* `ConnectionLife`: a connection handle is open exactly while msquic has the connection, and messages are
  applied only while it is connected;
* `StreamLife`: a stream handle is open exactly while msquic has the stream, and a reply is allocated exactly while msquic holds it.

`CleanExit` follows at the step of `RegistrationClose`, whose wait is all the code relies on, and stays because
nothing that is left can start anything (`NotExited`). `StreamCallback` has one step per stream event;
`StreamFrame` says that the other streams stay as they are.

`ClientProofs` proves `TypeOK`, `StreamAndBufferOnce` and `CleanExit`. `Client` has no constants, so its run is exhaustive;
the proof says why: `ConnectionLife` and `StreamLife` name for every moment the one who has to release the connection, the stream and the buffer.

`ChatStoreProofs` proves `TypeOK` and `NothingInvented` for any number of threads, chats, users, messages and crashes, from assumptions on the
constants of which two say more than what kind of value they are: `LongIdsAssumption` (section 3) and `InodesAssumption`, that `fopen` never runs out of inodes (a thread has two files open at most;
`FreeInodeExists` counts).

* `TypeCorrect` includes that a thread holds open exactly the files its place needs.
* `NothingInventedHolds`: `NothingInvented` is about the files that have a name, and is not inductive: a thread has in its buffer what a file held a while
  ago, and writes to an inode whose name may be gone or have been given to another file. The inductive invariant `AllGenuine` is about every inode and
  every buffer. `StepMadeOf` carries both theorems: whatever set of tokens the files and the buffers are made of, a step adds to
  it nothing but the lines of the code's own and those that stand for a received message. `OverlayTokens`, `RefillTokens` and `CopyTokens` say it of the
  operators that write.

`ChatApartProofs` proves `AppliedPostsStored`, `ChatsFindable` and the refinement of `ChatLog` for any number of threads, chats, users and messages, from
`ApartAssumption`. Its parts are the conditions without which the properties fail (section 6): no chat id begins another; users with an id
too long for its row have a row from the start; users without a row are served only in chats with an id of eight digits at most, whose id line the copy has whole
(members post in chats with any id); a chat that one connection may add rows to is used by no other, and only one connection
adds rows at all, since all chats share one temporary file; the process is killed only where nobody joins. Any number of connections may post in
any of the other chats at the same time.

* The inductive invariant `Inv` has three parts. `DirectoryOK`: each linked chat file is `Complete` (id line, rows of the form the code
  writes, the marker, then one post for each message applied to this chat and no other post), no two names share an inode, and a chat
  without its file is `Renaming`. `CallerOK` says for each thread what it can rely on at its place: on the entries it has still to search while
  others rename files, on the inode it has opened to append still being the chat's, and, through `JoinerOK`, on its buffer being the chat with
  the new row, and after `closeTempy` the temporary file too. `MessagesOK`: a message is in the hands of one thread.
* One lemma per action (`copyInv`, `renameInv`, ...) shows that `Inv` is kept. The frame lemmas `OthersKeep`, `DirectoryKeeps`, `PrivateStep` and `JoinStep` say once
  what the other threads and chats keep.
* The operators on files are characterised on complete files: where the marker is (`ShapeParts`), what a scan answers (`PermOfShape`),
  that the copy adds the row and keeps the posts in order (`CopyOfShape`), that the posts are the lines behind the marker (`PostsOfShape`). The positions
  of lines are found by the least-element principle `LeastExists`, which follows from the well-foundedness of the naturals.
* `AbstractStep` maps `remove` to `Join` (from that step on the copy stands for the chat), `append` to `Say` and every other step to a stutter.

`ChatCacheProofs` proves the four properties of `ChatCache` for any nicknames, hosts, ids, number of starts and buffer length, from assumptions on the constants that
state what the code and the repository give: nicknames are not empty, the plain ones are of letters only, the others may have colons and commas anywhere, and letters, hosts, ids and marks are told apart (`SymbolsAssumption`);
every line of the shipped file is an entry, with a newline, that fits the buffer (`ShippedAssumption`: the three lines of `conmem.log`), and so does a new entry
(`BufLenAssumption`: `cacheNew` formats it into a buffer of the same 1024 bytes, `O/chatCache.c:10`). `MaxEntries` bounds the run, not the proof: nothing is assumed of it.
`ConnectsToCached` and `AloneIsFound` have a condition of their own, `PlainWritten`: no nickname that was cached so far has a mark in it. Without it they fail (section 6).
`TypeOK` and `LinesStay` need no such condition, and the nickname that is asked for may be any.

* The properties speak of what a search returns, which no step of the program keeps; the inductive invariant `Inv` is about the file: it is the shipped lines, followed, once something was
  written, by one line (`GrownLine`) that holds all written entries end to end. While they are plain, `OneLine` says of that line what the search can meet on it: behind
  each colon a host, a comma and an id of one written entry, behind each comma an id, no `BufLen` symbols that a name could be made of, an id at the end. `Grown` shows that
  an entry appended to the line keeps this, `WhereEntryGoes` that `cacheNew` appends there.
* `PieceWithin` and `FirstSymbol` characterise `fgets` and `strcspn`. `ColonFound` shows that a search stops only at a colon with nothing but letters before it: no piece is made of symbols of
  names only, so one without a colon matches no name, and a comma further to the front would have such symbols on both sides. `DetailsOf` says what is read behind that colon wherever the piece ends:
  the first comma is behind it, so the host's length does not wrap there, and where four symbols are left nothing is read beyond the end (`RunsOff`).
  `FoundInShipped` and `FoundInOneLine` apply it to the two kinds of line.
* `SearchAnswers` is `ConnectsToCached` for the next `-conTo`. `LinesStayHolds` is `FirstLinesAnswer`: a file that begins with another one answers what that one
  answers. `AloneIsFoundHolds` needs `FoundInShipped` for the lines before and `FoundAlone` for the last.

`WireProofs` proves the four safety properties of `Wire` for bytes of any number of values that is a multiple of 4 and at least 16, any list of frames, and any memory behind the buffer, from
`BaseAssumption`, `MessagesAssumption` and `BeyondAssumption`. `MessagesAssumption` is what section 2 says of `IsHeader` and `IsFrame`; `HeadersConstructed` shows
that the two functions that construct headers meet it. `BufferFilled` and `RoundTrip` are proved as they stand, `ReadsInside` and `TypeOK` for `Extractable` messages: another message may send
the loop anywhere (section 6), and that the pointers stay in the buffer for the odd lists of `MCWire` too is model-checked only.

* Sizes, bytes and values are recursive functions over intervals. The library's induction theorems cannot be instantiated, so `UpTo` proves induction over an interval
  from the least-element principle, and `Recursive` that such a definition has the function it describes; `ShiftedIs`, `ValueIs`, `PackedSteps` and `SizeSteps` apply it.
* `At(b, i, s)` says that the bytes `s` lie in `b` from cell `i` on. `LVIRead` and `BytesRead` read an integer wherever it lies: the digits that
  unpacking adds up are the shifts that packing cut off (`DigitsRead`), and the size in the two top bits is the one packing chose, as the first byte leaves them free
  (`SizeOfLVI`). `HeaderRead`, `TransitRead`, `LengthRead` and `ZeroRead` do the same for headers and frames, part by part (`AtParts`).
* `Measured` and `Laid` follow the two walks of `PackMessage` over a message: the sizes add up to the bytes, and each frame lies in the cell behind those before it.
* The inductive invariant `IInv` says how far the extraction is: `Got` names the number of frames extracted and ties both pointers to the cell of the next one, two cells
  less behind a last text that ends with a zero. `LoopGoesOn` is the point of the loop's condition: it holds exactly while a frame is to come, because a frame
  takes two bytes at least (`CellsGrow`) and a zero byte may be left over at the end only.

`DeliveryProofs` proves `PostedInOrder` for any rows of messages, any way the events join them, any length of a chunk and any memory behind a buffer or a text, from
`StreamsAssumption` (what section 2 says of the messages of a stream), `LeftoverAssumption` (memory holds numbers), `ChunkAssumption` (a chunk has room for a
character) and the assumptions of `Wire`.

* `PostedInOrder` relates posts to the stream and says nothing of the buffer being unpacked. The inductive invariant `DInv` names how much of the stream the
  events have indicated (`Behind`), and the message the last buffer began with; the posts are of messages before that one, and of it once the buffer has been applied (`PostedFrom`).
* While a buffer is served, `Holding` and `Underway` say that it begins with that message and how far its two frames are extracted. A joined
  buffer goes on behind it, so `IInv` of `Wire` does not apply. `FrameToCome` shows that the loop still reads both frames of the first message,
  and `SecondStays` that whatever it extracts further behind leaves the second frame alone, the only one that is posted.
* `IdsRead` is why the wrong bit in `applyMessage` does no harm: a message whose class is its data flag has its ids where that bit says.
* `WrittenKeeps` says of any text which of its characters the chunk loop of `addNewPost` stores: each chunk but the last loses one (`ChunkAdds`, `ChunksKeep`).

Model-checked only: the liveness properties `HandshakeProgress`, `LoadsEnd`, `LoginDecided`, `MessagesApplied`, `CallsEnd`, `UnpackingEnds`, `ApartAllPosted`, `Exits` and `Ends`,
since fairness and `ENABLED` are out of the prover's reach, and `TypeOK` and `ReadsInside` of `Wire` for messages that are not `Extractable`.

## 6. Where code and comments disagree

Shown by a run:

* `sentMessage` shifts a plain `char` (`O/QMSPkernel.c:136`): signed, no control class is ever recognised.
* A post appended while a join copies the file is lost (`O/chatWriter.c:132`).
* The client's connection handle is closed by the callback and again by main (`O/QMSP_Runner.c:629, 916`).

In the models, without a run of their own:

* a `copyChat.tmp` left by a crash is found as the chat and gets the posts (`O/chatReader.c:25`): with a crash in the run `ChatJoinPost`
  `AddedPostsStay` fails with one connection already;
* a message for chat 1 may go to chat 12, because only the digits of the id that is looked for are compared (`O/chatReader.c:30`, `O/chatWriter.c:30, 68`):
  with chats 1 and 12 in the instance of `ChatJoinPost`, `AddedPostsStay` fails with one post;
* the id line of a chat with ten digits is cut when a user joins (`O/chatWriter.c:117`): the file begins with another id, and the next message for the chat ends the process.
  With nine digits its newline is lost, and with each further joining a character of the line "Users:" below, until at the eighth the first row stands
  behind the id and its user is no member any more. `ApartAssumption` has such chats joined by nobody;
* the row of a user id of eleven digits is cut (`O/chatWriter.c:116`), the file's marker is never found again and the thread
  spins: `CallsEnd` excepts such users, although the client accepts their ids (`O/QMSP_Runner.c:801`);
* a nickname with a comma is cached and not found: the first comma is before the first colon, and the length of the host wraps. One with a colon, "a:b", is found as "a" would be, with
  a host that nobody cached (`O/chatCache.c:50`). `ConnectsToCached` and `AloneIsFound` without `PlainWritten` fail in the run `ChatCache`;
* the host that is found has no terminator (`O/chatCache.c:52`), so that an address with more behind it may be connected to: `ended` is false then;
* an entry is cached without a newline (`O/chatCache.c:15`): of two entries cached one after the other only the first is
  found, with an id made of the characters of the second; a name that an older cached name begins is not found either;
* where `fgets` cuts such a line right behind a colon, the length of the host wraps (`O/chatCache.c:50`), and behind a comma the id is read from beyond what it read (`:56`):
  `ConnectsToCached` allows undefined behaviour on lines that are cut;
* without `-name` the client's `cid` is never assigned (`O/QMSP_Runner.c:829`);
* of messages that share a buffer only the first is posted, if any (`O/QMSP_Runner.c:157`): `ApartAllPosted` speaks of messages apart;
* a text is posted with what lies behind it in memory (`O/MessageReader.c:97`) and loses one character per chunk of 1024 (`O/chatWriter.c:155`);
* on a little-endian machine `applyMessage` tells headers apart by `DataFlag` (`O/MessageReader.c:82`): right for data headers, which have it
  clear, and for control headers that carry data;
* a peer that does not answer the version alert is never given up (`O/QMSPkernel.c:232`), one that goes on sending after an agreed
  alternative may never be decided upon (`LoginDecided` excepts it as `impatient`), and nothing leaves `APPROVE_CHANGES` and `DENY_CHANGES`;
* a retransmission is requested after every piece of a post (`O/QMSPkernel.c:128`; line 127 states a condition);
* an agreed alternative version still counts as a mismatch (`O/QMSPkernel.c:60`);
* a load after the options message starts with its counter at the limit (`O/QMSPkernel.c:154`);
* two joins at once lose a row, and sometimes the file (`O/chatWriter.c:131`);
* post numbers repeat, because lines are counted (`O/chatWriter.c:96`);
* every line but a final `logout` without newline ends the client's loop (`O/QMSP_Runner.c:862`), and that one
  runs into an unset `SendBuffer` (`:892`);
* a frame list of two bytes is not extracted, a text with a terminator leaves one byte over when another frame
  follows, and a type that is not unpacked leaves an unset slot and may keep the loop from ending (`O/Frames.c:146-197`).

## 7. Not modelled

* msquic: vendored, with its headers three quarters of the lines of the repository; modelled only as the environment of `Server`, `Client` and `Delivery`.
* `src/FtextPacker.c`, `src/colorNames.c`, `src/stringCompareAnyCase.c`: an unfinished parser without state, linked by nothing; its main loop has no exit.
* The newer codec in `src/`: linked by nothing. What it shares with `O/` is `Wire`'s, line for line but for integer types. Its post metadata
  frames are left out because every call of their functions has undefined behaviour: `unpackPostMetadata` reallocates its result to a few bytes, the size of a
  pointer, and sizes and packing start at an offset scaled by the size of the frame (`frame + (sizeof(uint64_t)*3)`).
* Buffers that end in the middle of a message: `unpackMessage` then reads memory that nothing in the program determines.
* The ninth joining to a chat with an id of nine digits (`LongIdsAssumption`); `-conAt` with a comma in the host, and nicknames with a newline, which make lines of the cache that are no entries.
* `fileName` in `findChatName` and `findChat_storeName` is one byte shorter than the name copied into it (`O/chatWriter.c:31, 69`), which malloc's rounding hides for most lengths.
* Streams a peer starts before its connection is reported as connected (0-RTT), which `Server` does not have.
* Newlines in texts, contents of uninitialised memory, integers of 2^62 and more (refused by `RunClient`).
* `confirmChat`, `getNicknameOfUser`: read only, called by tests only. `getMessages`, `getLastMessage`, `applyPacked`: empty.
* Allocation failures of the codec, which leave null pointers nobody tests; a missing or unwritable cache file.

## 8. Plan

Every component that has behaviour of its own is modelled, and every safety property that a passing run checks has a theorem. What may still be added:

1. `ReadsInside` for the odd lists of `Wire`: a condition on a list, weaker than `Extractable`, under which the loop stays in the buffer.
2. Buffers that end in the middle of a message, if `unpackMessage` ever checks the length it is given.
