# hvcp in TLA+

hvcp copies files between a Hyper-V host and a Linux guest. This directory holds
a TLA+ model of its two programs and of the connections between them, the TLC
configurations that check it, and proofs checked by TLAPS. The source is the
reference for every definition; `PROJECT.json` maps each one to its lines.

## 1. The system

| part | code | state it keeps | operations | modelled in |
|---|---|---|---|---|
| wire protocol | `hvcp-common.h` | none | request `[command][length][data]`, reply `[result][length]` | `HvcpProtocol` |
| connections | AF_HYPERV, AF_VSOCK (external) | two byte streams per call, the listen backlog | connect, accept, send, recv, shutdown, close | `HvSocket` |
| daemon, life cycle | `linux/server.cpp`, `linux/hvcp.service` | the listening socket, the client | listen, accept, close; restart by systemd | `GuestServer` |
| daemon, commands | `linux/command-proc.*` | `path`, `target_uid` per client; the file system | SET_USER, SET_REMOTE_PATH, SET_FILE_NAME, COPY_FILE_TO_GUEST, COPY_FILE_FROM_GUEST | `GuestServer`; by bytes in `TransferLoops`, `PathBuffer`, `Framing` |
| engine | `dll/dllmain.cpp`, `dll/hvcp-internal.*`, `hvcp.h` | `errcode`, `errdetails` per thread; one socket per call | CopyFileToGuest, CopyFileFromGuest, GetHVCPLastError | `HostEngine`; `EngineThread` for resources and codes, `TransferLoops` for bytes |
| lookup of the VM | `GetVMID` in `dll/hvcp-internal.cpp` (simdjson and HCS external) | none | name to GUID | alternatives of `HostEngine!Connect`; step by step in `EngineThread` |
| command line | `cli/main.cpp` | none | two patterns, one call, an exit code | `CommandLine` |
| version resources | `cli/ProductInfo.*` | a block of memory and its length | the help text | `VersionInfo` |
| simdjson | `dll/simdjson/` | none | one parse | not modelled: vendored |
| installer, packages, version tool | `rpm/`, `versionup.ps1`, `linux/Makefile` | none | build | not modelled |

How they interact. A call of the engine opens a connection of its own, sends
one request at a time and waits for its reply, except that the file of an
upload follows its request without a reply in between, and the file of a
download follows the reply. Calls run in any number of threads and processes of
the host and share nothing. The daemon is one thread: it accepts a connection,
runs `command_loop` on it until the peer is gone or a handler has shut the
socket down for reading, closes it and accepts the next. What calls do share is
that thread, the listen backlog (`listen(sock, 1)`) and the guest's files.

What is hard here:

* one thread and many clients: a session that does not end blocks everybody;
* a stream without marks: a request that fails half-way leaves bytes behind
  which the next `recv` would take for something else. The daemon's answer is
  `shutdown(SHUT_RD)` before it reports an error;
* the ends of loops: a `recv` of 0, a `sendfile` of 0;
* failure after a reply that says OK, after the old file was emptied, or
  between the last block and the owner;
* the death of either process at any step, with a restart of the daemon;
* error codes that live in a thread and outlast the call that set them, and are
  read after the cleanup of the failure has made other calls;
* lengths: of a path around PATH_MAX that comes in two requests, of a file that
  is sent in chunks, of words that arrive in part, signed and unsigned;
* four lazy and greedy parts of one pattern that divide a command line argument.

What makes each part correct:

* protocol: what the reader expects next is what the writer meant (`Aligned`,
  `DataIsData`);
* daemon: one session at a time and a consistent backlog (`OneSession`); it
  writes only the file the call asked for, and block after block of that call's
  source (`OnlyOwnFileWritten`, `StoresSource`); it gets done with every client
  (`SessionsEnd`);
* engine: TRUE means the copy is complete (`UploadStored`, `DownloadFaithful`),
  FALSE comes with a code (`FailureHasCode`, `CodeOfFailure`; GetVMID has a failure
  without one: `GetVMIDSetsCode`), every call returns
  (`CallsReturn`) and gives back what it acquired (`Released`);
* both together: a service whose files change as a whole, in every step and in the
  end (`ServiceSteps`, `ServiceKept`); behind it, what is under way of a download
  is the file as it is (`Deliveries`), and no session ends but for a reason (`Orderly`);
* loops: the bytes add up whatever the limits (`InOrder`, `ChunkFits`,
  `NotTooMany`, `WholeFile`), and they end (`LoopsEnd`);
* buffers and words: `InBounds`, `WholeName`, `LengthDecides`, `CommandSent`,
  `AtBoundary`, `StringWhole`;
* command line: the copy that was asked for (`AsAsked`) and exit codes of which each
  says one thing (`ExitTells`); the help text frees what it loads (`BlocksKept`).

## 2. The modules

```
HvcpProtocol <- HvSocket <- GuestServer, HostEngine <- HvcpSystem
HvcpSystem <- HvcpConversation <- HvcpDelivery <- HvcpService <- MCHvcp
CopyService <- HvcpService                  (INSTANCE ... WITH: the refinement)
HvcpSystem <- HvcpSystemProofs              (OneSession)
HvcpConversation, HvcpSystemProofs <- HvcpConversationProofs
HvcpService, HvcpConversationProofs <- HvcpServiceProofs
TransferLoops <- MCLoops, TransferLoopsProofs
PathBuffer    <- MCPath, PathBufferProofs
Framing       <- MCFraming, FramingProofs
EngineThread  <- MCThread, EngineThreadProofs
VersionInfo   <- CommandLine <- MCCommandLine, CommandLineProofs
```

**HvcpProtocol.** The stream is a sequence of tokens `<<kind, value>>`: a word, a
string, or a block of a file. The kind is what the sender meant. A receiver
never looks at it; only properties do. `Blocks(source, n)` is a file of n blocks
that remembers where it comes from, so a mixture of two files is not a version
of either.

**HvSocket.** Both ends of the connection of every call, the two streams and the
backlog. `hostEnd` is none, open or closed; `guestEnd` is none, queued, open,
deaf (after `shutdown(SHUT_RD)`) or closed. A stream holds `Window` tokens before
a sender of file data blocks. `Faults` is the set of faults of the environment a
run allows: the model is the same in all runs.

**GuestServer.** `phase` is the place of the daemon's thread: in `accept`, in the
`recv` of a command or a length, in the case of a command, in one of the two
loops. Each handler is one action, from its first `recv` to its reply, since it
touches nothing another process sees in between but the file it opens; the loops
of `recv_file` and `send_file` are an action per iteration, so that everything
else interleaves with a transfer. `Send` is every reply: to a peer that is gone
it is lost, or kills the daemon by SIGPIPE. The iterations that go nowhere (a
`recv` of 0 in `recv_file`, a `sendfile64` of 0 in `send_file`) are there as
steps that change nothing. A path is empty, a directory, or a file of a
directory; `LongPaths` are those that do not fit in PATH_MAX.
What an uninitialized `struct passwd` holds is any uid. So is what comes of a name that
never came: for a length of -1 a failing `recv` is a success (`FailsUnnoticed`). The
terminator is then written in front of the block, over the highest byte of the size
that glibc's malloc keeps there, which is zero already.

**HostEngine.** `pc[c]` is the place of call c, `req[c]` its arguments. A state whose
name ends in `?` waits for a reply. Structured exceptions unwind to the API
function, which disconnects and returns FALSE: that is `Fail`, which also has
the rule that a destination that could not be created overrides any other error
(`__finally` in `CopyFileFromGuestInternal`). `errcode` starts as `Stale`, what
an earlier call left there. TransmitFile is a step per block, and one that can only
fail for an empty file, for which the code calls it once, too. `Kill` ends the process of a call at any point and
loses any suffix of what it sent.

**HvcpSystem.** The composition: `Next` is a step of the daemon, its restart, a
step of a call, or something from outside (`Crash`, `Truncate`, `Kill`). `Quiet` is the
end of all work, so that TLC's check for deadlock reports every other state
nobody can leave. The properties are stated here.

**HvcpConversation.** No code: `Conversation`, the inductive invariant that says
for each call how far the engine, the two streams and the daemon are in the
same request, and what the daemon has been set up with for it (section 5).

**HvcpDelivery.** No code either: `Deliveries` says which blocks of which version a
download has stored, has under way and still misses, `Orderly` how sessions end and
when uploads return where nothing from outside interferes. They are what
`Conversation` lacks for the refinement (section 5).

**CopyService, HvcpService.** What hvcp promises, without connections, requests or
blocks: a file of the guest is a whole version, or in flux under the one upload
that writes it, or what a failed upload left; an upload opens, then commits or
tears; TRUE means that a whole version was moved. `HvcpService` is the refinement
mapping: a file is in flux while the daemon is in `recv_file` for it, the upload
takes effect with the step that ends the loop (fchown included), a download with
the step that returns TRUE. Everything else that the two programs do is a
stuttering step of the service. `ServiceSteps` is the initial states and steps of
`CopyService` under this mapping, `ServiceKept` has its fairness, too. `Reliable`
names the conditions under which they hold. A user the guest does not know may become any
owner, which is what the code does.

The modules above move whole tokens. The next three look inside of them.

**TransferLoops.** One transfer, as bytes: the loop around TransmitFile against
`recv_file`, `send_file` against the loop of the engine. A call moves any number of
bytes that its limit, the size it was given, and the room in the stream allow;
TransmitFile may leave the file pointer anywhere, which is why the code sets it.
A chunk is a DWORD (`% DwordSize`). The source of a download may get longer or
shorter under it.

**PathBuffer.** The arrays `path`, `path_for_dirname` and `filename` as lengths, and
the highest index written in each. `len` arrives signed and is compared as a
size_t (`% SizeMax`). Each of the checks, and each `strncpy`, `strncat` and
terminator that follows, is there. An access behind an array is undefined
behaviour, and no step follows it. `parts` is a history variable: whether the name
came in one request or in two, which have different limits (lines 100 and 228 of
command-proc.cpp); `LengthDecides` states both.

**Framing.** `command_loop` on a stream of bytes that ends or breaks after any
number of them. A word that arrives in part leaves `cmd` or `len` with anything;
`recv_string` compares what `recv` returns with the length it was given, also when
both are -1. `Begin`, the place of a request in the stream, is a sum over the requests
before it: a constant, with its recurrence as an assumption; `MCFraming`
defines it by recursion and TLC checks the assumption.

**EngineThread.** One thread that makes call after call. `Steps` lists what a call
does, in its order; `Failures` how each step may fail and with which code; what is
held (Winsock, socket, the operation and query of HCS, its document, the
converted strings, the file) is counted up and down along the `__finally` blocks and
the early returns of GetVMID. A failure whose code is `"kept"` sets none, and
`CodeOfFailure` says nothing of it. `Between` tells which calls the cleanup makes before
a handler reads the last error: after those, `errdetails` may be any number.

**CommandLine, VersionInfo.** `wmain`: arguments are sequences of characters of
which only `@`, `:` and the backslash matter; `Matches` are the ways to divide one
and `Before` the order in which the regular expression prefers them. Initial
states are every copy that the README's usage can ask for, and some arguments
that it cannot. `result` is what the engine returned, and `CodeOf` what wmain makes of
it. `ArgumentsAssumption` says what names and paths are: names have
neither `@` nor `:`, a path of the guest has no backslash, and on the host one follows
every colon. The help text is that of `VersionInfo`: two objects that load a
version resource. `GetLastError` after a GetModuleFileName that succeeded is the error
of some earlier call, and Win32 does not document what a call that succeeds leaves
there; so `NoName` is possible at any time, and no property says which versions are
shown.

**MCHvcp, MCLoops, MCPath, MCFraming, MCThread, MCCommandLine.** Values for TLC.
**HvcpSystemProofs**, **HvcpConversationProofs**, **HvcpServiceProofs**,
**TransferLoopsProofs**, **PathBufferProofs**, **FramingProofs**, **EngineThreadProofs**,
**CommandLineProofs.** Theorems, section 5.

A definition marked `mutant` is no part of the model: it is the mistake that the
property named with it in `PROJECT.json` catches when it replaces the definition
after it.

## 3. The runs

Bounds of the runs of MCHvcp: two calls, files of 0 to 3 blocks, a window of 2
tokens, two directories of which one exists, two names, one account, at most two
crashes (`MaxCrashes`). Two calls are what it takes for one to wait for, follow or
race the other, and three blocks to fill the window and go on. A backlog of 1 holds
two connections on Linux, which two calls never exceed; `recovery` has a backlog of 0,
which holds one, so that a call that comes while the other one waits is refused.
`OneSessionAlways` is for any number of calls and any backlog. Every action and each
of its alternatives happens in some passing run.

| run | asks | answer |
|---|---|---|
| `transfers` | Two calls, any two of six (uploads of 0 to 3 blocks to a directory over an old file, to a new file, to a directory that is not there, as root, as a user and as one nobody knows; downloads of a file that is there and of one that may be), with failures of Winsock, of files on both sides and of passwd, and SIGPIPE: types, `Conversation`, `StoresSource`, `Deliveries`, `Orderly`, `UploadStored`, `DownloadFaithful`, `CallsReturn`, `SessionsEnd`, and the refinement, its steps (`ServiceSteps`) and all of it (`ServiceKept`). | holds |
| `faults` | Two calls that write and read the same files, one as a user nobody knows, one without a user name and some with paths too long, with faults of Winsock, lookup, files of both sides, passwd, connection resets, SIGPIPE, kills of the caller and a crash: `Aligned`, `OnlyOwnFileWritten`, `UploadStored`. | holds |
| `recovery` | Two calls, a backlog with room for one, two crashes, accept failing any number of times, file errors, another process truncating the file: `CallsReturn`, `FailureHasCode`, `OneSession`. | holds |
| `loops` | Files of 0 to 5 bytes, chunks of at most 2 for TransmitFile and for sendfile64, blocks of 2, 3 bytes in the stream, DWORDs below 4, all faults: `TypeOK`, `InOrder`, `ChunkFits`, `NotTooMany`, `WholeFile`, `LoopsEnd`. Five bytes are three chunks, the last one short; 4 bytes would be a DWORD of 0. | holds |
| `paths` | PATH_MAX 5, strings of up to 7 bytes with and without a slash at the end, and the length -1; any sequence of requests, sessions and broken connections: `TypeOK`, `InBounds`, `WholeName`, `LengthDecides`. | holds |
| `framing` | Five sessions (an upload, one that is refused, a download, an upload and a download through one connection, a null user name), words of 2 bytes, cut or broken after every byte: `CommandSent`, `AtBoundary`, `StringWhole`. | holds |
| `thread` | Uploads and downloads in any number, each failing at each step in each way with one of two error numbers: `TypeOK`, `Released`, `CodeOfFailure`, `DetailsOfFailure`. | holds |
| `command_line` | Users and machines of one and two characters, guest paths of up to five over `a`, `@`, `:`, host paths with and without drive and directory; files with and without a version resource: `AsAsked`, `ExitTells`, `BlocksKept`. | holds |
| `directory_download` | `DataIsData` for a directory | fails: a second reply among the data |
| `null_user_name` | `CallsReturn` with a null user name | fails: length -1, both sides wait |
| `unknown_user` | `UnknownUserRefused` | fails: `getpwnam_r` finds nobody and returns 0 |
| `vmid_code` | `GetVMIDSetsCode`: "errcode should be set in GetVMID()" (hvcp-internal.cpp:120) | fails: HcsCreateOperation returns null, and GetVMID returns without a code |

What a property does not claim, and what the code does instead:

* `SessionsEnd` and `CallsReturn` are checked with callers that are not killed, and
  `LoopsEnd` excuses an upload that lost its sender: `recv_file` takes a `recv` of 0
  for neither data nor an error (command-proc.cpp:130), and the daemon spins.
* `LoopsEnd` and `CallsReturn` excuse a download whose file stays too short:
  `sendfile64` returns 0 and `send_file` goes on (command-proc.cpp:161). In
  `CallsReturn` that is `Starved`, and it must last for ever to excuse a call; then all
  calls wait, since the daemon has one thread. Without the excuse `recovery` fails.
* `WholeFile` excuses a download whose connection ended, `DownloadFaithful` speaks of
  a session that is on, `ServiceKept` is checked without crashes: the engine breaks
  out of its loop at a `recv` of 0 and returns TRUE for part of a file
  (hvcp-internal.cpp:332).
* `CodeOfFailure` says nothing of the two failures that have no code of their own:
  GetVMID without an operation (hvcp-internal.cpp:35), which `vmid_code` shows, and a
  user name that is refused (hvcp-internal.cpp:202), of which no comment says what it
  should leave. `recovery` leaves out the faults `vmlookup` and `passwd`, with which
  `FailureHasCode` does not hold.
* `DetailsOfFailure` says nothing of the failures whose handler runs after something was
  given back: `errdetails` may then be any number.
* `OnlyOwnFileWritten` shows which file a failing call may tear, and not that none is
  torn: O_TRUNC has emptied the old one (command-proc.cpp:125). `CopyService` has `Tear`
  for this.
* `UploadStored` is run without the fault `chown`, whose result the code ignores;
  its owner part is about users the guest knows, and `JobOf` of `HvcpService` lets
  any other become any owner, for the reason `unknown_user` shows.
* `InBounds` excuses a string of PATH_MAX bytes and a directory of PATH_MAX - 1
  without a slash: `>` in the checks of command-proc.cpp:100 and 221 lets them in.
* `StringWhole` excuses a length that was cut in two. With a length of -1 a broken
  connection is taken for an empty user name; there are no bytes to lose.
* `Released` excuses the document of a failing HcsWaitForOperationResult.
* `AsAsked` excuses a copy without a user whose path has an `@` and a `:` after it:
  `vm:/a@b:c` is taken for the user `vm:/a` of the machine `b` (main.cpp:52),
  although the README's usage excludes no character from a path. It is about host
  paths where a backslash follows every colon: `C:file` on its own would be taken
  for the path `file` of a machine `C`.
* `UploadStored` and `DownloadFaithful` speak of a call that returns while its session
  is on: after a crash the restarted daemon may already be writing the file for
  somebody else.

`ServiceKept` is checked with the failures that a program reports, and without
those that the service does not know: a crash or a kill leaves a file in flux for
ever or a download with TRUE for a piece; `reset`, as a fault that may happen at
every `recv`, would be a way out of any wait and hide what waits, as would `accept`,
after which the daemon is a new one; `chown` and `truncate` change files behind an
upload's back; and with `hostread` or `readerror` a connection ends, or a reply comes,
in the middle of the data, and the two defects of downloads named above show.

The runs without TLC's check for deadlock: `null_user_name`, where the deadlock is
what it shows; `framing` and `command_line`, where the session or the process ends;
`paths`, where nothing follows undefined behaviour.

## 4. Fairness

`Fairness` (HvcpSystem) is weak fairness of the daemon's thread (`Serve`), of the restart by
systemd (`Restart=always` in `hvcp.service`) and of each call's thread. They
block only in calls of the kernel, which return when what they wait for is
there; nothing else is assumed. Kills, crashes, truncations and faults are never
required to happen. Weak fairness is enough: a step of either thread, once
possible, stays possible or is replaced by another of the same thread. With weak
fairness of `Write` and `Return` in `CopyService`, `ServiceKept` also says that an
upload that opened its file gets done with it and that every call returns.

`TransferLoops` has weak fairness of the two loops (each is a thread in a system
call that returns when there is data or room) and none of deaths, failures or
changes of the file. `PathBuffer`, `Framing`, `EngineThread` and `CommandLine` have no
liveness properties and no fairness.

A fault that may happen at every step of a loop would, with the fairness of that
loop's thread, have to happen in the end. So `recovery` leaves out `readerror`, which
would end every download of a truncated file, and with it the wait that `Starved` is
about.

## 5. Proofs

The theorems of the system hold for any set of calls and requests, any files, any
window and backlog, any number of crashes, and, unless said otherwise, any set of
faults; those of `TransferLoops` and `PathBuffer` for any sizes and limits, those of
`Framing` for any sessions and sizes of words, those of `EngineThread` for any error
numbers and any number of calls, those of `CommandLine` for any names and paths.

| theorem | says |
|---|---|
| `OneSessionAlways` | `Spec => []OneSession`: a connection whose guest end is open or deaf is the daemon's current client; the backlog holds every queued connection once and no other, at most `Backlog + 1` of them, none when there is no process |
| `ConversationAlways` | `Spec => []Conversation` |
| `TypeOKAlways` | `Spec => []TypeOK`; not trivial here, since commands, lengths, paths, users and blocks are taken off a stream |
| `AlignedAlways` | `Spec => []Aligned`: no byte is taken for something it is not |
| `StoresSourceAlways` | `Spec => []StoresSource`: `recv_file` stores the blocks of its client's source, in order, at the path that was asked for |
| `OwnFileAlways` | `Spec => OnlyOwnFileWritten`, if `truncate` is not among the faults |
| `UploadStoredAlways` | `Spec => UploadStored`, if neither `truncate` nor `chown` is |
| `DeliveriesAlways` | `Spec => []Deliveries`, if `truncate` is not among the faults |
| `DownloadFaithfulAlways` | `Spec => DownloadFaithful`, on the same condition: TRUE means the local file is the file of the guest, whatever else fails |
| `FailureHasCodeAlways` | `Spec => FailureHasCode`, if neither `vmlookup` nor `passwd` is: the two whose failure sets no code |
| `OrderlyAlways` | `Spec => []Orderly`, if `Reliable` holds |
| `ServiceStepsAlways` | `Spec => ServiceSteps`, if `Reliable` holds: the two programs implement `CopyService`, step by step |
| `LoopsTypeOKAlways` | no counter of a transfer loop goes below zero, so the unsigned ones never wrap |
| `InOrderAlways` | the byte read next is the byte sent next |
| `ChunkFitsAlways` | TransmitFile gets what it accepts, for a file of any size |
| `NotTooManyAlways` | no byte after those that were announced |
| `WholeFileAlways` | a loop that ends has the whole file, but for the torn download |
| `InBoundsAlways` | `PathBuffer`: which writes leave an array, for any PATH_MAX |
| `WholeNameAlways` | the path that is opened is the whole name |
| `LengthDecidesAlways` | refused as too long if and only if longer than its limit, which is one byte less for a name in two requests |
| `PathTypeOKAlways` | the slash in front of an empty path is never seen |
| `CommandSentAlways` | `Framing`: a handler runs only for a command that was sent, in its turn |
| `AtBoundaryAlways` | the next byte taken for a command is the first one of a request |
| `StringWholeAlways` | a string that was accepted came whole |
| `ThreadTypeOKAlways` | `EngineThread`: nothing is acquired twice or given back twice |
| `ReleasedAlways` | a call that ends holds nothing, but for one document |
| `CodeOfFailureAlways` | the code after FALSE is that of the first failure, if it has one |
| `DetailsOfFailureAlways` | so are the details, where they are read in time |
| `AsAskedAlways` | `CommandLine`: the engine is asked for what was written, but for one ambiguity |
| `ExitTellsAlways` | each exit code means one thing, and 0 that the engine returned TRUE |
| `BlocksKeptAlways` | `VersionInfo`: no read without a block, no block that stays |

**OneSession.** It is not inductive: that `Connect` does not queue a connection
twice needs to know that a call that has not connected has no guest end.
`SessionInv` adds this and the types. The steps fall into a few shapes, each a
lemma: the thread goes on with the same client (`SameClient`, `SameSession`), a
handler ends (`EndOfHandler`, `EndOfRequest`), the process ends
(`EndOfProcess`), a call goes on or returns (`CallGoesOn`); `Accept`, `Close`
and `Connect`, which move a connection, are proved on their own.

**Conversation.** `Aligned` and the properties of uploads depend on what both
streams hold and on where both threads are. For each call, `Talk(c)` has three
parts:

* `Ends`: what `pc[c]` says of the two ends of the connection;
* `GuestSide`: while the daemon reads the stream, what is in it is a piece of one
  request of the call, from where the daemon is (`Taken` tokens of it are
  gone), and the daemon is prepared for that request: its path, its target
  user, and in `recv_file` the blocks stored so far. This holds after the host
  died too, which is why a killed upload harms no other file;
* `HostSide`: while the engine is there, it is either between two requests with
  nothing under way (`AtRest`), or its request is not answered yet and the
  daemon has or will get all of it (`Pending`), or it is answered with OK
  (`Answered`), or the file of a download is on its way (`Delivering`), or the
  daemon has refused it or is gone (`Over`).

The invariant is `Inv == TypeOK /\ SessionInv /\ Conversation`; each part needs the
others. A step concerns one call: `OtherCall` carries all others over. For the
step of an engine (`HostTalk`) the shapes are a request that goes out
(`RequestGoesOut`, `BlockGoesOut`), a reply that is OK (`ReplyIsOK`) and a call that
ends (`EndOfCall`); for the daemon, a token that is taken (`TokenTaken`,
`ThreadMoves`), a reply that agrees (`DaemonAgrees`) or refuses (`DaemonRefuses`,
where the shutdown makes the rest of the request unread), and the end of the
process (`EndOfTalks`). `TypeOK'` follows from `Inv` action by action
(`ServeTypes`, `HostTypes`). The theorems then read the property off `Inv`, or off
`Inv` and one step.

The assumptions used are those the modules declare: `NoClient` is no call and
`NoFile` no user, the bounds are natural numbers, the files from before are files
of the guest, and each request has a remote path that is a file, or a directory
that exists. The last leaves out a path that ends in a slash and names no
directory: SET_FILE_NAME looks at the slash only and appends the name, and the
open that follows fails.

**Deliveries and Orderly.** `Conversation` says that the file of a download is on its
way, and not which: the daemon reads it block by block. `Deliveries` says that what is
stored, then what is in the stream, then what `send_file` has left, are the blocks
of the file as it is now. This is inductive because the daemon writes no file while it
sends one, and because the size in the reply and `remains` come from the same fstat.
A step stores a block (`StoreDelivery`), sends one (`BlockDelivery`), announces the
size (`AnnounceDelivery`) or leaves the delivery alone (`SameDelivery`). `Orderly` is the
other strengthening: under `Reliable`, a connection that ends under its caller has
ended with a refusal (`EndsWithRefusal`), an upload that has returned left nothing
unread (`NothingLeft`), and a file being written has an owner.

**ServiceSteps.** `InitStep` maps the initial states. `NextStep` maps each step: the
daemon's (`ServeStep`) opens (`OpenStep`), commits (`CommitStep`) or tears
(`TearStep`) a file, or is nothing to the service (`QuietStep`); a call's
(`HostStepOfService`) returns FALSE, returns TRUE for an upload (`UploadStep`, from
`UploadStored` and `NothingLeft`: the daemon is not in `recv_file` for it) or for a
download (`DownloadStep`, from `Deliveries`), or is nothing. That a commit has the
whole content comes from `StoresSource`. `Reliable` is what the code needs for this, and
section 3 says for each of its conditions what happens without it; the theorem
allows `reset` and `accept`, which the run leaves out for its liveness only.

**TransferLoops.** `LoopsInv` ties the counters of each loop to the stream. For the
loop around TransmitFile, `unsent + offset = size` between and inside of calls, and
inside of one the pointer and what is left of the chunk make `offset + toWrite`; for
`send_file`, `unsent + pos = size`; `stored + missing = size` and `stored <= sent` for
either receiver. That a chunk survives its conversion to a DWORD (`ChunkLemma`) needs
that `TransmitLimit` is one, which the code's constant is. `TransmitFileReturns`
with a pointer left anywhere is why `InOrder` alone is not inductive.

**PathBuffer.** `PathInv` adds to the properties that the string in `path` is the
name that was asked for, and was written into it (`Written`). The comparison as a
size_t is arithmetic modulo `SizeMax`: `SmallSize` and `MinusOne` are its two cases.
`LengthDecides` is inductive with them, and needs no array to be intact: a path of
PATH_MAX bytes is accepted although its terminator goes behind the array.

**Framing.** `FramingInv` says where in the stream the daemon is at each of its three
reads: as long as both words came whole and the socket is not deaf, it is at the first
byte of a word of the request it counts (`Asking`, `Measuring`) or of its data
(`Handling`); otherwise nothing is left to read. So a wrong position and a further
byte never meet, which is what `shutdown` is for. The step that needs it is a
handler (`DoneKeeps`, `RefuseKeeps`): one that accepts has taken `Size` of its request,
and the next one begins there (`NextBegin`).

**EngineThread.** `ThreadInv` adds `UnderWay`: what a call holds is a function of the
place it is at (`Holding`), `errcode` is as before the call, and only a download goes
on after a failure. What a failing step gives back (`Unwound`, and the early returns of
GetVMID) is then just what it holds, step by step: `StepIs` and `Rows` say which step is
where and how it fails, `EndReleases` that the `__finally` blocks leave nothing.

**CommandLine.** For an argument that is not ambiguous, the way it was written is one
of its `Matches` (`MeantMatches`) and `Before` every other (`MeantBefore`): an `@` before
it would be in a name, a `:` before it too, and one further on makes the path
ambiguous or begins no match. `Before` is antisymmetric, so that it is what `Found`
chooses (`FoundMeant`), and its parts are those of the wish (`FoundParts`). A host path
has no match (`HostIsLocal`). `ExitInv` relates each part of `wmain` to what the parts
before it found, and the code to the result of the call (`CodeFits`). For `VersionInfo`,
`HelpInv` relates `data_len` and the blocks of either object.

Only model-checked, since liveness is out of the prover's reach: `CallsReturn`,
`SessionsEnd`, `LoopsEnd`, and of `ServiceKept` the part that is not in
`ServiceSteps`. What the four runs with a counterexample show is a matter of that
counterexample. Every other property of the runs is a theorem.

## 6. What is not modelled

* simdjson: vendored, and 180,000 of the repository's 181,000 lines. The engine
  sees one parse that succeeds, fails or throws. The Host Compute Service and
  Winsock, too, are external and modelled as the engine uses them. This is why
  the map covers a small share of all lines: of those of hvcp itself, it covers
  nearly all that do something.
* Build and packaging: `linux/Makefile`, `rpm/`, `versionup.ps1`, project files.
* Text conversions and logging; the group id, which the code treats as it treats
  the user id; permission bits of new files; the text of the HCS query.
* The combination of the finer modules with each other: a cut word in the middle
  of a path of PATH_MAX bytes, say. `HvcpSystem` has all requests, files and faults
  together, by tokens.
* An unlink or rename of a file during a transfer.
* The room behind the caller's local path, where the engine appends a name
  (hvcp-internal.cpp:311).

## 7. Plan

1. A service that knows crashes: `CopyService` with a writer that may be gone, so that
   the refinement holds without `MaxCrashes = 0` and without the exclusion of `kill`.
2. The refinement of the token model by the finer ones: a word of `Framing` or a block of
   `TransferLoops` against a token of `HvcpSystem`.
3. Shorter proofs where several lemmas repeat one argument for each handler.
