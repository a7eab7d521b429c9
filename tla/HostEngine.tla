----------------------------- MODULE HostEngine -----------------------------
(***************************************************************************)
(* hvcp.dll, the engine on the Hyper-V host: CopyFileToGuest and           *)
(* CopyFileFromGuest of dllmain.cpp over the functions of                  *)
(* hvcp-internal.cpp.  Each call runs on a thread of its caller with a     *)
(* socket of its own; pc[c] is where call c is.                            *)
(*                                                                         *)
(*   upload    connect user user? path path? name name? source data data?  *)
(*   download  connect path path? dest file? data                          *)
(*                                                                         *)
(* A state whose name ends in ? waits for a reply.  RaiseException inside  *)
(* the __try of a function runs the __finally blocks, then its __except    *)
(* handler records the code in errcode, and the API function disconnects   *)
(* and returns FALSE: that whole unwinding is Fail.                        *)
(***************************************************************************)
EXTENDS HvSocket

CONSTANTS
  Requests,    \* the arguments the callers may pass
  EmptyUser,   \* UserName is the empty string: what the CLI passes by default
  NullUser     \* UserName is nullptr

VARIABLES
  req,         \* the arguments of each call, chosen once
  pc,
  ret,         \* "none" until it returned TRUE or FALSE, or was "killed"
  errcode,     \* the thread's errcode; Stale until the call assigns it
  left,        \* remains of the upload, remaining of the download
  dest,        \* the destination handle: "none", "valid", "invalid", "closed"
  hostFile     \* the local file a download writes

hostVars == <<req, pc, ret, errcode, left, dest, hostFile>>

\* What errcode holds from an earlier call on the thread, or zero.
Stale == "stale"

\* What the destination of a download holds before the call.
OldLocal(c) == Blocks(c, 1)

HostInit ==
  /\ req \in [Calls -> Requests]
  /\ pc       = [c \in Calls |-> "connect"]
  /\ ret      = [c \in Calls |-> "none"]
  /\ errcode  = [c \in Calls |-> Stale]
  /\ left     = [c \in Calls |-> 0]
  /\ dest     = [c \in Calls |-> "none"]
  /\ hostFile = [c \in Calls |-> OldLocal(c)]

Upload(c) == req[c].op = "upload"

\* The content of the local file an upload sends.
Source(c) == Blocks(c, req[c].size)

-----------------------------------------------------------------------------
(* Return to the caller, after Disconnect.                                 *)

Return(c, result, code) ==
  /\ ret'     = [ret EXCEPT ![c] = result]
  /\ errcode' = [errcode EXCEPT ![c] = code]
  /\ pc'      = [pc EXCEPT ![c] = "returned"]
  /\ hostEnd' = [hostEnd EXCEPT ![c] = IF @ = "none" THEN @ ELSE "closed"]
  /\ dest'    = [dest EXCEPT ![c] = IF @ = "valid" THEN "closed" ELSE @]

\* Mutant: GetExceptionCode is not recorded.
FailSilently(c, code) == Return(c, "FALSE", errcode[c])

\* A call whose destination could not be created raises that from its
\* __finally, over whatever else it raised.
Fail(c, code) ==
  Return(c, "FALSE",
         IF dest[c] = "invalid" THEN "ERR_COPY_FILE_FROM_GUEST_DEST_CREATE"
                                ELSE code)

Succeed(c) ==
  IF dest[c] = "invalid" THEN Fail(c, Stale) ELSE Return(c, "TRUE", errcode[c])

Goto(c, next) ==
  /\ pc' = [pc EXCEPT ![c] = next]
  /\ UNCHANGED <<ret, errcode, hostEnd>>

-----------------------------------------------------------------------------
(* ConnectToGuest                                                          *)

\* WSAStartup and socket; the four failures GetVMID reports; a query for
\* which HcsCreateOperation returned nothing, where GetVMID leaves errcode
\* alone; and a virtual machine the answer does not have, where simdjson
\* throws and __except records the code of a C++ exception.
ConnectErrors ==
  (IF "winsock" \in Faults
     THEN {"ERR_CONNECT_WSA_STARTUP", "ERR_CONNECT_SOCKET"} ELSE {})
  \cup
  (IF "vmlookup" \in Faults
     THEN {"ERR_GETVMID_ENUM_SYSTEMS", "ERR_GETVMID_HCS_RESULT",
           "ERR_GETVMID_JSON_PARSE", "ERR_GETVMID_CLSID",
           Stale, "C++ exception"} ELSE {})

\* The kernel of the guest queues the connection if the daemon listens and
\* its backlog has room; listening says that it does.
Connect(c, listening) ==
  /\ pc[c] = "connect"
  /\ \/ /\ \E code \in ConnectErrors : Fail(c, code)
        /\ UNCHANGED <<guestEnd, backlog>>
     \/ /\ ~listening \/ Len(backlog) > Backlog \/ "winsock" \in Faults
        /\ Fail(c, "ERR_CONNECT_CONNECT")
        /\ UNCHANGED <<guestEnd, backlog>>
     \/ /\ listening /\ Len(backlog) <= Backlog
        /\ pc' = [pc EXCEPT ![c] = IF Upload(c) THEN "user" ELSE "path"]
        /\ hostEnd'  = [hostEnd EXCEPT ![c] = "open"]
        /\ guestEnd' = [guestEnd EXCEPT ![c] = "queued"]
        /\ backlog'  = Append(backlog, c)
        /\ UNCHANGED <<ret, errcode, dest>>
  /\ UNCHANGED <<req, left, hostFile, toGuest, toHost>>

-----------------------------------------------------------------------------
(* SendData and GetCommandResult                                           *)

\* Send tokens and go on, or find that the guest's end is closed.
SendData(c, tokens, next, code) ==
  \/ /\ toGuest' = Sent(c, tokens)
     /\ Goto(c, next)
     /\ UNCHANGED dest
  \/ /\ SendMayFail(c)
     /\ Fail(c, code)
     /\ UNCHANGED toGuest

\* Take the two words of a reply, or fail to.
GetCommandResult(c) ==
  /\ Len(toHost[c]) >= 2
  /\ toHost' = [toHost EXCEPT ![c] = SubSeq(@, 3, Len(@))]

ReplyResult(c) == Value(toHost[c][1])
ReplyLength(c) == Value(toHost[c][2])

\* Mutant: a recv of 0 is not noticed.
NoCommandResultBlind(c) ==
  HostRecvFails(c) /\ Fail(c, "ERR_GET_CMD_RESULT") /\ UNCHANGED toHost

NoCommandResult(c) ==
  /\ \/ HostEndOfStream(c, 2) /\ Fail(c, "ERR_GET_CMD_RESULT_INSUFFICIENT_DATA")
     \/ HostRecvFails(c) /\ Fail(c, "ERR_GET_CMD_RESULT")
  /\ UNCHANGED toHost

\* Wait for the reply to a request: go on if it is OK, fail with code if not.
AwaitReply(c, next, code) ==
  \/ /\ GetCommandResult(c)
     /\ IF ReplyResult(c) = "OK" THEN Goto(c, next) /\ UNCHANGED dest
                                 ELSE Fail(c, code)
  \/ NoCommandResult(c)

-----------------------------------------------------------------------------
(* SetUserName                                                             *)

\* The length sent is one less than the length with the terminator, which is
\* taken as 0 for nullptr.
UserLength(user) ==
  (IF user = NullUser THEN 0 ELSE IF user = EmptyUser THEN 1 ELSE 2) - 1

SendUser(c) ==
  /\ pc[c] = "user"
  /\ LET user == req[c].user IN
     SendData(c, Header("SET_USER", UserLength(user))
                   \o Units(user, UserLength(user)), "user?", "ERR_SEND_DATA")
  /\ UNCHANGED <<req, left, hostFile, guestEnd, toHost, backlog>>

\* A refusal is no exception: the function returns false, errcode stays.
AwaitUser(c) ==
  /\ pc[c] = "user?"
  /\ AwaitReply(c, "path", errcode[c])
  /\ UNCHANGED <<req, left, hostFile, guestEnd, toGuest, backlog>>

-----------------------------------------------------------------------------
(* The remote path: CopyFileToGuestInternal and CopyFileFromGuestInternal  *)

SendPath(c) ==
  /\ pc[c] = "path"
  /\ LET p == req[c].rpath IN
     SendData(c, Header("SET_REMOTE_PATH", PathUnits(p)) \o Units(p, PathUnits(p)),
              "path?", "ERR_SEND_DATA")
  /\ UNCHANGED <<req, left, hostFile, guestEnd, toHost, backlog>>

AwaitPath(c) ==
  /\ pc[c] = "path?"
  /\ AwaitReply(c, IF Upload(c) THEN "name" ELSE "dest",
                "ERR_INALID_REMOETE_PATH")
  /\ UNCHANGED <<req, left, hostFile, guestEnd, toGuest, backlog>>

-----------------------------------------------------------------------------
(* The rest of CopyFileToGuestInternal                                     *)

SendName(c) ==
  /\ pc[c] = "name"
  /\ SendData(c, Header("SET_FILE_NAME", 1) \o Units(req[c].name, 1),
              "name?", "ERR_SEND_DATA")
  /\ UNCHANGED <<req, left, hostFile, guestEnd, toHost, backlog>>

AwaitName(c) ==
  /\ pc[c] = "name?"
  /\ AwaitReply(c, "source", "ERR_COPY_FILE_TO_GUEST")
  /\ UNCHANGED <<req, left, hostFile, guestEnd, toGuest, backlog>>

\* Mutant: the request is sent before the source is opened.
OpenSourceLate(c) ==
  /\ pc[c] = "source"
  /\ \/ /\ SendData(c, Header("COPY_FILE_TO_GUEST", req[c].size),
                    "data", "ERR_COPY_FILE_TO_GUEST")
        /\ left' = [left EXCEPT ![c] = req[c].size]
     \/ /\ "hostio" \in Faults
        /\ toGuest' = Sent(c, Header("COPY_FILE_TO_GUEST", req[c].size))
        /\ Fail(c, "ERR_COPY_FILE_TO_GUEST_SRC_OPEN")
        /\ UNCHANGED left
  /\ UNCHANGED <<req, hostFile, guestEnd, toHost, backlog>>

\* CreateFile on the source, with no sharing: the file cannot change until
\* the call returns.  Then the command and the size.
OpenSource(c) ==
  /\ pc[c] = "source"
  /\ \/ /\ SendData(c, Header("COPY_FILE_TO_GUEST", req[c].size),
                    "data", "ERR_COPY_FILE_TO_GUEST")
        /\ left' = [left EXCEPT ![c] = req[c].size]
     \/ /\ "hostio" \in Faults
        /\ Fail(c, "ERR_COPY_FILE_TO_GUEST_SRC_OPEN")
        /\ UNCHANGED <<left, toGuest>>
  /\ UNCHANGED <<req, hostFile, guestEnd, toHost, backlog>>

\* TransmitFile, one block at a time: it blocks while the stream is full, and
\* fails if it cannot send or cannot read the source.  It is called once for
\* an empty file too: that call sends nothing, but may fail.
TransmitBlock(c) ==
  /\ pc[c] = "data" /\ Upload(c)
  /\ \/ /\ left[c] > 0
        /\ SendMayFail(c) \/ Len(toGuest[c]) < Window
        /\ SendData(c, <<Block(c, req[c].size - left[c] + 1)>>, "data",
                    "ERR_COPY_FILE_TO_GUEST")
        /\ left' = [left EXCEPT ![c] = @ - 1]
     \/ /\ left[c] > 0 \/ req[c].size = 0
        /\ "hostread" \in Faults \/ SendMayFail(c)
        /\ Fail(c, "ERR_COPY_FILE_TO_GUEST")
        /\ UNCHANGED <<left, toGuest>>
  /\ UNCHANGED <<req, hostFile, guestEnd, toHost, backlog>>

AwaitCopy(c) ==
  /\ pc[c] = "data" /\ Upload(c) /\ left[c] = 0
  /\ \/ /\ GetCommandResult(c)
        /\ IF ReplyResult(c) = "OK"
             THEN Succeed(c)
             ELSE Fail(c, "ERR_COPY_FILE_TO_GUEST_SEND_FILE")
     \/ NoCommandResult(c)
  /\ UNCHANGED <<req, left, hostFile, guestEnd, toGuest, backlog>>

-----------------------------------------------------------------------------
(* The rest of CopyFileFromGuestInternal                                   *)

\* What the destination holds once CreateFile(CREATE_ALWAYS) succeeded.
CreatedKept(c) == hostFile[c]   \* mutant: OPEN_ALWAYS
Created(c)     == <<>>

\* The request is sent whether or not CreateFile succeeded.
OpenDest(c) ==
  /\ pc[c] = "dest"
  /\ \/ /\ dest' = [dest EXCEPT ![c] = "valid"]
        /\ hostFile' = [hostFile EXCEPT ![c] = Created(c)]
     \/ /\ "hostio" \in Faults
        /\ dest' = [dest EXCEPT ![c] = "invalid"]
        /\ UNCHANGED hostFile
  /\ Goto(c, "file")
  /\ UNCHANGED <<req, left, guestEnd, toGuest, toHost, backlog>>

SendGet(c) ==
  /\ pc[c] = "file"
  /\ SendData(c, Header("COPY_FILE_FROM_GUEST", 0), "file?", "ERR_SEND_DATA")
  /\ UNCHANGED <<req, left, hostFile, guestEnd, toHost, backlog>>

AwaitFile(c) ==
  /\ pc[c] = "file?"
  /\ AwaitReply(c, "data", "ERR_COPY_FILE_FROM_GUEST")
  /\ left' = [left EXCEPT ![c] = IF pc'[c] = "data" THEN ReplyLength(c) ELSE @]
  /\ UNCHANGED <<req, hostFile, guestEnd, toGuest, backlog>>

\* One iteration of the loop: the block is written if there is a file to
\* write it to; a recv of 0 breaks out of the loop.
ReceiveBlock(c) ==
  /\ pc[c] = "data" /\ ~Upload(c) /\ left[c] > 0
  /\ \/ /\ toHost[c] # <<>>
        /\ toHost' = [toHost EXCEPT ![c] = Tail(@)]
        /\ \/ /\ hostFile' = IF dest[c] = "valid"
                               THEN [hostFile EXCEPT ![c] = Append(@, Head(toHost[c]))]
                               ELSE hostFile
              /\ left' = [left EXCEPT ![c] = @ - 1]
              /\ Goto(c, "data") /\ UNCHANGED dest
           \/ /\ dest[c] = "valid" /\ "hostio" \in Faults
              /\ Fail(c, "ERR_COPY_FILE_FROM_GUEST_WRITE_FILE")
              /\ UNCHANGED <<hostFile, left>>
     \/ /\ HostEndOfStream(c, 1)
        /\ Succeed(c)
        /\ UNCHANGED <<hostFile, left, toHost>>
     \/ /\ HostRecvFails(c)
        /\ Fail(c, "ERR_COPY_FILE_FROM_GUEST")
        /\ UNCHANGED <<hostFile, left, toHost>>
  /\ UNCHANGED <<req, guestEnd, toGuest, backlog>>

ReceiveDone(c) ==
  /\ pc[c] = "data" /\ ~Upload(c) /\ left[c] = 0
  /\ Succeed(c)
  /\ UNCHANGED <<req, left, hostFile, guestEnd, toGuest, toHost, backlog>>

-----------------------------------------------------------------------------
(* The process of the caller is killed in the middle of a call: the kernel *)
(* closes the socket, and the last bytes sent may never leave the host.    *)

Kill(c) ==
  /\ "kill" \in Faults /\ hostEnd[c] = "open"
  /\ Return(c, "killed", errcode[c])
  /\ \E n \in 0..Len(toGuest[c]) :
       toGuest' = [toGuest EXCEPT ![c] = SubSeq(@, 1, n)]
  /\ UNCHANGED <<req, left, hostFile, guestEnd, toHost, backlog>>

-----------------------------------------------------------------------------
\* A step of the thread of call c, whatever it meets.
HostStep(c, listening) ==
  \/ Connect(c, listening)
  \/ SendUser(c) \/ AwaitUser(c)
  \/ SendPath(c) \/ AwaitPath(c)
  \/ SendName(c) \/ AwaitName(c)
  \/ OpenSource(c) \/ TransmitBlock(c) \/ AwaitCopy(c)
  \/ OpenDest(c) \/ SendGet(c) \/ AwaitFile(c)
  \/ ReceiveBlock(c) \/ ReceiveDone(c)

ErrorCodes ==
  {Stale, "C++ exception",
   "ERR_GETVMID_ENUM_SYSTEMS", "ERR_GETVMID_HCS_RESULT",
   "ERR_GETVMID_JSON_PARSE", "ERR_GETVMID_CLSID",
   "ERR_CONNECT_WSA_STARTUP", "ERR_CONNECT_SOCKET", "ERR_CONNECT_CONNECT",
   "ERR_SEND_DATA", "ERR_INALID_REMOETE_PATH",
   "ERR_COPY_FILE_TO_GUEST_SRC_OPEN", "ERR_COPY_FILE_TO_GUEST",
   "ERR_COPY_FILE_TO_GUEST_SEND_FILE",
   "ERR_COPY_FILE_FROM_GUEST_DEST_CREATE", "ERR_COPY_FILE_FROM_GUEST",
   "ERR_COPY_FILE_FROM_GUEST_WRITE_FILE",
   "ERR_GET_CMD_RESULT", "ERR_GET_CMD_RESULT_INSUFFICIENT_DATA"}

HostStates == {"connect", "user", "user?", "path", "path?", "name", "name?",
               "source", "dest", "file", "file?", "data", "returned"}

HostTypeOK ==
  /\ req \in [Calls -> Requests]
  /\ pc \in [Calls -> HostStates]
  /\ ret \in [Calls -> {"none", "TRUE", "FALSE", "killed"}]
  /\ errcode \in [Calls -> ErrorCodes]
  /\ left \in [Calls -> Nat]
  /\ dest \in [Calls -> {"none", "valid", "invalid", "closed"}]
=============================================================================
