----------------------------- MODULE GuestServer ----------------------------
(***************************************************************************)
(* hvcp-server, the daemon of the Linux guest: server.cpp accepts one      *)
(* client at a time and runs HVCPCommandProc::command_loop on it; the      *)
(* handlers of command-proc.cpp are one action each, the two transfer      *)
(* loops one action per iteration.  The process is one thread: phase is    *)
(* where it is in the code.                                                *)
(*                                                                         *)
(*   "down"     no process                 "accept"  in accept             *)
(*   "command"  in the recv of a command   "length"  in the recv of len    *)
(*   a command  in the case of that command                                *)
(*   "recv"     in the loop of recv_file   "send"    in that of send_file  *)
(*   "close"    command_loop has returned                                  *)
(*                                                                         *)
(* A path is <<>> (the empty string), <<d>> for a directory (SET_REMOTE_   *)
(* PATH stores it with its '/') or <<d, n>> for the file n of directory d. *)
(***************************************************************************)
EXTENDS HvSocket

CONSTANTS
  Dirs,          \* directories a path may name
  ExistingDirs,  \* those of the guest's file system
  Names,         \* file names
  Accounts,      \* the user names getpwnam_r knows; a user is its own uid
  ServerUid,     \* the effective uid of the daemon
  StrayUid,      \* what an uninitialized struct passwd may hold as uid
  NoFile,        \* the owner of a path that names no file
  NoClient,      \* the client of a daemon that serves none
  Preexisting,   \* files of the guest before the first call
  OldSize,       \* their size in blocks
  DirSize,       \* st_size of a directory, in units of the stream
  MaxCrashes     \* bound on the times the daemon is killed from outside

FilePaths == Dirs \X Names
DirPaths  == {<<d>> : d \in Dirs}
Paths     == {<<>>} \cup DirPaths \cup FilePaths
Uids      == Accounts \cup {ServerUid, StrayUid}

ASSUME DirsAssumption    == ExistingDirs \subseteq Dirs
ASSUME PathsAssumption   == LongPaths \subseteq FilePaths
ASSUME FilesAssumption   == /\ Preexisting \subseteq FilePaths
                            /\ OldSize \in Nat
                            /\ DirSize \in Nat \ {0}
ASSUME NoneAssumption    == /\ NoFile \notin Uids
                            /\ NoClient \notin Calls
ASSUME CrashesAssumption == MaxCrashes \in Nat

VARIABLES
  phase, client,            \* the thread, and the connection it serves
  cmd, len,                 \* locals of command_loop
  path, target,             \* members of HVCPCommandProc
  remains, ofs,             \* locals of recv_file and send_file
  guestFile, guestOwner,    \* the guest's file system, shared by all calls
  crashes                   \* how often Crash happened, up to MaxCrashes

fileSystem == <<guestFile, guestOwner>>
loopVars   == <<remains, ofs>>
serverVars == <<phase, client, cmd, len, path, target, loopVars, fileSystem,
                crashes>>

Phases == {"down", "accept", "command", "length", "recv", "send", "close"}
            \cup HandledCommands

ServerInit ==
  /\ phase = "down" /\ client = NoClient
  /\ cmd = "SET_USER" /\ len = 0 /\ path = <<>> /\ target = ServerUid
  /\ remains = 0 /\ ofs = 0
  /\ guestFile  = [p \in FilePaths |->
                     IF p \in Preexisting THEN Blocks(p, OldSize) ELSE <<>>]
  /\ guestOwner = [p \in FilePaths |->
                     IF p \in Preexisting THEN ServerUid ELSE NoFile]
  /\ crashes = 0

-----------------------------------------------------------------------------
(* What the file system answers.                                           *)

IsDirectory(p) == \E d \in ExistingDirs : p = <<d>>

\* stat(dirname(p)) succeeds: "." for the empty path, "/" for a directory's.
ParentExists(p) == p \in FilePaths => p[1] \in ExistingDirs

MayCreate(p) == p \in FilePaths /\ p[1] \in ExistingDirs
MayRead(p)   == IsDirectory(p) \/ (p \in FilePaths /\ guestOwner[p] # NoFile)

\* getpwnam_r returns 0 and leaves pwd untouched when it finds no record, so
\* the uid read afterwards is whatever that memory holds.
UidsDaemon(user) == {ServerUid}   \* mutant
UidsOf(user) == IF user \in Accounts THEN {user} ELSE Uids

-----------------------------------------------------------------------------
(* The process ends: the kernel closes every connection it holds.          *)

ProcessEnds ==
  /\ phase' = "down" /\ client' = NoClient /\ backlog' = <<>>
  /\ guestEnd' = [c \in Calls |->
                    IF guestEnd[c] = "none" THEN "none" ELSE "closed"]
  /\ UNCHANGED toHost

\* The sends of a handler, its shutdown if any, and where the thread goes
\* next.  send's result is ignored; to a peer that is gone it is lost, or
\* raises SIGPIPE, for which no handler is installed.
Send(tokens, end, next) ==
  \/ /\ phase' = next
     /\ guestEnd' = [guestEnd EXCEPT ![client] = end]
     /\ toHost' = IF hostEnd[client] = "open"
                    THEN [toHost EXCEPT ![client] = @ \o tokens] ELSE toHost
     /\ UNCHANGED <<client, backlog>>
  \/ /\ hostEnd[client] = "closed" /\ "sigpipe" \in Faults
     /\ ProcessEnds

\* send_result at the end of a try block, and in its catch block: the latter
\* stops reading first, so that the rest of the request is never taken for a
\* command.
SendNothing             == Send(<<>>, "open", "command")          \* mutant
SendOk                  == Send(Reply("OK", 0), "open", "command")
SendErrorReading(error) == Send(Reply(error, 0), "open", "command") \* mutant
SendError(error)        == Send(Reply(error, 0), "deaf", "command")

-----------------------------------------------------------------------------
(* server.cpp                                                              *)

\* systemd starts the daemon (Restart=always), which listens.
Start ==
  /\ phase = "down"
  /\ phase' = "accept"
  /\ UNCHANGED <<client, cmd, len, path, target, loopVars, fileSystem,
                 crashes, socketVars>>

\* accept returns a client: HVCPCommandProc is constructed, which resets it.
Accept ==
  /\ phase = "accept" /\ backlog # <<>>
  /\ phase' = "command"
  /\ client' = Head(backlog)
  /\ backlog' = Tail(backlog)
  /\ guestEnd' = [guestEnd EXCEPT ![Head(backlog)] = "open"]
  /\ path' = <<>> /\ target' = ServerUid
  /\ UNCHANGED <<cmd, len, loopVars, fileSystem, crashes,
                 hostEnd, toGuest, toHost>>

\* accept returns -1: main returns 1.
AcceptFails ==
  /\ phase = "accept" /\ "accept" \in Faults
  /\ ProcessEnds
  /\ UNCHANGED <<cmd, len, path, target, loopVars, fileSystem, crashes,
                 hostEnd, toGuest>>

\* Mutant: the descriptor of the client is never closed.
CloseLeaks ==
  /\ phase = "close"
  /\ phase' = "accept" /\ client' = NoClient
  /\ UNCHANGED <<cmd, len, path, target, loopVars, fileSystem, crashes,
                 socketVars>>

\* command_loop has returned.
Close ==
  /\ phase = "close"
  /\ phase' = "accept" /\ client' = NoClient
  /\ guestEnd' = [guestEnd EXCEPT ![client] = "closed"]
  /\ UNCHANGED <<cmd, len, path, target, loopVars, fileSystem, crashes,
                 hostEnd, toGuest, toHost, backlog>>

\* The daemon is killed from outside (or the guest restarts).
Crash ==
  /\ phase # "down" /\ crashes < MaxCrashes
  /\ crashes' = crashes + 1
  /\ ProcessEnds
  /\ UNCHANGED <<cmd, len, path, target, loopVars, fileSystem,
                 hostEnd, toGuest>>

-----------------------------------------------------------------------------
(* HVCPCommandProc::command_loop                                           *)

RecvCommand ==
  /\ phase = "command"
  /\ \/ /\ guestEnd[client] = "open" /\ Arrived(client, 1)
        /\ cmd' = Value(Head(toGuest[client]))
        /\ Receive(client, 1)
        /\ phase' = "length"
     \/ /\ guestEnd[client] = "deaf" \/ Cut(client, 1)
        /\ phase' = "close"
        /\ UNCHANGED <<cmd, toGuest>>
  /\ UNCHANGED <<client, len, path, target, loopVars, fileSystem, crashes,
                 hostEnd, guestEnd, toHost, backlog>>

\* The length, and the switch: its default branch returns from the loop.
RecvLength ==
  /\ phase = "length"
  /\ \/ /\ Arrived(client, 1)
        /\ len' = Value(Head(toGuest[client]))
        /\ Receive(client, 1)
        /\ phase' = IF cmd \in HandledCommands THEN cmd ELSE "close"
     \/ /\ Cut(client, 1)
        /\ phase' = "close"
        /\ UNCHANGED <<len, toGuest>>
  /\ UNCHANGED <<client, cmd, path, target, loopVars, fileSystem, crashes,
                 hostEnd, guestEnd, toHost, backlog>>

-----------------------------------------------------------------------------
(* recv_string, and the three handlers that read a string                  *)

Received == IF len = 0 THEN <<>> ELSE Value(Head(toGuest[client]))

\* recv reports an error with -1, which recv_string takes for the data of a
\* length of -1: the name is then whatever the memory held.
FailsUnnoticed ==
  len = -1 /\ hostEnd[client] = "closed" /\ "reset" \in Faults

SetUser ==
  /\ phase = "SET_USER"
  /\ \/ /\ len = 0
        /\ target' = ServerUid
        /\ SendOk
        /\ UNCHANGED toGuest
     \/ /\ len # 0 /\ Arrived(client, len)
        /\ Receive(client, len)
        /\ \/ target' \in UidsOf(Received) /\ SendOk
           \/ /\ "passwd" \in Faults
              /\ SendError("UNKNOWN_USER")
              /\ UNCHANGED target
     \/ /\ FailsUnnoticed
        /\ target' \in Uids
        /\ SendOk
        /\ UNCHANGED toGuest
     \/ /\ len # 0 /\ Cut(client, len)
        /\ SendError("UNKNOWN_USER")
        /\ UNCHANGED <<target, toGuest>>
  /\ UNCHANGED <<cmd, len, path, loopVars, fileSystem, crashes, hostEnd>>

SetRemotePath ==
  /\ phase = "SET_REMOTE_PATH"
  /\ \/ /\ len > PathMax \/ Cut(client, len)
        /\ SendError("INVALID_PATH")
        /\ UNCHANGED <<path, toGuest>>
     \/ /\ len <= PathMax /\ Arrived(client, len)
        /\ Receive(client, len)
        /\ path' = Received
        /\ IF IsDirectory(Received) \/ ParentExists(Received)
             THEN SendOk ELSE SendError("INVALID_PATH")
  /\ UNCHANGED <<cmd, len, target, loopVars, fileSystem, crashes, hostEnd>>

\* The name is appended when path ends with '/', that is to a directory.
SetFileName ==
  /\ phase = "SET_FILE_NAME"
  /\ \/ /\ len > PathMax \/ Cut(client, len)
        /\ SendError("INVALID_PATH")
        /\ UNCHANGED <<path, toGuest>>
     \/ /\ len <= PathMax /\ Arrived(client, len)
        /\ Receive(client, len)
        /\ LET full == path \o <<Received>> IN
           \/ ~IsDirectory(path) /\ SendOk /\ UNCHANGED path
           \/ /\ IsDirectory(path) /\ full \notin LongPaths
              /\ path' = full
              /\ SendOk
           \/ /\ IsDirectory(path) /\ full \in LongPaths
              /\ SendError("INVALID_PATH")
              /\ UNCHANGED path
  /\ UNCHANGED <<cmd, len, target, loopVars, fileSystem, crashes, hostEnd>>

-----------------------------------------------------------------------------
(* COPY_FILE_TO_GUEST: recv_file                                           *)

\* What file p holds once open(p, O_WRONLY | O_CREAT | O_TRUNC) succeeded.
OpenedKept(p) == guestFile[p]   \* mutant: no O_TRUNC
Opened(p)     == <<>>

CopyFileToGuest ==
  /\ phase = "COPY_FILE_TO_GUEST"
  /\ \/ /\ MayCreate(path)
        /\ guestFile'  = [guestFile EXCEPT ![path] = Opened(path)]
        /\ guestOwner' = [guestOwner EXCEPT ![path] =
                            IF @ = NoFile THEN ServerUid ELSE @]
        /\ remains' = len
        /\ phase' = "recv"
        /\ UNCHANGED <<client, guestEnd, toHost, backlog>>
     \/ /\ ~MayCreate(path) \/ "open" \in Faults
        /\ SendError("FILETRANSFER_ERROR")
        /\ UNCHANGED <<remains, fileSystem>>
  /\ UNCHANGED <<cmd, len, path, target, ofs, crashes, hostEnd, toGuest>>

\* One iteration of the loop, which an empty file also makes.  A recv of 0
\* takes neither branch: remains is what it was, and the loop goes on.
RecvBlock ==
  /\ phase = "recv" /\ (remains > 0 \/ len = 0)
  /\ \/ /\ remains > 0 /\ Arrived(client, 1)
        /\ guestFile' = [guestFile EXCEPT ![path] =
                           Append(@, Head(toGuest[client]))]
        /\ remains' = remains - 1
        /\ Receive(client, 1)
        /\ UNCHANGED <<phase, client, guestEnd, toHost, backlog>>
     \/ /\ remains > 0 /\ Arrived(client, 1) /\ "diskfull" \in Faults
        /\ Receive(client, 1)
        /\ SendError("FILETRANSFER_ERROR")
        /\ UNCHANGED <<guestFile, remains>>
     \/ /\ hostEnd[client] = "closed" /\ "reset" \in Faults
        /\ SendError("FILETRANSFER_ERROR")
        /\ UNCHANGED <<guestFile, remains, toGuest>>
     \/ /\ remains > 0 /\ hostEnd[client] = "closed" /\ ~Arrived(client, 1)
        /\ UNCHANGED <<phase, client, guestEnd, toHost, backlog, guestFile,
                       remains, toGuest>>
  /\ UNCHANGED <<cmd, len, path, target, ofs, guestOwner, crashes, hostEnd>>

\* The loop is over: fchown, whose result is ignored, and the reply.
RecvDone ==
  /\ phase = "recv" /\ remains = 0
  /\ \/ guestOwner' = [guestOwner EXCEPT ![path] = target]
     \/ "chown" \in Faults /\ UNCHANGED guestOwner
  /\ SendOk
  /\ UNCHANGED <<cmd, len, path, target, loopVars, guestFile, crashes,
                 hostEnd, toGuest>>

-----------------------------------------------------------------------------
(* COPY_FILE_FROM_GUEST: send_file                                         *)

FileSizeLess(p) ==   \* mutant
  IF IsDirectory(p) THEN DirSize ELSE Len(guestFile[p]) - 1
FileSize(p) == IF IsDirectory(p) THEN DirSize ELSE Len(guestFile[p])

\* open(path, O_RDONLY), fstat64, and the reply that announces the size.
CopyFileFromGuest ==
  /\ phase = "COPY_FILE_FROM_GUEST"
  /\ \/ /\ MayRead(path)
        /\ remains' = FileSize(path) /\ ofs' = 0
        /\ Send(Reply("OK", FileSize(path)), "open", "send")
     \/ /\ ~MayRead(path) \/ "open" \in Faults
        /\ SendError("FILETRANSFER_ERROR")
        /\ UNCHANGED loopVars
  /\ UNCHANGED <<cmd, len, path, target, fileSystem, crashes, hostEnd,
                 toGuest>>

\* One iteration: sendfile64 sends from ofs, or fails.  It cannot read a
\* directory.  At the end of a file that is shorter than it was it returns 0,
\* and the loop goes on.
SendBlock ==
  /\ phase = "send" /\ remains > 0
  /\ \/ /\ ~IsDirectory(path) /\ ofs < Len(guestFile[path])
        /\ hostEnd[client] = "open"
        /\ Len(toHost[client]) < Window
        /\ toHost' = [toHost EXCEPT ![client] =
                        Append(@, guestFile[path][ofs + 1])]
        /\ ofs' = ofs + 1 /\ remains' = remains - 1
        /\ UNCHANGED <<phase, client, guestEnd, backlog>>
     \/ /\ \/ IsDirectory(path)
           \/ hostEnd[client] = "closed"
           \/ "readerror" \in Faults
        /\ SendError("FILETRANSFER_ERROR")
        /\ UNCHANGED loopVars
     \/ /\ ~IsDirectory(path) /\ ofs >= Len(guestFile[path])
        /\ UNCHANGED <<phase, client, guestEnd, toHost, backlog, loopVars>>
  /\ UNCHANGED <<cmd, len, path, target, fileSystem, crashes, hostEnd,
                 toGuest>>

SendDone ==
  /\ phase = "send" /\ remains = 0
  /\ phase' = "command"
  /\ UNCHANGED <<client, cmd, len, path, target, loopVars, fileSystem,
                 crashes, socketVars>>

\* Another process of the guest truncates a file nobody is writing.
Truncate(p) ==
  /\ "truncate" \in Faults
  /\ guestFile[p] # <<>>
  /\ ~(phase = "recv" /\ path = p)
  /\ guestFile' = [guestFile EXCEPT ![p] = <<>>]
  /\ UNCHANGED <<phase, client, cmd, len, path, target, loopVars, guestOwner,
                 crashes, socketVars>>

-----------------------------------------------------------------------------
\* A step of the daemon's thread, whatever it meets.
ServerStep ==
  \/ Accept \/ AcceptFails \/ Close
  \/ RecvCommand \/ RecvLength
  \/ SetUser \/ SetRemotePath \/ SetFileName
  \/ CopyFileToGuest \/ RecvBlock \/ RecvDone
  \/ CopyFileFromGuest \/ SendBlock \/ SendDone

BlockTokens == {"block"} \X ((Calls \cup FilePaths) \X Nat)

ServerTypeOK ==
  /\ phase \in Phases
  /\ client \in Calls \cup {NoClient}
  /\ cmd \in Commands
  /\ len \in Nat \cup {-1}
  /\ path \in Paths
  /\ target \in Uids
  /\ remains \in Nat /\ ofs \in Nat
  /\ guestFile \in [FilePaths -> Seq(BlockTokens)]
  /\ guestOwner \in [FilePaths -> Uids \cup {NoFile}]
  /\ crashes \in 0..MaxCrashes
=============================================================================
