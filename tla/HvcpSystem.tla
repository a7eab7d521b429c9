----------------------------- MODULE HvcpSystem -----------------------------
(***************************************************************************)
(* The whole of hvcp: any number of calls of the engine on the host, each  *)
(* with its own thread and connection, and the one daemon of the guest.    *)
(* They share the connections and nothing else; every step is a step of    *)
(* one of them.                                                            *)
(***************************************************************************)
EXTENDS GuestServer, HostEngine

\* An upload names a local file of some size; its remote path, and that of a
\* download, is a file, or a directory that exists.
ASSUME RequestsAssumption ==
  \A r \in Requests : /\ r.op \in {"upload", "download"}
                      /\ r.rpath \in FilePaths
                           \cup {p \in DirPaths : IsDirectory(p)}
                      /\ r.name \in Names
                      /\ r.size \in Nat

vars == <<socketVars, serverVars, hostVars>>

Init == SocketInit /\ ServerInit /\ HostInit

\* The daemon listens from the moment it runs.
Listening == phase # "down"

Serve   == ServerStep /\ UNCHANGED hostVars
Restart == Start /\ UNCHANGED hostVars
Host(c) == HostStep(c, Listening) /\ UNCHANGED serverVars

\* What happens to the two programs from outside.
Environment ==
  \/ Crash /\ UNCHANGED hostVars
  \/ \E p \in FilePaths : Truncate(p) /\ UNCHANGED hostVars
  \/ \E c \in Calls : Kill(c) /\ UNCHANGED serverVars

\* Every call has returned and the daemon waits for the next one.
Quiet ==
  /\ \A c \in Calls : pc[c] = "returned"
  /\ phase = "accept" /\ backlog = <<>>
  /\ UNCHANGED vars

Next ==
  \/ Serve \/ Restart
  \/ \E c \in Calls : Host(c)
  \/ Environment
  \/ Quiet

\* The threads of both programs run, and systemd restarts the daemon
\* (Restart=always); nothing from outside has to happen.
Fairness ==
  /\ WF_vars(Serve) /\ WF_vars(Restart)
  /\ \A c \in Calls : WF_vars(Host(c))

Spec == Init /\ [][Next]_vars /\ Fairness

-----------------------------------------------------------------------------
(* Where a request is meant to go.                                         *)

\* A file sent to a directory keeps its name.
Dest(c) ==
  IF IsDirectory(req[c].rpath) THEN Append(req[c].rpath, req[c].name)
                               ELSE req[c].rpath

KnownUser(c) == req[c].user \in Accounts \cup {EmptyUser}
WantedUid(c) == IF req[c].user = EmptyUser THEN ServerUid ELSE req[c].user

Returns(c, result) == ret[c] = "none" /\ ret'[c] = result

-----------------------------------------------------------------------------
(* Type invariant.                                                         *)

\* What the streams carry.
Strings == {r.user : r \in Requests} \cup Paths \cup Names

Tokens ==
  ({"command"} \X Commands) \cup ({"length"} \X (Nat \cup {-1}))
    \cup ({"text"} \X Strings) \cup ({"result"} \X Results) \cup BlockTokens

StreamsTypeOK ==
  /\ toGuest \in [Calls -> Seq(Tokens)] /\ toHost \in [Calls -> Seq(Tokens)]
  /\ hostFile \in [Calls -> Seq(Tokens)]

\* Every variable of the sockets, the daemon and the engine holds a value of
\* its type: in particular what the daemon takes for a command and a length
\* off the stream (command_loop) and the engine for the size of a file
\* (GetCommandResult) is one.
TypeOK == SocketTypeOK /\ StreamsTypeOK /\ ServerTypeOK /\ HostTypeOK

-----------------------------------------------------------------------------
(* Safety.                                                                 *)

\* The daemon serves one client at a time (accept_client): whatever dies and
\* whenever it is restarted, a connection that is not closed is the client's
\* or waits in the backlog, once; the backlog never exceeds what listen
\* allows; and nobody waits in the backlog of a process that is gone.
OneSession ==
  /\ \A c \in Calls : guestEnd[c] \in {"open", "deaf"} <=> client = c
  /\ \A c \in Calls :
       guestEnd[c] = "queued" <=> \E i \in 1..Len(backlog) : backlog[i] = c
  /\ \A i, j \in 1..Len(backlog) : backlog[i] = backlog[j] => i = j
  /\ Len(backlog) <= Backlog + 1
  /\ phase = "down" => backlog = <<>>
  /\ client = NoClient <=> phase \in {"down", "accept"}

\* Neither program ever takes the bytes it reads for something else than the
\* other one meant, whichever request failed on which side: the daemon finds
\* a command where command_loop reads a command, a length after it, the
\* string or the file after that, and the engine finds a reply where
\* GetCommandResult reads one.
NextIs(stream, kind) == stream # <<>> => Kind(Head(stream)) = kind

Aligned ==
  /\ client # NoClient /\ guestEnd[client] = "open" =>
       /\ phase = "command" => NextIs(toGuest[client], "command")
       /\ phase = "length"  => NextIs(toGuest[client], "length")
       /\ phase \in {"SET_USER", "SET_REMOTE_PATH", "SET_FILE_NAME"} /\ len # 0
            => NextIs(toGuest[client], "text")
       /\ phase = "recv" /\ remains > 0 => NextIs(toGuest[client], "block")
  /\ \A c \in Calls :
       pc[c] \in {"user?", "path?", "name?", "file?"}
         \/ (pc[c] = "data" /\ Upload(c) /\ left[c] = 0)
       => NextIs(toHost[c], "result")

\* recv_file never stores anything but the next block of its own client's
\* file: while it runs, the file it writes is the one the call asked for, and
\* what is stored and what is missing add up to what the client sends.
StoresSource ==
  phase = "recv" =>
    /\ path = Dest(client) /\ Upload(client)
    /\ guestFile[path] = SubSeq(Source(client), 1, req[client].size - remains)

\* A file of the guest changes its content or its owner only under an upload
\* to that path, one that has come to send its data or has returned since
\* (CopyFileToGuestInternal); a call whose source could not be opened leaves
\* the guest as it was.
WritesOwnFile ==
  \A p \in FilePaths :
    guestFile'[p] # guestFile[p] \/ guestOwner'[p] # guestOwner[p] =>
      /\ client # NoClient /\ Upload(client) /\ Dest(client) = p
      /\ pc[client] \in {"data", "returned"}
      /\ errcode[client] # "ERR_COPY_FILE_TO_GUEST_SRC_OPEN"

OnlyOwnFileWritten == [][WritesOwnFile]_vars

\* When CopyFileToGuest returns TRUE while its session is still on, the guest
\* holds the whole source at the path that was asked for, and it belongs to
\* the user that was named.
ReturnsStored ==
  \A c \in Calls :
    Returns(c, "TRUE") /\ Upload(c) /\ guestEnd[c] = "open" =>
      /\ guestFile[Dest(c)] = Source(c)
      /\ KnownUser(c) => guestOwner[Dest(c)] = WantedUid(c)

UploadStored == [][ReturnsStored]_vars

\* When CopyFileFromGuest returns TRUE while its session is still on, the
\* local file is the file of the guest as it is now, and nothing of what the
\* local file held before.
DownloadFaithful ==
  [][\A c \in Calls :
       Returns(c, "TRUE") /\ ~Upload(c) /\ guestEnd[c] = "open" =>
         hostFile'[c] = guestFile[req[c].rpath]]_vars

\* What the engine is about to store of a download is the file and no reply:
\* the daemon answers a request once, in send_file if that succeeded and in
\* command_loop if it failed.
DataIsData ==
  \A c \in Calls : pc[c] = "data" /\ ~Upload(c) =>
    \A i \in DOMAIN toHost[c] : Kind(toHost[c][i]) = "block"

\* A call that returns FALSE has set the code GetHVCPLastError returns.
FailureHasCode ==
  [][\A c \in Calls : Returns(c, "FALSE") => errcode'[c] # Stale]_vars

\* The upload of a user the guest does not know is refused.
UnknownUserRefused ==
  [][\A c \in Calls : Returns(c, "TRUE") /\ Upload(c) => KnownUser(c)]_vars

-----------------------------------------------------------------------------
(* Liveness.                                                               *)

\* sendfile64 is at the end of a file that was truncated after its size was
\* announced: it returns 0 for ever.
Starved ==
  /\ phase = "send" /\ remains > 0 /\ ~IsDirectory(path)
  /\ ofs >= FileSize(path)

\* No call waits for ever: not for a reply, for room in the stream, or behind
\* the session of another call, unless the daemon goes round in send_file for
\* ever; then all of them may.
CallsReturn == \A c \in Calls : <>(pc[c] = "returned" \/ []Starved)

\* The daemon gets done with every client that is gone, and so comes to
\* accept the next one.
SessionsEnd == \A c \in Calls : hostEnd[c] = "closed" ~> guestEnd[c] = "closed"
=============================================================================
