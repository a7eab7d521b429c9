----------------------------- MODULE HvcpService ----------------------------
(***************************************************************************)
(* HvcpSystem implements CopyService: the refinement mapping.  An upload   *)
(* holds its file in flux while the daemon is in recv_file, and takes      *)
(* effect with fchown; a download takes effect when it returns.            *)
(***************************************************************************)
EXTENDS HvcpDelivery

CONSTANT InFlux   \* stands for the content and the owner of a file in flux

ASSUME FluxAssumption == InFlux \notin Seq(BlockTokens) \cup Uids \cup {NoFile}

\* What request r asks for when call c makes it.
JobOf(c, r) ==
  [op      |-> r.op,
   path    |-> IF IsDirectory(r.rpath) THEN Append(r.rpath, r.name)
                                       ELSE r.rpath,
   content |-> Blocks(c, r.size),
   owners  |-> IF r.user = EmptyUser THEN {ServerUid}
               ELSE IF r.user \in Accounts THEN {r.user} ELSE Uids]

Writing(p) == phase = "recv" /\ path = p

ServiceJob       == [c \in Calls |-> JobOf(c, req[c])]
ServiceFile      == [p \in FilePaths |->
                       IF Writing(p) THEN InFlux ELSE guestFile[p]]
ServiceOwner     == [p \in FilePaths |->
                       IF Writing(p) THEN InFlux ELSE guestOwner[p]]
ServiceWriter    == IF phase = "recv" THEN client ELSE NoClient
ServiceDelivered == [c \in Calls |-> IF ret[c] = "TRUE" /\ ~Upload(c)
                                       THEN hostFile[c] ELSE <<>>]

Service == INSTANCE CopyService WITH
  Files  <- FilePaths,
  Owners <- Uids,
  Jobs   <- {JobOf(c, r) : c \in Calls, r \in Requests},
  Nobody <- NoClient,
  job    <- ServiceJob,
  file   <- ServiceFile,
  owner  <- ServiceOwner,
  writer <- ServiceWriter,
  delivered <- ServiceDelivered,
  outcome   <- ret

-----------------------------------------------------------------------------
\* Nothing happens that the service has no word for: the daemon lives, callers
\* are not killed, the engine can read its sources and the daemon the files
\* it sends, fchown works, nobody else changes files, and no directory is
\* downloaded.
Reliable ==
  /\ MaxCrashes = 0
  /\ Faults \cap {"kill", "hostread", "readerror", "chown", "truncate"} = {}
  /\ \A r \in Requests : r.op = "download" => ~IsDirectory(r.rpath)

\* Every step of the two programs is a step of CopyService or none: uploads
\* take effect one at a time and as a whole, whatever they overlap with; a
\* call that returns leaves nothing in flux behind (recv_file); TRUE from
\* CopyFileFromGuest delivers the file as it is, never a piece of one.
ServiceSteps == Service!Steps

\* The two programs keep all of the promise of CopyService: besides, an upload
\* that opened its file gets done with it (recv_file), and every call returns.
ServiceKept == Service!Spec
=============================================================================
