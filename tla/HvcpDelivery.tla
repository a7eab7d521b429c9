---------------------------- MODULE HvcpDelivery ----------------------------
(***************************************************************************)
(* What Conversation leaves open: which version of the file the blocks of  *)
(* a download come from, and how a session ends that nothing from outside  *)
(* disturbs.  Nothing here models code; these are the inductive invariants *)
(* behind DownloadFaithful, FailureHasCode and the refinement.             *)
(***************************************************************************)
EXTENDS HvcpConversation

(* Downloads.                                                              *)

\* The daemon has announced the size of the file, and the engine, which may
\* not know it yet, waits for blocks.
UnderWay(c) ==
  /\ hostEnd[c] = "open" /\ guestEnd[c] = "open" /\ ~Upload(c)
  /\ pc[c] = "data" \/ (pc[c] = "file?" /\ toHost[c] # <<>>)

\* How many blocks the daemon has still to send, how many words stand before
\* the blocks in the stream, and how many blocks the engine has received.
Unsent        == IF phase = "send" THEN remains ELSE 0
ReplyWords(c) == IF pc[c] = "file?" THEN 2 ELSE 0
Due(c)        == IF pc[c] = "file?" THEN FileSize(req[c].rpath) ELSE left[c]
Got(c)        == FileSize(req[c].rpath) - Due(c)

\* What is stored, what is under way and what is missing are, in this order,
\* the blocks of the file.
Divided(c) ==
  LET p == req[c].rpath IN
  /\ Len(toHost[c]) - ReplyWords(c) + Unsent = Due(c)
  /\ \A i \in 1..Len(toHost[c]) - ReplyWords(c) :
       toHost[c][i + ReplyWords(c)] = guestFile[p][i + Got(c)]
  /\ dest[c] = "valid" =>
       /\ Len(hostFile[c]) = Got(c)
       /\ \A i \in 1..Len(hostFile[c]) : hostFile[c][i] = guestFile[p][i]

Download(c) ==
  /\ pc[c] \in {"file", "file?", "data"} /\ ~Upload(c) =>
       dest[c] \in {"valid", "invalid"}
  /\ pc[c] = "data" /\ ~Upload(c) => guestEnd[c] # "queued"
  /\ pc[c] \in {"file", "file?"} /\ dest[c] = "valid" => hostFile[c] = <<>>
  /\ UnderWay(c) =>
       LET p == req[c].rpath IN
       /\ phase \in {"send", "command"} /\ toGuest[c] = <<>>
       /\ phase = "send" => path = p /\ ofs + remains = FileSize(p)
       /\ IsDirectory(p) => Unsent = DirSize
       /\ pc[c] = "file?" => ReplyLength(c) = FileSize(p)
       /\ Divided(c)

\* While a file of the guest is sent (send_file), it is the file that was
\* asked for, the engine was told its size, and what the engine has stored
\* and what the stream holds is the beginning of the version it has now.
Deliveries == \A c \in Calls : Download(c)

-----------------------------------------------------------------------------
(* Replies and ends.                                                       *)

\* Until a call is refused it sees no reply but OK to its user name.
Welcome == \A c \in Calls : \A r \in Results :
  pc[c] = "user?" /\ toHost[c] = Reply(r, 0) => r = "OK"

\* Only a refusal, or the end of the daemon before it read anything, ends a
\* session the engine is still in; and no file is sent in it by then.
EndsWithRefusal(c) ==
  hostEnd[c] = "open" =>
    /\ guestEnd[c] \in {"deaf", "closed"} =>
         /\ pc[c] = "data" => Upload(c)
         /\ toHost[c] # <<>> => \E r \in Results \ {"OK"} : toHost[c] = Reply(r, 0)
    /\ client = c /\ phase = "close" => guestEnd[c] = "deaf"

\* An upload returns when the daemon is done with all it was sent.
NothingLeft(c) ==
  hostEnd[c] # "open" /\ Upload(c) /\ Reading(c) =>
    client = c /\ phase = "command" /\ toGuest[c] = <<>>

\* The file an upload writes, or has written, has an owner.
Written(c) ==
  \/ phase = "recv" /\ client = c
  \/ pc[c] = "data" /\ Upload(c) /\ guestEnd[c] = "open" /\ toHost[c] # <<>>

HasOwner(c) == Written(c) => guestOwner[Dest(c)] # NoFile

Order(c) == EndsWithRefusal(c) /\ NothingLeft(c) /\ HasOwner(c)

\* Where Reliable holds, a session ends with a refusal or when all is done,
\* and a file is an upload's from the open of recv_file on.
Orderly == \A c \in Calls : Order(c)
=============================================================================
