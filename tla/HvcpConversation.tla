-------------------------- MODULE HvcpConversation --------------------------
(***************************************************************************)
(* What the two sides of a conversation know of each other: for each call, *)
(* how far the engine is in its list of requests, how far the daemon is in *)
(* reading them, and what the two streams hold in between.  Nothing here   *)
(* models code; Conversation is the inductive invariant from which the     *)
(* type invariant and the properties of uploads follow.                    *)
(***************************************************************************)
EXTENDS HvcpSystem

\* The requests of a call, each named for its state of the engine.
Stages(c) == IF Upload(c) THEN {"user", "path", "name", "copy"}
                          ELSE {"path", "get"}
First(c)  == IF Upload(c) THEN "user" ELSE "path"

CommandOf(s) == CASE s = "user" -> "SET_USER"
                  [] s = "path" -> "SET_REMOTE_PATH"
                  [] s = "name" -> "SET_FILE_NAME"
                  [] s = "copy" -> "COPY_FILE_TO_GUEST"
                  [] s = "get"  -> "COPY_FILE_FROM_GUEST"

LengthOf(c, s) == CASE s = "user" -> UserLength(req[c].user)
                    [] s = "path" -> PathUnits(req[c].rpath)
                    [] s = "name" -> 1
                    [] s = "copy" -> req[c].size
                    [] s = "get"  -> 0

StringOf(c, s) == CASE s = "user" -> req[c].user
                    [] s = "path" -> req[c].rpath
                    [] s = "name" -> req[c].name

\* How many tokens the request has; a length of -1 announces no data.
Size(c, s) == IF LengthOf(c, s) = -1 THEN 2 ELSE 2 + LengthOf(c, s)

\* The i-th token of request s of call c.
TokenOf(c, s, i) ==
  IF i = 1 THEN Command(CommandOf(s))
  ELSE IF i = 2 THEN Length(LengthOf(c, s))
  ELSE IF s = "copy" THEN Block(c, i - 2)
  ELSE Text(StringOf(c, s))

-----------------------------------------------------------------------------
(* The daemon.                                                             *)

\* How many tokens of the request the daemon has taken off the stream.
Taken(c) ==
  IF client # c \/ phase \in {"command", "close"} THEN 0
  ELSE IF phase = "length" THEN 1
  ELSE IF phase = "recv" THEN 2 + req[c].size - remains
  ELSE 2

RightTarget(c) == KnownUser(c) => target = WantedUid(c)

\* What the earlier requests of call c have set up for request s.
Prepared(c, s) ==
  /\ s \in {"name", "get"} => path = req[c].rpath
  /\ s = "copy" => /\ path = Dest(c)
                   /\ pc[c] \in {"data", "returned"}
                   /\ errcode[c] # "ERR_COPY_FILE_TO_GUEST_SRC_OPEN"
  /\ s \in {"path", "name", "copy"} /\ Upload(c) => RightTarget(c)

\* The thread of the daemon is in request s of its client c.
In(c, s) ==
  /\ \/ phase \in {"length", CommandOf(s)}
     \/ phase = "recv" /\ s = "copy"
     \/ phase = "send" /\ s = "get"
  /\ cmd = CommandOf(s)
  /\ phase # "length" => len = LengthOf(c, s)
  /\ phase = "recv" => /\ remains <= req[c].size
                       /\ Len(guestFile[Dest(c)]) = req[c].size - remains
                       /\ \A i \in 1..Len(guestFile[Dest(c)]) :
                            guestFile[Dest(c)][i] = Block(c, i)

\* What the daemon has not read of call c is a piece of request s, from where
\* the daemon is; the host may have died before it sent the rest.
At(c, s) ==
  /\ Len(toGuest[c]) + Taken(c) <= Size(c, s)
  /\ \A i \in 1..Len(toGuest[c]) : toGuest[c][i] = TokenOf(c, s, i + Taken(c))
  /\ client = c /\ phase # "command" => In(c, s) /\ Prepared(c, s)
  /\ client = c /\ toGuest[c] # <<>> => Prepared(c, s)

Reading(c) == guestEnd[c] \in {"queued", "open"}
                /\ ~(client = c /\ phase = "close")

GuestSide(c) ==
  Reading(c) => \E s \in Stages(c) :
                  At(c, s) /\ (guestEnd[c] = "queued" => s = First(c))

-----------------------------------------------------------------------------
(* The engine.                                                             *)

Sending == {"user", "path", "name", "source", "dest", "file"}

Waiting(c) == pc[c] \in {"user?", "path?", "name?", "file?"}
                \/ (pc[c] = "data" /\ Upload(c))

\* The request whose reply the engine waits for.
Current(c) == CASE pc[c] = "user?" -> "user"
                [] pc[c] = "path?" -> "path"
                [] pc[c] = "name?" -> "name"
                [] pc[c] = "data"  -> "copy"
                [] pc[c] = "file?" -> "get"

\* Between two requests: nothing is under way.
AtRest(c) ==
  /\ toHost[c] = <<>> /\ guestEnd[c] # "deaf"
  /\ Reading(c) => toGuest[c] = <<>>
  /\ guestEnd[c] = "queued" => pc[c] = First(c)
  /\ guestEnd[c] = "open" =>
       /\ phase = "command"
       /\ pc[c] \in {"name", "dest", "file"} => path = req[c].rpath
       /\ pc[c] = "source" => path = Dest(c)
       /\ pc[c] \in {"path", "name", "source"} /\ Upload(c) => RightTarget(c)

\* The whole request, or what was sent of the file, is not answered.
Pending(c, s) ==
  /\ Reading(c) /\ toHost[c] = <<>> /\ At(c, s)
  /\ Len(toGuest[c]) + Taken(c)
       = Size(c, s) - (IF s = "copy" THEN left[c] ELSE 0)
  /\ guestEnd[c] = "queued" => s = First(c)
  /\ client = c => phase # "send"

\* The file is stored, unless something of the guest interferes.
Stored(c) ==
  /\ "truncate" \notin Faults => guestFile[Dest(c)] = Source(c)
  /\ "chown" \notin Faults /\ KnownUser(c) =>
       guestOwner[Dest(c)] = WantedUid(c)

\* The request was answered with OK, and the daemon is done with it.
Answered(c, s) ==
  /\ guestEnd[c] = "open" /\ toGuest[c] = <<>> /\ s # "get"
  /\ phase = "command" /\ toHost[c] = Reply("OK", 0)
  /\ s = "path" => path = req[c].rpath
  /\ s = "name" => path = Dest(c)
  /\ s # "copy" /\ Upload(c) => RightTarget(c)
  /\ s = "copy" => left[c] = 0 /\ Stored(c)

StartsWithReply(stream) ==
  /\ Len(stream) >= 2
  /\ stream[1] \in {"result"} \X Results /\ stream[2] \in {"length"} \X Nat

\* The file is on its way, or already sent.
Delivering(c, s) ==
  /\ s = "get" /\ guestEnd[c] = "open" /\ toGuest[c] = <<>>
  /\ phase \in {"send", "command"} /\ StartsWithReply(toHost[c])

\* The daemon refused the request, or is gone.
Over(c, s) ==
  /\ guestEnd[c] \in {"deaf", "closed"}
  /\ \/ guestEnd[c] = "closed" /\ toHost[c] = <<>>
     \/ s = "get" /\ StartsWithReply(toHost[c])
     \/ \E r \in Results : /\ toHost[c] = Reply(r, 0)
                           /\ guestEnd[c] = "deaf" => r # "OK"

HostSide(c) ==
  hostEnd[c] = "open" =>
    /\ pc[c] \in Sending => AtRest(c)
    /\ Waiting(c) => \/ Pending(c, Current(c))
                     \/ Answered(c, Current(c))
                     \/ Delivering(c, Current(c))
                     \/ Over(c, Current(c))

-----------------------------------------------------------------------------
\* The ends of a connection and the state of its call.
Ends(c) ==
  /\ hostEnd[c] = "open" <=> pc[c] \notin {"connect", "returned"}
  /\ hostEnd[c] = "open" => guestEnd[c] # "none"
  /\ pc[c] = "connect" =>
       /\ hostEnd[c] = "none" /\ guestEnd[c] = "none"
       /\ toGuest[c] = <<>> /\ toHost[c] = <<>>
  /\ pc[c] # "returned" => ret[c] = "none" /\ errcode[c] = Stale
  /\ guestEnd[c] = "deaf" => phase \in {"command", "close"}
  /\ pc[c] \in {"user", "user?", "name", "name?", "source"} => Upload(c)
  /\ pc[c] \in {"dest", "file", "file?"} => ~Upload(c)
  /\ pc[c] = "data" /\ Upload(c) => left[c] <= req[c].size

Talk(c) == Ends(c) /\ GuestSide(c) /\ HostSide(c)

\* For every call, the requests the engine has sent and not seen answered are
\* what the daemon has read of them and what the streams hold, and the daemon
\* is set up for them by the requests before: what GetCommandResult and
\* command_loop rely on when they take the next words of the stream.
Conversation == \A c \in Calls : Talk(c)
=============================================================================
