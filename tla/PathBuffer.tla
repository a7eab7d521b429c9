------------------------------ MODULE PathBuffer ------------------------------
(***************************************************************************)
(* The three arrays of PATH_MAX bytes in which the daemon puts a path      *)
(* together, as lengths: path of HVCPCommandProc, path_for_dirname of      *)
(* recv_remote_path and filename of command_loop.  HvcpProtocol only tells *)
(* a path that is too long from one that fits; here are the lengths around *)
(* the limit.  An access behind an array is undefined: nothing follows it. *)
(***************************************************************************)
EXTENDS Integers

CONSTANTS
  PathMax,   \* PATH_MAX
  SizeMax,   \* one more than the largest size_t
  Lengths    \* lengths of the strings that clients send

\* The engine announces -1 bytes for a path that it cannot convert.
ASSUME PathAssumption ==
  /\ PathMax \in Nat /\ PathMax > 1
  /\ SizeMax \in Nat /\ SizeMax > PathMax + 1
  /\ Lengths \subseteq -1..SizeMax - 2

\* A string: its length, and whether its last byte is a slash.
Strings == {s \in [len : Lengths, slash : BOOLEAN] : s.slash => s.len > 0}
Names   == {s \in Strings : s.len >= 0}

VARIABLES
  session,  \* whether the session goes on, or why it was shut down
  path,     \* the string in path: its length, and whether it ends in a slash
  reach,    \* the highest index that was written, for each array
  wanted,   \* the length of the full name the client has asked for
  asked,    \* the length announced by the last request
  parts     \* history: 2 once a file name was appended to a directory, else 1

vars == <<session, path, reach, wanted, asked, parts>>

Empty   == [len |-> 0, slash |-> FALSE]
Nowhere == [path |-> 0, dirname |-> 0, filename |-> 0]

Init ==
  /\ session = "open" /\ path = Empty /\ reach = Nowhere
  /\ wanted = 0 /\ asked = 0 /\ parts = 1

Inside == \A a \in DOMAIN reach : reach[a] < PathMax
Open   == session = "open" /\ Inside

\* The next client: an object of its own, whose path[0] is 0.
KeptPath  == path' = path   \* mutant: the path of the last client
ResetPath == path' = Empty

Connect ==
  /\ Inside /\ ResetPath /\ session' = "open" /\ reach' = Nowhere
  /\ wanted' = 0 /\ asked' = 0 /\ parts' = 1

Refuse(why) == session' = why
Accept      == session' = session

Furthest(a, b) == IF a < b THEN b ELSE a

-----------------------------------------------------------------------------
(* SET_REMOTE_PATH: recv_remote_path                                       *)

\* len is a size_t here: -1 is the largest one.
TooLongByOne(len) == len % SizeMax > PathMax + 1   \* mutant
TooLong(len)      == len % SizeMax > PathMax

RemotePathTooLong(s) ==
  /\ TooLong(s.len) /\ Refuse("toolong")
  /\ wanted' = s.len % SizeMax
  /\ UNCHANGED <<path, reach>>

\* stat finds no directory under an empty name, and none under one that
\* leaves no room for its terminator.
StatFinds(s) == s.len > 0 /\ s.len < PathMax

\* A directory gets a slash, if it has none, and a terminator behind it.
WithSlash(s) == [len |-> IF s.slash THEN s.len ELSE s.len + 1, slash |-> TRUE]

RemoteDirectory(s) ==
  /\ ~TooLong(s.len) /\ StatFinds(s) /\ Accept
  /\ path'   = WithSlash(s)
  /\ reach'  = [reach EXCEPT !.path = Furthest(@, WithSlash(s).len)]
  /\ wanted' = IF s.slash THEN s.len ELSE s.len + 1

\* Anything else is copied for dirname, whose stat may fail.
RemoteFile(s) ==
  /\ ~TooLong(s.len)
  /\ Accept \/ (s.len > 0 /\ Refuse("noparent"))
  /\ path'   = s
  /\ reach'  = [reach EXCEPT !.path = Furthest(@, s.len),
                             !.dirname = Furthest(@, s.len)]
  /\ wanted' = s.len

SetRemotePath(s) ==
  /\ Open /\ asked' = s.len /\ parts' = 1
  /\ RemotePathTooLong(s) \/ RemoteDirectory(s) \/ RemoteFile(s)

-----------------------------------------------------------------------------
(* SET_FILE_NAME                                                           *)

\* path[strlen(path) - 1] of an empty path is the byte before the array, the
\* highest one of the descriptor in sock: 0.
EndsInSlashOrEmpty == path.slash \/ path.len = 0   \* mutant: that byte is one
EndsInSlash == path.slash

RoomUpTo(n) == path.len + n.len <= PathMax      \* mutant: no terminator
RoomLess(n) == path.len + n.len < PathMax - 1   \* mutant: two of them
RoomFor(n)  == path.len + n.len < PathMax

\* strncat appends what fits before the terminator.
Appended(n) ==
  LET most == PathMax - path.len - 1
      took == IF n.len < most THEN n.len ELSE most
  IN  [len |-> path.len + took, slash |-> took = 0 \/ n.slash]

FileNameTooLong(n) ==
  /\ n.len > PathMax /\ Refuse("toolong")
  /\ UNCHANGED <<path, reach, wanted, parts>>

FileNameUnused(n) ==
  /\ n.len <= PathMax /\ ~EndsInSlash /\ Accept
  /\ reach' = [reach EXCEPT !.filename = Furthest(@, n.len)]
  /\ UNCHANGED <<path, wanted, parts>>

FileNameAppended(n) ==
  /\ n.len <= PathMax /\ EndsInSlash
  /\ IF RoomFor(n)
       THEN /\ Accept /\ path' = Appended(n)
            /\ reach' = [reach EXCEPT !.filename = Furthest(@, n.len),
                                      !.path = Furthest(@, Appended(n).len)]
       ELSE /\ Refuse("toolong") /\ UNCHANGED path
            /\ reach' = [reach EXCEPT !.filename = Furthest(@, n.len)]
  /\ wanted' = wanted + n.len /\ parts' = 2

SetFileName(n) ==
  /\ Open /\ asked' = n.len
  /\ FileNameTooLong(n) \/ FileNameUnused(n) \/ FileNameAppended(n)

\* The connection ends inside a string: recv_string has written a part of it
\* without a terminator, and nothing reads the array any more.
Cut(s) ==
  /\ Open /\ s.len \in 1..PathMax /\ asked' = s.len
  /\ Refuse("cut") /\ UNCHANGED <<path, wanted, parts>>
  /\ \E n \in 0..s.len - 1, a \in {"path", "filename"} :
       reach' = [reach EXCEPT ![a] = Furthest(@, n)]

Next ==
  \/ Connect
  \/ \E s \in Strings : SetRemotePath(s) \/ Cut(s)
  \/ \E n \in Names : SetFileName(n)

Spec == Init /\ [][Next]_vars

-----------------------------------------------------------------------------
TypeOK ==
  /\ session \in {"open", "toolong", "noparent", "cut"}
  /\ path \in [len : Nat, slash : BOOLEAN] /\ (path.slash => path.len > 0)
  /\ reach \in [{"path", "dirname", "filename"} -> Nat]
  /\ wanted \in Nat /\ asked \in Lengths \cup {0} /\ parts \in 1..2

\* The checks keep every write inside the three arrays, but for a string of
\* PATH_MAX bytes, which they let through, and for a directory whose name has
\* PATH_MAX - 1 bytes and gets a slash.
InBounds == Inside \/ asked = PathMax \/ (asked = PathMax - 1 /\ path.len = PathMax)

\* The name that the transfer will open is the whole name, a directory with
\* its slash and the file name behind it: strncat never cuts it.
WholeName == Open => path.len = wanted

\* Only lengths decide whether a name is refused as too long, and the limit is
\* not the same for every way to send it: up to PATH_MAX bytes pass in one
\* request, a directory with the slash it is given included (line 100 leaves
\* no room for the terminator), and one byte less when a file name is appended
\* to a directory (line 228 leaves it).
LengthLimit == IF parts = 2 THEN PathMax - 1 ELSE PathMax

LengthDecides ==
  session \in {"open", "toolong"} =>
    (session = "toolong" <=> wanted > LengthLimit \/ asked > PathMax)
=============================================================================
