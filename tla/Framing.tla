-------------------------------- MODULE Framing --------------------------------
(***************************************************************************)
(* How the daemon divides a stream of bytes into requests when the stream  *)
(* may end, or break, inside of any word or string of it.  GuestServer     *)
(* takes a word whole or not at all; here recv returns as many bytes as    *)
(* have arrived, or -1, and what it did not fill in keeps some old value.  *)
(***************************************************************************)
EXTENDS Integers, Sequences

CONSTANTS
  Sessions,     \* what clients send: sequences of [cmd, len]
  Begin(_, _),  \* where a request of such a sequence begins in the stream
  CommandSize,  \* sizeof(HVCPCommand)
  LengthSize,   \* sizeof(long)
  PathMax,      \* PATH_MAX
  OldLengths    \* what a length that was not filled in may be

Commands == {"SET_USER", "SET_REMOTE_PATH", "SET_FILE_NAME",
             "COPY_FILE_TO_GUEST", "COPY_FILE_FROM_GUEST", "unknown"}

\* The bytes of a request: its two words and as much data as it announces.
Size(q) == CommandSize + LengthSize + (IF q.len > 0 THEN q.len ELSE 0)

\* The engine sends no data with a request for a download, whose length is 0.
ASSUME FramingAssumption ==
  /\ {CommandSize, LengthSize} \subseteq Nat \ {0} /\ PathMax \in Nat
  /\ Sessions \subseteq Seq([cmd : Commands, len : Nat \cup {-1}]) /\ OldLengths \subseteq Int
  /\ \A rs \in Sessions : \A i \in 1..Len(rs) :
       rs[i].cmd = "COPY_FILE_FROM_GUEST" => rs[i].len = 0

\* One request begins where the one before it ends.
ASSUME BeginAssumption ==
  \A rs \in Sessions :
    /\ Begin(rs, 1) = 0 /\ \A i \in 1..Len(rs) + 1 : Begin(rs, i) \in Nat
    /\ \A i \in 1..Len(rs) : Begin(rs, i + 1) = Begin(rs, i) + Size(rs[i])

VARIABLES
  reqs,      \* what the client of this session sends
  sent,      \* how many bytes of it arrive before the stream ends or breaks
  at,        \* how many of them the daemon has taken
  deaf,      \* it has shut the socket down for reading
  next,      \* what it does next
  cmd, len,
  req,       \* the request it is at,
  whole      \* and whether both words of it came whole

vars == <<reqs, sent, at, deaf, next, cmd, len, req, whole>>

Init ==
  /\ reqs \in Sessions /\ sent \in 0..Begin(reqs, Len(reqs) + 1)
  /\ at = 0 /\ deaf = FALSE /\ next = "command" /\ cmd = "unknown" /\ len = 0
  /\ req = 1 /\ whole = TRUE

Available == IF deaf THEN 0 ELSE sent - at

\* recv of n bytes with MSG_WAITALL returns r: n of them, or the rest of the
\* stream, or -1 when it breaks.  As a size_t, a negative n is more than any
\* stream has.
Recv(n, r) ==
  /\ r \in IF 0 <= n /\ n <= Available THEN {n} ELSE {Available, -1}
  /\ at' = IF r > 0 THEN at + r ELSE at

\* What a word holds after that: what was sent, if it came whole and from its
\* place, or else anything.
Word(r, size, place, value, others) ==
  IF r = size /\ at = place THEN {value} ELSE others

-----------------------------------------------------------------------------
(* command_loop: the two words of a request                                *)

RecvCommand ==
  /\ next = "command"
  /\ \E r \in {-1} \cup 0..CommandSize :
       /\ Recv(CommandSize, r)
       /\ IF r \in {0, -1}
            THEN next' = "over" /\ UNCHANGED <<cmd, whole>>
            ELSE /\ next' = "length" /\ whole' = (r = CommandSize)
                 /\ cmd' \in Word(r, CommandSize, Begin(reqs, req),
                                  reqs[req].cmd, Commands)
  /\ UNCHANGED <<reqs, sent, deaf, len, req>>

LengthBroken(r) == r < 0    \* mutant
LengthEnds(r)   == r <= 0

RecvLength ==
  /\ next = "length"
  /\ \E r \in {-1} \cup 0..LengthSize :
       /\ Recv(LengthSize, r)
       /\ IF LengthEnds(r)
            THEN next' = "over" /\ UNCHANGED <<len, whole>>
            ELSE /\ next' = "handler" /\ whole' = (whole /\ r = LengthSize)
                 /\ len' \in Word(r, LengthSize, Begin(reqs, req) + CommandSize,
                                  reqs[req].len, OldLengths)
  /\ UNCHANGED <<reqs, sent, deaf, cmd, req>>

-----------------------------------------------------------------------------
(* The handlers, as far as they take bytes                                 *)

Done == next' = "command" /\ req' = req + 1 /\ UNCHANGED deaf

\* The reply of a handler that throws, and the shutdown before it.
RefuseReading == next' = "command" /\ req' = req + 1 /\ UNCHANGED deaf \* mutant
Refuse        == next' = "command" /\ req' = req + 1 /\ deaf' = TRUE

\* recv_string succeeds when recv returns what it was asked for, which -1 is
\* when the announced length is -1.
ErrorOnly(r) == r = -1    \* mutant
Failed(r)    == r # len

RecvString ==
  \E r \in {-1} \cup 0..sent :
    /\ Recv(len, r)
    /\ IF Failed(r) THEN Refuse ELSE Done \/ Refuse

\* No string to receive: no user name, or a path that is too long.
SetUser ==
  /\ next = "handler" /\ cmd = "SET_USER"
  /\ IF len = 0 THEN Done /\ UNCHANGED at ELSE RecvString
  /\ UNCHANGED <<reqs, sent, cmd, len, whole>>

\* As a size_t a negative length is too long; SET_FILE_NAME has it signed.
SetPath ==
  /\ next = "handler" /\ cmd \in {"SET_REMOTE_PATH", "SET_FILE_NAME"}
  /\ IF len > PathMax \/ (len < 0 /\ cmd = "SET_REMOTE_PATH")
       THEN Refuse /\ UNCHANGED at ELSE RecvString
  /\ UNCHANGED <<reqs, sent, cmd, len, whole>>

\* recv_file takes the whole file, or all there is and goes on for ever, or
\* refuses: at once, when the file does not open, or after a part.
CopyFileToGuest ==
  /\ next = "handler" /\ cmd = "COPY_FILE_TO_GUEST"
  /\ \/ \E n \in {0} \cup {k \in 1..Available : k <= len \/ len < 0} :
          /\ at' = at + n /\ Refuse
     \/ /\ 0 <= len /\ len <= Available
        /\ at' = at + len /\ Done
     \/ /\ len < 0 \/ len > Available
        /\ at' = at + Available /\ next' = "spinning" /\ UNCHANGED <<deaf, req>>
  /\ UNCHANGED <<reqs, sent, cmd, len, whole>>

\* send_file takes no data, whatever the length.
CopyFileFromGuest ==
  /\ next = "handler" /\ cmd = "COPY_FILE_FROM_GUEST"
  /\ Done \/ Refuse
  /\ UNCHANGED <<reqs, sent, at, cmd, len, whole>>

Unknown ==
  /\ next = "handler" /\ cmd = "unknown" /\ next' = "over"
  /\ UNCHANGED <<reqs, sent, at, deaf, cmd, len, req, whole>>

Next ==
  \/ RecvCommand \/ RecvLength
  \/ SetUser \/ SetPath \/ CopyFileToGuest \/ CopyFileFromGuest \/ Unknown

Spec == Init /\ [][Next]_vars

-----------------------------------------------------------------------------
\* A handler only runs for a command that the client has sent: one that was
\* cut in two is never acted on, for its length cannot come any more.
CommandSent == next = "handler" => req <= Len(reqs) /\ cmd = reqs[req].cmd

\* Whatever was refused, broken or cut before, the next byte to be read as a
\* command is the first one of a request.
AtBoundary ==
  next = "command" /\ Available > 0 => at = Begin(reqs, req)

\* A user, a path or a file name that the daemon has accepted came whole: it
\* never takes the beginning of one for all of it.  Only after a length that
\* was cut in two it does, and then nothing follows that could use it; and the
\* -1 of a null user name, which an error of recv passes for, announces no data.
StringWhole ==
  next = "command" /\ ~deaf /\ whole => at = Begin(reqs, req)
=============================================================================
