----------------------------- MODULE FramingProofs -----------------------------
(***************************************************************************)
(* What the daemon reads as a request is one, for sessions, words, paths   *)
(* and streams of any length, and wherever the stream ends or breaks.      *)
(***************************************************************************)
EXTENDS Framing, TLAPS

\* The types, and how far the stream reaches.
FramingTypes ==
  /\ reqs \in Sessions /\ req \in 1..Len(reqs) + 1
  /\ sent \in Nat /\ sent <= Begin(reqs, Len(reqs) + 1)
  /\ at \in Nat /\ at <= sent
  /\ deaf \in BOOLEAN /\ whole \in BOOLEAN
  /\ next \in {"command", "length", "handler", "spinning", "over"}
  /\ cmd \in Commands /\ len \in Int

\* Whoever is at the first byte of a word or a string knows which one it is;
\* whoever is not will not receive another byte.
Asking ==
  next = "command" =>
    IF whole /\ ~deaf THEN at = Begin(reqs, req) ELSE Available = 0
Measuring ==
  next = "length" =>
    /\ req <= Len(reqs)
    /\ IF whole THEN at = Begin(reqs, req) + CommandSize /\ cmd = reqs[req].cmd
                ELSE Available = 0
Handling ==
  next = "handler" =>
    /\ req <= Len(reqs) /\ cmd = reqs[req].cmd
    /\ IF whole THEN /\ at = Begin(reqs, req) + CommandSize + LengthSize
                     /\ len = reqs[req].len
                ELSE Available = 0

FramingInv == FramingTypes /\ Asking /\ Measuring /\ Handling

-----------------------------------------------------------------------------
(* The stream                                                              *)

\* A request of a session has a command and a length, and its size is its two
\* words and its data.
LEMMA Request ==
  ASSUME NEW rs \in Sessions, NEW i \in 1..Len(rs)
  PROVE  /\ rs[i].cmd \in Commands /\ rs[i].len \in Nat \cup {-1}
         /\ Size(rs[i]) \in Nat \ {0}
         /\ rs[i].len >= 0 => Size(rs[i]) = CommandSize + LengthSize + rs[i].len
         /\ rs[i].len <= 0 => Size(rs[i]) = CommandSize + LengthSize
         /\ rs[i].cmd = "COPY_FILE_FROM_GUEST" => rs[i].len = 0
<1> DEFINE Requests == [cmd : Commands, len : Nat \cup {-1}]
<1>1. rs[i] \in Requests
  <2>1. rs \in Seq(Requests)
    BY FramingAssumption
  <2> HIDE DEF Requests
  <2> QED BY <2>1
<1>2. rs[i].cmd \in Commands /\ rs[i].len \in Nat \cup {-1}
  BY <1>1
<1>3. rs[i].cmd = "COPY_FILE_FROM_GUEST" => rs[i].len = 0
  BY FramingAssumption
<1> QED BY <1>2, <1>3, FramingAssumption DEF Size

\* The next request begins behind a request.
LEMMA NextBegin ==
  ASSUME NEW rs \in Sessions, NEW i \in 1..Len(rs)
  PROVE  Begin(rs, i + 1) = Begin(rs, i) + Size(rs[i])
BY BeginAssumption

\* recv gives all of what it was asked for, or the rest of the stream, or -1;
\* it takes what it gives.
LEMMA RecvTakes ==
  ASSUME FramingTypes, NEW n \in Int, NEW r \in Int, Recv(n, r)
  PROVE  /\ Available \in Nat /\ Available <= sent
         /\ at' \in Nat /\ at' <= sent
         /\ r = n /\ n >= 0 => n <= Available /\ at' = at + n
         /\ r # n /\ r > 0 => at' = at + Available /\ r = Available
         /\ r <= 0 => at' = at
         /\ r = -1 \/ r \in 0..Available
         /\ r # n => r = Available \/ r = -1
<1>1. Available \in Nat /\ Available <= sent - at
  BY DEF FramingTypes, Available
<1>2. CASE 0 <= n /\ n <= Available
  <2>1. r = n
    BY <1>2 DEF Recv
  <2>2. at' = IF r > 0 THEN at + r ELSE at
    BY DEF Recv
  <2> QED BY <1>1, <1>2, <2>1, <2>2 DEF FramingTypes
<1>3. CASE ~(0 <= n /\ n <= Available)
  <2>1. r \in {Available, -1}
    BY <1>3 DEF Recv
  <2>2. at' = IF r > 0 THEN at + r ELSE at
    BY DEF Recv
  <2> QED BY <1>1, <1>3, <2>1, <2>2 DEF FramingTypes
<1> QED BY <1>2, <1>3

-----------------------------------------------------------------------------
(* The invariant                                                           *)

LEMMA FramingInit == Init => FramingInv
<1> SUFFICES ASSUME Init PROVE FramingInv
  OBVIOUS
<1>1. reqs \in Sessions
  BY DEF Init
<1>2. Len(reqs) \in Nat /\ 1 \in 1..Len(reqs) + 1
  <2>1. reqs \in Seq([cmd : Commands, len : Nat \cup {-1}])
    BY <1>1, FramingAssumption
  <2>2. Len(reqs) \in Nat
    BY <2>1
  <2> QED BY <2>2
<1>3. Begin(reqs, 1) = 0
  BY <1>1, BeginAssumption
<1>4. sent \in Nat /\ sent <= Begin(reqs, Len(reqs) + 1)
  BY DEF Init
<1>5. FramingTypes
  <2>1. at \in Nat /\ at <= sent /\ req \in 1..Len(reqs) + 1 /\ len \in Int
    BY <1>2, <1>4 DEF Init
  <2>2. deaf \in BOOLEAN /\ whole \in BOOLEAN /\ cmd \in Commands
    BY DEF Init, Commands
  <2>3. next = "command"
    BY DEF Init
  <2> QED BY <1>1, <1>4, <2>1, <2>2, <2>3 DEF FramingTypes
<1> QED BY <1>3, <1>5 DEF Init, FramingInv, Asking, Measuring, Handling

\* The first word: it comes whole only if there is such a request.
LEMMA RecvCommandKeeps == FramingInv /\ RecvCommand => FramingInv'
<1> SUFFICES ASSUME FramingInv, RecvCommand PROVE FramingInv'
  OBVIOUS
<1> USE DEF FramingInv
<1>1. PICK r \in {-1} \cup 0..CommandSize :
        /\ Recv(CommandSize, r)
        /\ IF r \in {0, -1}
             THEN next' = "over" /\ UNCHANGED <<cmd, whole>>
             ELSE /\ next' = "length" /\ whole' = (r = CommandSize)
                  /\ cmd' \in Word(r, CommandSize, Begin(reqs, req),
                                   reqs[req].cmd, Commands)
  BY DEF RecvCommand
<1>2. UNCHANGED <<reqs, sent, deaf, len, req>> /\ next = "command"
  BY DEF RecvCommand
<1>3. CommandSize \in Nat \ {0} /\ r \in Int /\ reqs \in Sessions /\ Len(reqs) \in Nat
  BY FramingAssumption DEF FramingTypes
<1>4. /\ at' \in Nat /\ at' <= sent
      /\ r = CommandSize => CommandSize <= Available /\ at' = at + CommandSize
      /\ r # CommandSize /\ r > 0 => at' = at + Available
      /\ Available \in Nat
  BY <1>1, <1>3, RecvTakes
<1>5. CASE r \in {0, -1}
  BY <1>1, <1>2, <1>4, <1>5 DEF FramingTypes, Asking, Measuring, Handling
<1>6. CASE r = CommandSize
  <2>1. at = Begin(reqs, req) /\ at < sent
    BY <1>2, <1>3, <1>4, <1>6 DEF Asking, Available, FramingTypes
  <2>2. req \in 1..Len(reqs)
    BY <2>1, <1>3 DEF FramingTypes
  <2>3. cmd' = reqs[req].cmd /\ whole' /\ next' = "length"
    <3>1. r \notin {0, -1}
      BY <1>3, <1>6
    <3>2. next' = "length" /\ whole' = (r = CommandSize)
      BY <1>1, <3>1
    <3>3. cmd' \in {reqs[req].cmd}
      BY <1>1, <1>6, <2>1, <3>1 DEF Word
    <3> QED BY <1>6, <3>2, <3>3
  <2>4. cmd' \in Commands
    BY <2>2, <2>3, <1>3, Request
  <2> QED BY <1>2, <1>3, <1>4, <1>6, <2>1, <2>2, <2>3, <2>4
          DEF FramingTypes, Asking, Measuring, Handling
<1>7. CASE r \notin {0, -1} /\ r # CommandSize
  <2>1. at' = at + Available /\ r > 0
    BY <1>1, <1>3, <1>4, <1>7
  <2>2. cmd' \in Commands /\ whole' = FALSE /\ next' = "length"
    BY <1>1, <1>7 DEF Word
  <2>3. Available # 0
    BY <1>1, <1>3, <1>7, RecvTakes
  <2>4. Available' = 0 /\ ~deaf
    BY <2>1, <2>3, <1>2 DEF Available, FramingTypes
  <2>5. at < sent
    BY <2>3, <2>4 DEF Available, FramingTypes
  <2>6. at = Begin(reqs, req)
    BY <2>3, <1>2 DEF Asking
  <2>7. req <= Len(reqs)
    BY <2>5, <2>6, <1>3 DEF FramingTypes
  <2> QED BY <1>2, <1>3, <1>4, <2>2, <2>4, <2>7
          DEF FramingTypes, Asking, Measuring, Handling
<1> QED BY <1>5, <1>6, <1>7

\* The second word: it is that of the same request, or was cut in two.
LEMMA RecvLengthKeeps == FramingInv /\ RecvLength => FramingInv'
<1> SUFFICES ASSUME FramingInv, RecvLength PROVE FramingInv'
  OBVIOUS
<1> USE DEF FramingInv
<1>1. PICK r \in {-1} \cup 0..LengthSize :
        /\ Recv(LengthSize, r)
        /\ IF LengthEnds(r)
             THEN next' = "over" /\ UNCHANGED <<len, whole>>
             ELSE /\ next' = "handler" /\ whole' = (whole /\ r = LengthSize)
                  /\ len' \in Word(r, LengthSize, Begin(reqs, req) + CommandSize,
                                   reqs[req].len, OldLengths)
  BY DEF RecvLength
<1>2. UNCHANGED <<reqs, sent, deaf, cmd, req>> /\ next = "length"
  BY DEF RecvLength
<1>3. LengthSize \in Nat \ {0} /\ r \in Int /\ reqs \in Sessions
  BY FramingAssumption DEF FramingTypes
<1>4. /\ at' \in Nat /\ at' <= sent
      /\ r = LengthSize => LengthSize <= Available /\ at' = at + LengthSize
      /\ r # LengthSize /\ r > 0 => at' = at + Available /\ r = Available
      /\ Available \in Nat /\ (r = -1 \/ r <= Available)
  BY <1>1, <1>3, RecvTakes
<1>5. CASE r <= 0
  BY <1>1, <1>2, <1>4, <1>5
  DEF FramingTypes, Asking, Measuring, Handling, LengthEnds
<1>6. CASE r > 0
  <2>1. Available # 0
    BY <1>3, <1>4, <1>6
  <2>2. whole /\ at = Begin(reqs, req) + CommandSize /\ cmd = reqs[req].cmd
    BY <2>1, <1>2 DEF Measuring, FramingTypes
  <2>3. req \in 1..Len(reqs)
    BY <1>2 DEF Measuring, FramingTypes
  <2>4. /\ next' = "handler" /\ whole' = (r = LengthSize)
        /\ len' \in Word(r, LengthSize, Begin(reqs, req) + CommandSize,
                         reqs[req].len, OldLengths)
    <3>1. ~LengthEnds(r)
      BY <1>3, <1>6 DEF LengthEnds
    <3> QED BY <1>1, <2>2, <3>1, Zenon
  <2>5. reqs[req].len \in Int /\ OldLengths \subseteq Int
    BY <2>3, <1>3, Request, FramingAssumption
  <2>6. CASE r = LengthSize
    <3>1. len' = reqs[req].len
      BY <2>4, <2>6, <2>2 DEF Word
    <3> QED BY <1>2, <1>4, <2>2, <2>3, <2>4, <2>5, <2>6, <3>1
            DEF FramingTypes, Asking, Measuring, Handling
  <2>7. CASE r # LengthSize
    <3>1. len' \in Int
      BY <2>4, <2>5, <2>7 DEF Word
    <3>2. Available' = 0
      <4>1. ~deaf /\ at \in Nat /\ sent \in Nat /\ at' = at + (sent - at)
        BY <1>4, <1>6, <2>1, <2>7 DEF Available, FramingTypes
      <4> QED BY <4>1, <1>2 DEF Available
    <3> QED BY <1>2, <1>4, <2>2, <2>3, <2>4, <2>7, <3>1, <3>2
            DEF FramingTypes, Asking, Measuring, Handling
  <2> QED BY <2>6, <2>7
<1> QED BY <1>3, <1>5, <1>6

\* A handler that refuses leaves nothing to be read.
LEMMA RefuseKeeps ==
  ASSUME FramingInv, next = "handler", Refuse, at' \in Nat, at' <= sent,
         UNCHANGED <<reqs, sent, cmd, len, whole>>
  PROVE  FramingInv'
<1>1. req + 1 \in 1..Len(reqs) + 1
  BY FramingAssumption DEF FramingInv, FramingTypes, Handling
<1>2. Available' = 0
  BY DEF Refuse, Available
<1> QED BY <1>1, <1>2
        DEF Refuse, FramingInv, FramingTypes, Asking, Measuring, Handling

\* A handler that has taken all of the data leaves the daemon at the beginning
\* of the next request.
LEMMA DoneKeeps ==
  ASSUME FramingInv, next = "handler", Done,
         UNCHANGED <<reqs, sent, cmd, len, whole>>,
         \/ at' = at /\ len <= 0
         \/ at' = at + len /\ 0 <= len /\ len <= Available
         \/ at' = at /\ cmd = "COPY_FILE_FROM_GUEST"
  PROVE  FramingInv'
<1> USE DEF FramingInv
<1>1. req \in 1..Len(reqs) /\ cmd = reqs[req].cmd /\ reqs \in Sessions
  BY DEF FramingTypes, Handling
<1>2. /\ at' \in Nat /\ at' <= sent
      /\ Available = 0 => Available' = 0
  BY DEF FramingTypes, Available, Done
<1>3. ASSUME whole PROVE at' = Begin(reqs, req + 1)
  <2>1. at = Begin(reqs, req) + CommandSize + LengthSize /\ len = reqs[req].len
    BY <1>3 DEF Handling
  <2>2. Begin(reqs, req + 1) = Begin(reqs, req) + Size(reqs[req])
    BY <1>1, NextBegin
  <2>3. /\ len >= 0 => Size(reqs[req]) = CommandSize + LengthSize + len
        /\ len <= 0 => Size(reqs[req]) = CommandSize + LengthSize
        /\ cmd = "COPY_FILE_FROM_GUEST" => len = 0
    BY <1>1, <2>1, Request
  <2>4. at' = at + (IF len > 0 THEN len ELSE 0)
    BY <2>3 DEF FramingTypes
  <2> HIDE DEF FramingInv
  <2>5. CommandSize \in Nat /\ LengthSize \in Nat /\ len \in Int /\ at \in Nat
    BY FramingAssumption DEF FramingInv, FramingTypes
  <2>6. Begin(reqs, req) \in Int
    BY <1>1, FramingAssumption, BeginAssumption
  <2> QED BY <2>1, <2>2, <2>3, <2>4, <2>5, <2>6
<1>4. ASSUME ~whole PROVE Available' = 0
  BY <1>2, <1>4 DEF Handling
<1>5. req + 1 \in 1..Len(reqs) + 1
  BY <1>1, FramingAssumption
<1>6. FramingTypes'
  BY <1>2, <1>5 DEF Done, FramingTypes
<1>7. whole \in BOOLEAN /\ whole' = whole /\ next' = "command" /\ req' = req + 1
      /\ reqs' = reqs
  BY DEF Done, FramingTypes
<1>8. Asking'
  <2>1. CASE whole /\ ~deaf
    BY <1>3, <1>7, <2>1 DEF Asking, Done
  <2>2. CASE ~whole
    BY <1>4, <1>7, <2>2 DEF Asking
  <2>3. CASE deaf
    BY <1>7, <2>3 DEF Asking, Done, Available
  <2> QED BY <2>1, <2>2, <2>3
<1> QED BY <1>6, <1>7, <1>8 DEF Measuring, Handling
\* A string that recv_string took whole ends where the request ends.
LEMMA RecvStringKeeps ==
  ASSUME FramingInv, next = "handler", RecvString,
         UNCHANGED <<reqs, sent, cmd, len, whole>>
  PROVE  FramingInv'
<1>1. PICK r \in {-1} \cup 0..sent :
        /\ Recv(len, r)
        /\ IF Failed(r) THEN Refuse ELSE Done \/ Refuse
  BY DEF RecvString
<1>2. FramingTypes /\ len \in Int /\ r \in Int /\ sent \in Nat
  BY DEF FramingInv, FramingTypes
<1>3. /\ at' \in Nat /\ at' <= sent /\ Available \in Nat
      /\ r = len /\ len >= 0 => len <= Available /\ at' = at + len
      /\ r <= 0 => at' = at
  BY <1>1, <1>2, RecvTakes
<1>4. CASE Refuse
  BY <1>3, <1>4, RefuseKeeps
<1>5. CASE Done
  <2>1. CASE Failed(r)
    BY <1>1, <1>3, <2>1, RefuseKeeps
  <2>2. CASE r = len
    <3>1. \/ at' = at /\ len <= 0
          \/ at' = at + len /\ 0 <= len /\ len <= Available
      BY <1>2, <1>3, <2>2
    <3> QED BY <1>5, <3>1, DoneKeeps
  <2> QED BY <2>1, <2>2 DEF Failed
<1> QED BY <1>1, <1>4, <1>5

\* The handlers, one by one.
LEMMA SetUserKeeps == FramingInv /\ SetUser => FramingInv'
<1> SUFFICES ASSUME FramingInv, SetUser PROVE FramingInv'
  OBVIOUS
<1>1. next = "handler" /\ UNCHANGED <<reqs, sent, cmd, len, whole>>
  BY DEF SetUser
<1>2. CASE len = 0
  <2>1. Done /\ at' = at /\ len <= 0
    BY <1>2 DEF SetUser
  <2> QED BY <1>1, <2>1, DoneKeeps
<1>3. CASE len # 0
  BY <1>1, <1>3, RecvStringKeeps DEF SetUser
<1> QED BY <1>2, <1>3

LEMMA SetPathKeeps == FramingInv /\ SetPath => FramingInv'
<1> SUFFICES ASSUME FramingInv, SetPath PROVE FramingInv'
  OBVIOUS
<1>1. next = "handler" /\ UNCHANGED <<reqs, sent, cmd, len, whole>>
  BY DEF SetPath
<1>2. CASE Refuse /\ UNCHANGED at
  <2>1. at' \in Nat /\ at' <= sent
    BY <1>2 DEF FramingInv, FramingTypes
  <2> QED BY <1>1, <1>2, <2>1, RefuseKeeps
<1>3. CASE RecvString
  BY <1>1, <1>3, RecvStringKeeps
<1> QED BY <1>2, <1>3 DEF SetPath

LEMMA CopyFileToGuestKeeps == FramingInv /\ CopyFileToGuest => FramingInv'
<1> SUFFICES ASSUME FramingInv, CopyFileToGuest PROVE FramingInv'
  OBVIOUS
<1>1. next = "handler" /\ UNCHANGED <<reqs, sent, cmd, len, whole>>
  BY DEF CopyFileToGuest
<1>2. /\ Available \in Nat /\ at + Available <= sent
      /\ at \in Nat /\ sent \in Nat
  BY DEF Available, FramingInv, FramingTypes
<1>3. CASE \E n \in {0} \cup {k \in 1..Available : k <= len \/ len < 0} :
             at' = at + n /\ Refuse
  <2>1. at' \in Nat /\ at' <= sent /\ Refuse
    BY <1>2, <1>3
  <2> QED BY <1>1, <2>1, RefuseKeeps
<1>4. CASE 0 <= len /\ len <= Available /\ at' = at + len /\ Done
  BY <1>1, <1>4, DoneKeeps
<1>5. CASE at' = at + Available /\ next' = "spinning" /\ UNCHANGED <<deaf, req>>
  BY <1>1, <1>2, <1>5 DEF FramingInv, FramingTypes, Asking, Measuring, Handling
<1> QED BY <1>3, <1>4, <1>5 DEF CopyFileToGuest

LEMMA CopyFileFromGuestKeeps ==
  FramingInv /\ CopyFileFromGuest => FramingInv'
<1> SUFFICES ASSUME FramingInv, CopyFileFromGuest PROVE FramingInv'
  OBVIOUS
<1>1. /\ next = "handler" /\ UNCHANGED <<reqs, sent, cmd, len, whole>>
      /\ at' = at /\ cmd = "COPY_FILE_FROM_GUEST"
  BY DEF CopyFileFromGuest
<1>2. at' \in Nat /\ at' <= sent
  BY <1>1 DEF FramingInv, FramingTypes
<1>3. CASE Done
  BY <1>1, <1>3, DoneKeeps
<1>4. CASE Refuse
  BY <1>1, <1>2, <1>4, RefuseKeeps
<1> QED BY <1>3, <1>4 DEF CopyFileFromGuest

LEMMA FramingStep == FramingInv /\ [Next]_vars => FramingInv'
<1> SUFFICES ASSUME FramingInv, [Next]_vars PROVE FramingInv'
  OBVIOUS
<1>1. CASE Unknown
  BY <1>1 DEF Unknown, FramingInv, FramingTypes, Asking, Measuring, Handling
<1>2. CASE UNCHANGED vars
  BY <1>2 DEF vars, FramingInv, FramingTypes, Asking, Measuring, Handling, Available
<1> QED BY <1>1, <1>2, RecvCommandKeeps, RecvLengthKeeps, SetUserKeeps,
           SetPathKeeps, CopyFileToGuestKeeps, CopyFileFromGuestKeeps
        DEF Next

\* What holds throughout.
LEMMA FramingAlways == Spec => []FramingInv
<1>1. Init => FramingInv
  BY FramingInit
<1>2. FramingInv /\ [Next]_vars => FramingInv'
  BY FramingStep
<1> QED BY <1>1, <1>2, PTL DEF Spec

-----------------------------------------------------------------------------
\* No handler runs for a command that was not sent, or not in its turn:
\* command_loop takes nothing else for one, whatever was cut or refused.
THEOREM CommandSentAlways == Spec => []CommandSent
<1>1. FramingInv => CommandSent
  BY DEF FramingInv, Handling, CommandSent
<1> QED BY <1>1, FramingAlways, PTL

\* Where command_loop goes on, there is a request or nothing: shutdown after a
\* refusal keeps the rest of it from being read as one.
THEOREM AtBoundaryAlways == Spec => []AtBoundary
<1>1. FramingInv => AtBoundary
  <2> SUFFICES ASSUME FramingInv, next = "command", Available > 0
               PROVE  at = Begin(reqs, req)
    BY DEF AtBoundary
  <2> QED BY DEF FramingInv, Asking
<1> QED BY <1>1, FramingAlways, PTL

\* recv_string never takes the beginning of a user, a path or a file name for
\* all of it, unless its length was cut itself.
THEOREM StringWholeAlways == Spec => []StringWhole
<1>1. FramingInv => StringWhole
  BY DEF FramingInv, Asking, StringWhole
<1> QED BY <1>1, FramingAlways, PTL
=============================================================================
