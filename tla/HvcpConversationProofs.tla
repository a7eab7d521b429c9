----------------------- MODULE HvcpConversationProofs -----------------------
(***************************************************************************)
(* Conversation and the type invariant are inductive, for any number of    *)
(* calls, any requests, any files and any combination of faults; and what  *)
(* follows from them.                                                      *)
(***************************************************************************)
EXTENDS HvcpConversation, HvcpSystemProofs

\* Each part needs the others: that the daemon serves the client it is in a
\* conversation with comes from SessionInv, what a token is from TypeOK.
Inv == TypeOK /\ SessionInv /\ Conversation

-----------------------------------------------------------------------------
(* The data.                                                               *)

LEMMA Pair ==
  ASSUME NEW S, NEW t \in Seq(S), NEW e \in S, NEW n \in S,
         Len(t) = 2, t[1] = e, t[2] = n
  PROVE  t = <<e, n>>
<1>1. <<e, n>> \in Seq(S) /\ Len(<<e, n>>) = 2
      /\ <<e, n>>[1] = e /\ <<e, n>>[2] = n
  OBVIOUS
<1>2. QED
  BY <1>1, SeqEqual

LEMMA AppendOne ==
  ASSUME NEW S, NEW e \in S, NEW n \in S
  PROVE  Append(<<e>>, n) = <<e, n>>
<1>1. Append(<<e>>, n) \in Seq(S)
  OBVIOUS
<1>2. Len(Append(<<e>>, n)) = 2
  OBVIOUS
<1>3. Append(<<e>>, n)[1] = e
  OBVIOUS
<1>4. Append(<<e>>, n)[2] = n
  OBVIOUS
<1>5. QED
  BY <1>1, <1>2, <1>3, <1>4, Pair, Zenon

LEMMA Join ==
  ASSUME NEW S, NEW t \in Seq(S), NEW u \in Seq(S)
  PROVE  /\ t \o u \in Seq(S) /\ Len(t \o u) = Len(t) + Len(u)
         /\ \A i \in 1..Len(t \o u) :
              (t \o u)[i] = IF i <= Len(t) THEN t[i] ELSE u[i - Len(t)]
  OBVIOUS

LEMMA PathFacts ==
  /\ \A p \in FilePaths : p # <<>> /\ ~IsDirectory(p)
  /\ \A r \in Requests : r.rpath # <<>> /\ r.rpath \in Paths
  /\ \A p \in Paths, n \in Names :
       IsDirectory(p) => Append(p, n) \in FilePaths /\ p \o <<n>> = Append(p, n)
<1>1. \A p \in FilePaths : p # <<>> /\ ~IsDirectory(p)
  BY DEF FilePaths, IsDirectory
<1>2. \A r \in Requests : r.rpath # <<>> /\ r.rpath \in Paths
  <2>1. \A p \in DirPaths : p # <<>>
    BY DEF DirPaths
  <2>2. QED
    BY <1>1, <2>1, RequestsAssumption DEF Paths
<1>3. ASSUME NEW p \in Paths, NEW n \in Names, IsDirectory(p)
      PROVE  Append(p, n) \in FilePaths /\ p \o <<n>> = Append(p, n)
  <2>1. PICK e \in Dirs : p = <<e>>
    BY <1>3, DirsAssumption DEF IsDirectory
  <2>2. e \in Dirs \cup Names /\ n \in Dirs \cup Names
    OBVIOUS
  <2>3. Append(<<e>>, n) = <<e, n>>
    BY <2>2, AppendOne, Zenon
  <2>4. <<e>> \o <<n>> = Append(<<e>>, n)
    BY AppendIsConcat
  <2>5. QED
    BY <2>1, <2>3, <2>4 DEF FilePaths
<1>4. QED
  BY <1>1, <1>2, <1>3

LEMMA DestIsFile ==
  ASSUME TypeOK, NEW c \in Calls
  PROVE  Dest(c) \in FilePaths
  BY PathFacts, RequestsAssumption DEF Dest, TypeOK, HostTypeOK


\* What each request looks like on the stream.
LEMMA RequestTokens ==
  ASSUME TypeOK, NEW c \in Calls, NEW s \in {"user", "path", "name"},
         NEW q, q = Header(CommandOf(s), LengthOf(c, s))
                      \o Units(StringOf(c, s), LengthOf(c, s))
  PROVE  /\ q \in Seq(Tokens) /\ Len(q) = Size(c, s)
         /\ \A i \in 1..Len(q) : q[i] = TokenOf(c, s, i)
<1> DEFINE n == LengthOf(c, s)
           u == Units(StringOf(c, s), n)
           h == Header(CommandOf(s), n)
<1>1. n \in Nat \cup {-1} /\ StringOf(c, s) \in Strings
  <2>1. req[c] \in Requests
    BY DEF TypeOK, HostTypeOK
  <2>2. /\ req[c].user \in Strings /\ req[c].rpath \in Strings
        /\ req[c].name \in Strings
    BY <2>1, RequestsAssumption, PathFacts DEF Strings
  <2>3. CASE s = "user"
    BY <2>2, <2>3 DEF LengthOf, StringOf, UserLength
  <2>4. CASE s = "path"
    BY <2>2, <2>4 DEF LengthOf, StringOf, PathUnits, PathMax
  <2>5. CASE s = "name"
    BY <2>2, <2>5 DEF LengthOf, StringOf
  <2>6. QED
    BY <2>3, <2>4, <2>5
<1>2. u \in Seq(Tokens) /\ Len(u) = Size(c, s) - 2
      /\ \A i \in 1..Len(u) : u[i] = Text(StringOf(c, s))
  <2>1. CASE n = -1
    BY <2>1 DEF Units, Size
  <2>2. CASE n \in Nat
    <3>1. Size(c, s) = 2 + n
      BY <2>2 DEF Size
    <3>2. u = [i \in 1..n |-> Text(StringOf(c, s))]
      BY DEF Units
    <3>3. u \in [1..n -> Tokens] /\ DOMAIN u = 1..n
      BY <1>1, <3>2 DEF Tokens, Text
    <3>4. u \in Seq(Tokens) /\ Len(u) = n
      BY <2>2, <3>3, SeqDef
    <3>5. \A i \in 1..n : u[i] = Text(StringOf(c, s))
      BY <3>2
    <3> HIDE DEF u, n
    <3>6. QED
      BY <3>1, <3>4, <3>5, <2>2
  <2>3. QED
    BY <1>1, <2>1, <2>2
<1>3. h \in Seq(Tokens) /\ Len(h) = 2
      /\ h[1] = Command(CommandOf(s)) /\ h[2] = Length(n)
  BY <1>1 DEF Header, Tokens, CommandOf, Commands, HandledCommands,
             Command, Length
<1> HIDE DEF n, u, h
<1>4. /\ h \o u \in Seq(Tokens) /\ Len(h \o u) = Len(h) + Len(u)
      /\ \A i \in 1..Len(h \o u) :
           (h \o u)[i] = IF i <= Len(h) THEN h[i] ELSE u[i - Len(h)]
  BY <1>2, <1>3, Join, Zenon
<1>5. Len(h \o u) = Size(c, s)
  BY <1>1, <1>2, <1>3, <1>4 DEF Size, n
<1>6. ASSUME NEW i \in 1..Len(h \o u)
      PROVE  (h \o u)[i] = TokenOf(c, s, i)
  <2>1. CASE i \in 1..2
    <3>1. (h \o u)[i] = h[i]
      BY <1>3, <1>4, <2>1
    <3>2. QED
      BY <1>3, <2>1, <3>1 DEF TokenOf, n
  <2>2. CASE i \notin 1..2
    <3>1. (h \o u)[i] = u[i - 2] /\ i - 2 \in 1..Len(u)
      BY <1>2, <1>3, <1>4, <2>2
    <3>2. QED
      BY <1>2, <2>2, <3>1 DEF TokenOf
  <2>3. QED
    BY <2>1, <2>2
<1>7. q = h \o u
  BY DEF h, u, n
<1>8. QED
  BY <1>4, <1>5, <1>6, <1>7

LEMMA HeaderTokens ==
  ASSUME TypeOK, NEW c \in Calls, NEW s \in {"copy", "get"},
         NEW q, q = Header(CommandOf(s), LengthOf(c, s))
  PROVE  /\ q \in Seq(Tokens) /\ Len(q) = 2
         /\ \A i \in 1..Len(q) : q[i] = TokenOf(c, s, i)
         /\ Size(c, s) = 2 + LengthOf(c, s)
  BY RequestsAssumption
     DEF Header, Tokens, CommandOf, Commands, HandledCommands, TokenOf,
         Command, Length,
         LengthOf, Size, TypeOK, HostTypeOK

LEMMA ReplyTokens ==
  ASSUME NEW r \in Results, NEW n \in Nat
  PROVE  /\ Reply(r, n) \in Seq(Tokens) /\ Len(Reply(r, n)) = 2
         /\ Value(Reply(r, n)[1]) = r /\ Value(Reply(r, n)[2]) = n
         /\ SubSeq(Reply(r, n), 3, 2) = <<>>
         /\ StartsWithReply(Reply(r, n))
<1>1. Reply(r, n) \in Seq(Tokens)
  BY DEF Reply, Tokens, Result, Length
<1>2. Len(Reply(r, n)) = 2
  BY DEF Reply
<1>3. Value(Reply(r, n)[1]) = r /\ Value(Reply(r, n)[2]) = n
  BY DEF Reply, Result, Length, Value
<1>4. SubSeq(Reply(r, n), 3, 2) = <<>>
  BY SubSeqEmpty
<1>5. StartsWithReply(Reply(r, n))
  BY <1>2 DEF StartsWithReply, Reply, Result, Length
<1>6. QED
  BY <1>1, <1>2, <1>3, <1>4, <1>5

LEMMA Sizes ==
  ASSUME TypeOK, NEW c \in Calls, NEW s \in {"user", "path", "name", "copy", "get"}
  PROVE  /\ LengthOf(c, s) \in Nat \cup {-1} /\ Size(c, s) \in Nat \ {0, 1}
         /\ Taken(c) \in Int /\ req[c].size \in Nat
         /\ Len(toGuest[c]) \in Nat /\ toGuest[c] \in Seq(Tokens)
         /\ Len(toHost[c]) \in Nat /\ toHost[c] \in Seq(Tokens)
<1>1. req[c] \in Requests /\ req[c].size \in Nat
  BY RequestsAssumption DEF TypeOK, HostTypeOK
<1>2. LengthOf(c, s) \in Nat \cup {-1}
  BY <1>1 DEF LengthOf, UserLength, PathUnits, PathMax
<1>3. Size(c, s) \in Nat \ {0, 1}
  BY <1>2 DEF Size
<1>4. Taken(c) \in Int
  BY <1>1 DEF Taken, TypeOK, ServerTypeOK
<1>5. toGuest[c] \in Seq(Tokens) /\ toHost[c] \in Seq(Tokens)
  BY DEF TypeOK, StreamsTypeOK
<1>6. QED
  BY <1>1, <1>2, <1>3, <1>4, <1>5

LEMMA StagesOfCall ==
  ASSUME NEW c \in Calls
  PROVE  Stages(c) \subseteq {"user", "path", "name", "copy", "get"}
  BY DEF Stages

-----------------------------------------------------------------------------
(* Who is not touched by a step keeps his conversation.                    *)

\* A step of the daemon for its client leaves the other calls alone.
LEMMA OtherCall ==
  ASSUME Inv, NEW e \in Calls, Talk(e), client # e, client' # e,
         req'[e] = req[e], pc'[e] = pc[e], ret'[e] = ret[e],
         errcode'[e] = errcode[e], left'[e] = left[e],
         hostEnd'[e] = hostEnd[e], guestEnd'[e] = guestEnd[e],
         toGuest'[e] = toGuest[e], toHost'[e] = toHost[e]
  PROVE  Talk(e)'
<1>1. guestEnd[e] \notin {"open", "deaf"}
  BY DEF Inv, SessionInv, OneSession
<1>2. \A s : At(e, s)' <=> At(e, s)
  <2>1. \A s : LengthOf(e, s)' = LengthOf(e, s) /\ StringOf(e, s)' = StringOf(e, s)
    BY DEF LengthOf, StringOf
  <2>2. \A s, i : TokenOf(e, s, i)' = TokenOf(e, s, i)
    BY <2>1 DEF TokenOf
  <2>3. Taken(e) = 0 /\ Taken(e)' = 0
    BY DEF Taken
  <2>4. QED
    BY <2>1, <2>2, <2>3 DEF At, Size
<1>3. Ends(e)'
  BY <1>1 DEF Talk, Ends, Upload
<1>4. GuestSide(e)'
  BY <1>1, <1>2 DEF Talk, GuestSide, Reading, Stages, First, Upload
<1>5. HostSide(e)'
  BY <1>1, <1>2
     DEF Talk, HostSide, AtRest, Waiting, Current, Pending, Answered, Delivering,
    Over, Reading, First, Upload, Size, LengthOf, Taken
<1>6. QED
  BY <1>3, <1>4, <1>5 DEF Talk

\* A step of another call leaves the daemon alone.
LEMMA OtherThread ==
  ASSUME NEW e \in Calls, Talk(e),
         req'[e] = req[e], pc'[e] = pc[e], ret'[e] = ret[e],
         errcode'[e] = errcode[e], left'[e] = left[e],
         hostEnd'[e] = hostEnd[e], guestEnd'[e] = guestEnd[e],
         toGuest'[e] = toGuest[e], toHost'[e] = toHost[e],
         UNCHANGED <<phase, client, cmd, len, path, target, remains,
                     guestFile, guestOwner>>
  PROVE  Talk(e)'
<1>1. Dest(e)' = Dest(e) /\ Source(e)' = Source(e)
      /\ (RightTarget(e)' <=> RightTarget(e)) /\ Upload(e)' = Upload(e)
      /\ (KnownUser(e)' <=> KnownUser(e)) /\ WantedUid(e)' = WantedUid(e)
  BY DEF Dest, Source, RightTarget, KnownUser, WantedUid, Upload
<1>2. \A s : At(e, s)' <=> At(e, s)
  <2>1. \A s : LengthOf(e, s)' = LengthOf(e, s) /\ StringOf(e, s)' = StringOf(e, s)
    BY DEF LengthOf, StringOf
  <2>2. \A s, i : TokenOf(e, s, i)' = TokenOf(e, s, i)
    BY <2>1 DEF TokenOf
  <2>3. Taken(e)' = Taken(e)
    BY DEF Taken
  <2>4. \A s : (In(e, s)' <=> In(e, s)) /\ (Prepared(e, s)' <=> Prepared(e, s))
    BY <1>1, <2>1 DEF In, Prepared
  <2>5. QED
    BY <2>1, <2>2, <2>3, <2>4 DEF At, Size
<1>3. Ends(e)'
  BY <1>1 DEF Talk, Ends
<1>4. GuestSide(e)'
  BY <1>1, <1>2 DEF Talk, GuestSide, Reading, Stages, First
<1>5. HostSide(e)'
  BY <1>1, <1>2 DEF Talk, HostSide, AtRest, Waiting, Current, Pending,
     Answered, Delivering, Over, Reading, First, Size, LengthOf, Taken, Stored
<1>6. QED
  BY <1>3, <1>4, <1>5 DEF Talk

\* The end of the daemon's process ends all conversations.
LEMMA EndOfTalks ==
  ASSUME Inv, NEW e \in Calls, ProcessEnds, UNCHANGED <<hostVars, hostEnd>>,
         guestEnd[e] = "none" => toGuest'[e] = toGuest[e]
  PROVE  Talk(e)'
<1>1. Talk(e)
  BY DEF Inv, Conversation
<1>2. guestEnd'[e] = (IF guestEnd[e] = "none" THEN "none" ELSE "closed")
      /\ toHost' = toHost
  BY DEF ProcessEnds
<1>3. Ends(e)'
  BY <1>1, <1>2 DEF Talk, Ends, Upload, hostVars
<1>4. GuestSide(e)'
  BY <1>2 DEF GuestSide, Reading
<1>5. ASSUME hostEnd[e] = "open"
      PROVE  guestEnd'[e] = "closed" /\ ~Reading(e)'
  BY <1>1, <1>2, <1>5 DEF Talk, Ends, Reading
<1>6. ASSUME hostEnd[e] = "open", pc[e] \in Sending
      PROVE  AtRest(e)'
  BY <1>1, <1>2, <1>5, <1>6 DEF Talk, HostSide, AtRest
<1>7. ASSUME hostEnd[e] = "open", Waiting(e)
      PROVE  Over(e, Current(e))'
  <2>1. Current(e)' = Current(e)
    BY DEF Current, hostVars
  <2>2. Pending(e, Current(e)) \/ Answered(e, Current(e))
          \/ Delivering(e, Current(e)) \/ Over(e, Current(e))
    BY <1>1, <1>7 DEF Talk, HostSide
  <2>3. \/ toHost[e] = <<>>
        \/ Current(e) = "get" /\ StartsWithReply(toHost[e])
        \/ \E r \in Results : toHost[e] = Reply(r, 0)
    BY <2>2 DEF Pending, Answered, Delivering, Over, Results
  <2>4. QED
    BY <1>2, <1>5, <1>7, <2>1, <2>3 DEF Over
<1>8. HostSide(e)'
  BY <1>6, <1>7 DEF HostSide, Waiting, Upload, hostVars
<1>9. QED
  BY <1>3, <1>4, <1>8 DEF Talk

\* A call that has returned leaves behind what it sent, or a part of it.
LEMMA EndOfCall ==
  ASSUME Inv, NEW c \in Calls, NEW result, NEW code,
         Return(c, result, code), hostEnd[c] = "open",
         UNCHANGED <<req, guestEnd, serverVars>>,
         code = "ERR_COPY_FILE_TO_GUEST_SRC_OPEN" => pc[c] = "source",
         Len(toGuest'[c]) \in 0..Len(toGuest[c]),
         \A i \in 1..Len(toGuest'[c]) : toGuest'[c][i] = toGuest[c][i]
  PROVE  Talk(c)'
<1>1. Talk(c)
  BY DEF Inv, Conversation
<1>2. pc'[c] = "returned" /\ hostEnd'[c] = "closed" /\ errcode'[c] = code
  BY DEF Return, Inv, TypeOK, SocketTypeOK, HostTypeOK
<1>3. Ends(c)' /\ HostSide(c)'
  BY <1>1, <1>2 DEF Talk, Ends, HostSide, Upload, serverVars
<1>4. ASSUME Reading(c)', NEW s \in Stages(c), At(c, s)
      PROVE  At(c, s)'
  <2>1. /\ Len(toGuest[c]) \in Nat /\ Len(toGuest'[c]) \in Nat
        /\ Taken(c) \in Int /\ Size(c, s) \in Int
    BY Sizes, StagesOfCall DEF Inv
  <2>2. \A t : LengthOf(c, t)' = LengthOf(c, t) /\ StringOf(c, t)' = StringOf(c, t)
    BY DEF LengthOf, StringOf
  <2>3. \A t, i : TokenOf(c, t, i)' = TokenOf(c, t, i)
    BY <2>2 DEF TokenOf
  <2>4. Taken(c)' = Taken(c) /\ \A t : Size(c, t)' = Size(c, t)
    BY <2>2 DEF Taken, Size, serverVars, loopVars
  <2>5. In(c, s)' <=> In(c, s)
    BY <2>2 DEF In, serverVars, loopVars, fileSystem, Dest
  <2>6. /\ Len(toGuest'[c]) + Taken(c) <= Size(c, s)
        /\ \A i \in 1..Len(toGuest'[c]) :
             toGuest'[c][i] = TokenOf(c, s, i + Taken(c))
    BY <1>4, <2>1 DEF At
  <2>7. CASE code # "ERR_COPY_FILE_TO_GUEST_SRC_OPEN"
    <3>1. Prepared(c, s) => Prepared(c, s)'
      BY <1>2, <2>7
         DEF Prepared, serverVars, RightTarget, KnownUser, WantedUid, Dest, Upload
    <3>2. QED
      BY <1>4, <2>1, <2>3, <2>4, <2>5, <2>6, <3>1 DEF At, serverVars
  <2>8. CASE pc[c] = "source"
    <3>1. Reading(c) /\ AtRest(c)
      BY <1>1, <1>4, <2>8 DEF Talk, HostSide, Sending, Reading, serverVars
    <3>2. toGuest[c] = <<>> /\ guestEnd[c] = "open" /\ phase = "command"
      BY <2>8, <3>1 DEF AtRest, Reading, First
    <3>3. toGuest'[c] = <<>>
      BY <3>2
    <3>4. Taken(c) = 0
      BY <3>2 DEF Taken
    <3>5. QED
      BY <2>1, <2>3, <2>4, <2>6, <3>2, <3>3, <3>4 DEF At, serverVars
  <2>9. QED
    BY <2>7, <2>8
<1>5. GuestSide(c)'
  BY <1>1, <1>4 DEF Talk, GuestSide, Reading, Stages, First, Upload, serverVars
<1>6. QED
  BY <1>3, <1>5 DEF Talk

-----------------------------------------------------------------------------
(* The steps of the engine.                                                *)

\* A request goes out: from rest to waiting for its reply.
LEMMA RequestGoesOut ==
  ASSUME Inv, NEW c \in Calls, NEW s, NEW q \in Seq(Tokens), NEW next,
         \/ pc[c] = "user"   /\ next = "user?" /\ s = "user"
         \/ pc[c] = "path"   /\ next = "path?" /\ s = "path"
         \/ pc[c] = "name"   /\ next = "name?" /\ s = "name"
         \/ pc[c] = "source" /\ next = "data"  /\ s = "copy"
         \/ pc[c] = "file"   /\ next = "file?" /\ s = "get",
         Len(q) = Size(c, s) - (IF s = "copy" THEN left'[c] ELSE 0),
         s = "copy" => left'[c] \in 0..req[c].size,
         \A i \in 1..Len(q) : q[i] = TokenOf(c, s, i),
         toGuest' = Sent(c, q), Goto(c, next),
         UNCHANGED <<req, guestEnd, toHost, serverVars>>
  PROVE  Talk(c)'
<1>1. Talk(c)
  BY DEF Inv, Conversation
<1>2. /\ hostEnd[c] = "open" /\ AtRest(c) /\ s \in Stages(c)
      /\ s \in {"user", "path", "name", "copy", "get"}
      /\ errcode[c] = Stale /\ ret[c] = "none"
  BY <1>1 DEF Talk, Ends, HostSide, Sending, Stages
<1>3. /\ pc'[c] = next /\ UNCHANGED <<hostEnd, ret, errcode>>
      /\ Current(c)' = s /\ Waiting(c)' /\ pc'[c] \notin Sending
  BY <1>1, <1>2 DEF Goto, Inv, TypeOK, HostTypeOK, Current, Waiting, Sending,
     Talk, Ends, Upload
<1>4. Ends(c)'
  BY <1>1, <1>2, <1>3 DEF Talk, Ends, Upload, serverVars
<1>5. CASE guestEnd[c] = "closed"
  <2>1. ~Reading(c)' /\ Over(c, s)'
    BY <1>2, <1>5 DEF Reading, AtRest, Over
  <2>2. QED
    BY <1>3, <1>4, <2>1 DEF Talk, GuestSide, HostSide
<1>6. CASE guestEnd[c] \in {"queued", "open"}
  <2>1. Reading(c) /\ Reading(c)' /\ toGuest[c] = <<>>
    <3>1. client = c => guestEnd[c] = "open"
      BY <1>6 DEF Inv, SessionInv, OneSession
    <3>2. Reading(c)
      BY <1>2, <1>6, <3>1 DEF Reading, AtRest
    <3>3. QED
      BY <1>2, <3>2 DEF Reading, AtRest, serverVars
  <2>2. <<>> \o q = q
    BY ConcatEmptySeq
  <2>3. toGuest'[c] = q
    BY <1>6, <2>1, <2>2, Sizes DEF Sent, Inv, TypeOK, StreamsTypeOK
  <2>4. Taken(c) = 0 /\ Taken(c)' = 0 /\ (client = c => phase = "command")
    <3>1. client = c => guestEnd[c] = "open"
      BY <1>6 DEF Inv, SessionInv, OneSession
    <3>2. QED
      BY <1>2, <1>6, <3>1 DEF Taken, AtRest, serverVars
  <2>5. LengthOf(c, s)' = LengthOf(c, s) /\ StringOf(c, s)' = StringOf(c, s)
    BY DEF LengthOf, StringOf
  <2>6. Size(c, s)' = Size(c, s) /\ \A i : TokenOf(c, s, i)' = TokenOf(c, s, i)
    BY <2>5 DEF Size, TokenOf
  <2>7. client = c => Prepared(c, s)'
    BY <1>1, <1>2, <1>3, <1>6
       DEF Prepared, AtRest, RightTarget, KnownUser, WantedUid, Dest, Upload, Inv,
           SessionInv, OneSession, serverVars, Stale, Talk, Ends
  <2>8. Len(q) \in Nat /\ Size(c, s) \in Nat
    BY <1>2, Sizes DEF Inv
  <2>9. At(c, s)'
    BY <2>3, <2>4, <2>6, <2>7, <2>8 DEF At, serverVars
  <2>10. guestEnd[c] = "queued" => s = First(c) /\ s = First(c)'
    BY <1>2 DEF AtRest, First, Upload
  <2>11. Pending(c, s)'
    BY <1>2, <2>1, <2>3, <2>4, <2>6, <2>8, <2>9, <2>10
       DEF Pending, AtRest, serverVars
  <2>12. GuestSide(c)'
    BY <1>2, <2>9, <2>10 DEF GuestSide, Stages, Upload
  <2>13. QED
    BY <1>3, <1>4, <2>11, <2>12 DEF Talk, HostSide
<1>7. QED
  BY <1>1, <1>2, <1>5, <1>6 DEF Talk, Ends, AtRest, Inv, TypeOK, SocketTypeOK

\* The daemon's side of a step that only moves the call.
LEMMA GuestStays ==
  ASSUME NEW c \in Calls, GuestSide(c),
         toGuest'[c] = toGuest[c], pc'[c] \in {pc[c], "data"},
         UNCHANGED <<req, errcode, guestEnd, serverVars>>
  PROVE  GuestSide(c)'
<1>1. \A t : LengthOf(c, t)' = LengthOf(c, t) /\ StringOf(c, t)' = StringOf(c, t)
  BY DEF LengthOf, StringOf
<1>2. \A t, i : TokenOf(c, t, i)' = TokenOf(c, t, i) /\ Size(c, t)' = Size(c, t)
  BY <1>1 DEF TokenOf, Size
<1>3. Taken(c)' = Taken(c)
  BY DEF Taken, serverVars, loopVars
<1>4. \A t : (In(c, t)' <=> In(c, t)) /\ (Prepared(c, t) => Prepared(c, t)')
  BY <1>1 DEF In, Prepared, serverVars, loopVars, fileSystem, RightTarget,
              KnownUser, WantedUid, Dest, Upload
<1>5. \A t : At(c, t) => At(c, t)'
  BY <1>2, <1>3, <1>4 DEF At, serverVars
<1>6. QED
  BY <1>5 DEF GuestSide, Reading, Stages, First, Upload, serverVars

\* The reply to a request is OK: the engine goes on.
LEMMA ReplyIsOK ==
  ASSUME Inv, NEW c \in Calls, NEW next,
         \/ pc[c] = "user?" /\ next = "path"
         \/ pc[c] = "path?" /\ next = (IF Upload(c) THEN "name" ELSE "dest")
         \/ pc[c] = "name?" /\ next = "source"
         \/ pc[c] = "file?" /\ next = "data",
         GetCommandResult(c), ReplyResult(c) = "OK", Goto(c, next),
         UNCHANGED <<req, guestEnd, toGuest, serverVars>>
  PROVE  Talk(c)'
<1>1. Talk(c) /\ toHost[c] # <<>>
  BY DEF Inv, Conversation, GetCommandResult
<1>2. /\ pc'[c] = next /\ UNCHANGED <<hostEnd, ret, errcode>>
      /\ hostEnd[c] = "open" /\ Waiting(c)
      /\ errcode[c] = Stale /\ ret[c] = "none"
  BY <1>1 DEF Goto, Inv, TypeOK, HostTypeOK, Waiting, Talk, Ends
<1>3. Ends(c)'
  BY <1>1, <1>2 DEF Talk, Ends, Upload, serverVars
<1>4. CASE pc[c] = "file?"
  <2>1. GuestSide(c)'
    BY <1>1, <1>2, <1>4, GuestStays DEF Talk
  <2>2. HostSide(c)'
    BY <1>1, <1>2, <1>4 DEF HostSide, Sending, Waiting, Talk, Ends, Upload
  <2>3. QED
    BY <1>3, <2>1, <2>2 DEF Talk
<1>5. CASE pc[c] # "file?"
  <2> DEFINE s == Current(c)
  <2>1. s \in {"user", "path", "name"}
    BY <1>2, <1>5 DEF Current
  <2>2. Answered(c, s) \/ Over(c, s)
    BY <1>1, <1>2, <2>1 DEF Talk, HostSide, Pending, Delivering
  <2>3. toHost[c] = Reply("OK", 0) /\ guestEnd[c] \in {"open", "closed"}
    <3>1. PICK r \in Results : /\ toHost[c] = Reply(r, 0)
                               /\ guestEnd[c] = "deaf" => r # "OK"
      BY <1>1, <2>1, <2>2 DEF Answered, Over, Results
    <3>2. r = "OK"
      BY <3>1, ReplyTokens DEF ReplyResult
    <3>3. QED
      BY <2>2, <3>1, <3>2 DEF Answered, Over
  <2>4. toHost'[c] = <<>>
    <3>1. toHost'[c] = SubSeq(toHost[c], 3, Len(toHost[c]))
      BY DEF GetCommandResult, Inv, TypeOK, StreamsTypeOK
    <3>2. Len(Reply("OK", 0)) = 2 /\ SubSeq(Reply("OK", 0), 3, 2) = <<>>
      BY ReplyTokens DEF Results
    <3>3. QED
      BY <2>3, <3>1, <3>2, Zenon
  <2>5. AtRest(c)'
    <3>1. CASE guestEnd[c] = "closed"
      BY <2>4, <3>1 DEF AtRest, Reading
    <3>2. CASE guestEnd[c] = "open"
      <4>1. Answered(c, s)
        BY <2>2, <3>2 DEF Over
      <4>2. QED
        BY <1>1, <1>2, <1>5, <2>4, <3>2, <4>1
           DEF AtRest, Answered, Reading, Current, RightTarget, KnownUser,
               WantedUid, Dest, Upload, Talk, Ends, serverVars
    <3>3. QED
      BY <2>3, <3>1, <3>2
  <2>6. GuestSide(c)'
    <3>1. CASE guestEnd[c] = "closed"
      BY <3>1 DEF GuestSide, Reading
    <3>2. CASE guestEnd[c] = "open"
      <4>1. /\ toGuest'[c] = <<>> /\ phase' = "command" /\ Taken(c)' = 0
        BY <2>2, <3>2 DEF Answered, Over, Taken, serverVars
      <4>2. First(c)' \in Stages(c)' /\ Size(c, First(c))' \in Nat
        <5>1. First(c) \in Stages(c) /\ Size(c, First(c)) \in Nat
          BY Sizes DEF First, Stages, Inv
        <5>2. QED
          BY <5>1 DEF First, Stages, Upload, Size, LengthOf
      <4>3. At(c, First(c))'
        BY <4>1, <4>2 DEF At
      <4>4. QED
        BY <3>2, <4>2, <4>3 DEF GuestSide
    <3>3. QED
      BY <2>3, <3>1, <3>2
  <2>7. HostSide(c)'
    BY <1>2, <1>5, <2>5 DEF HostSide, Waiting
  <2>8. QED
    BY <1>3, <2>6, <2>7 DEF Talk
<1>6. QED
  BY <1>4, <1>5

LEMMA BlockToken ==
  ASSUME NEW c, NEW i \in Int, i # 1, i # 2
  PROVE  TokenOf(c, "copy", i) = Block(c, i - 2)
  BY DEF TokenOf

LEMMA OneMore ==
  ASSUME NEW l \in Nat, NEW t \in Int, NEW z \in Nat, NEW f \in Nat,
         l + t = 2 + z - f, f <= z, f > 0
  PROVE  /\ f - 1 <= z /\ f - 1 \in Nat /\ z - f + 1 \in Nat
         /\ \E i \in Int : /\ i = l + 1 + t /\ i # 1 /\ i # 2
                           /\ i <= 2 + z /\ i - 2 = z - f + 1
                           /\ i = 2 + z - (f - 1)
  OBVIOUS

\* A block of an upload goes out.
LEMMA BlockGoesOut ==
  ASSUME Inv, NEW c \in Calls, pc[c] = "data", Upload(c), left[c] > 0,
         toGuest' = Sent(c, <<Block(c, req[c].size - left[c] + 1)>>),
         left'[c] = left[c] - 1, Goto(c, "data"),
         UNCHANGED <<req, guestEnd, toHost, serverVars>>
  PROVE  Talk(c)'
<1> DEFINE b == Block(c, req[c].size - left[c] + 1)
<1>1. Talk(c)
  BY DEF Inv, Conversation
<1>2. /\ hostEnd[c] = "open" /\ Waiting(c) /\ Current(c) = "copy"
      /\ UNCHANGED <<pc, hostEnd, ret, errcode>> /\ left[c] \in Nat
  BY <1>1 DEF Goto, Inv, TypeOK, HostTypeOK, Waiting, Current, Talk, Ends
<1>3. req[c].size \in Nat /\ left[c] <= req[c].size
  BY <1>1, Sizes DEF Inv, Talk, Ends
<1>4. Ends(c)'
  <2>1. left'[c] <= req'[c].size
    BY <1>2, <1>3
  <2>2. QED
    BY <1>1, <1>2, <2>1 DEF Talk, Ends, Upload, serverVars
<1>5. CASE Over(c, "copy")
  BY <1>2, <1>4, <1>5
     DEF Over, Talk, GuestSide, HostSide, Reading, Waiting, Current, Sending
<1>6. CASE Pending(c, "copy")
  <2>1. /\ toGuest[c] \in Seq(Tokens) /\ Taken(c) \in Int /\ req[c].size \in Nat
        /\ Size(c, "copy") = 2 + req[c].size /\ Len(toGuest[c]) \in Nat
    BY Sizes DEF Inv, Size, LengthOf
  <2>2. toGuest'[c] = Append(toGuest[c], b)
    BY <1>6, <2>1, AppendIsConcat
       DEF Pending, Reading, Sent, Inv, TypeOK, StreamsTypeOK
  <2>3. /\ Len(toGuest[c]) + Taken(c) = 2 + req[c].size - left[c]
        /\ left[c] <= req[c].size /\ At(c, "copy") /\ Reading(c)
    BY <1>2, <1>6, <1>3, <2>1 DEF Pending
  <2> DEFINE l == Len(toGuest[c])
             t == Taken(c)
             z == req[c].size
             f == left[c]
  <2>4. /\ f - 1 <= z /\ f - 1 \in Nat /\ z - f + 1 \in Nat
        /\ \E i \in Int : /\ i = l + 1 + t /\ i # 1 /\ i # 2
                          /\ i <= 2 + z /\ i - 2 = z - f + 1
                          /\ i = 2 + z - (f - 1)
    <3>1. l \in Nat /\ t \in Int /\ z \in Nat /\ f \in Nat
      BY <1>2, <2>1
    <3>2. l + t = 2 + z - f /\ f <= z /\ f > 0
      BY <2>3
    <3> HIDE DEF l, t, z, f
    <3>3. QED
      BY <3>1, <3>2, OneMore
  <2>5. /\ Len(toGuest'[c]) = l + 1
        /\ toGuest'[c][l + 1] = b
        /\ \A i \in 1..l : toGuest'[c][i] = toGuest[c][i]
    <3>1. b \in Tokens
      BY <2>4 DEF Block, Tokens, BlockTokens
    <3>2. ASSUME NEW q \in Seq(Tokens), NEW e \in Tokens
          PROVE  /\ Len(Append(q, e)) = Len(q) + 1
                 /\ Append(q, e)[Len(q) + 1] = e
                 /\ \A i \in 1..Len(q) : Append(q, e)[i] = q[i]
      OBVIOUS
    <3>3. /\ Len(Append(toGuest[c], b)) = l + 1
          /\ Append(toGuest[c], b)[l + 1] = b
          /\ \A i \in 1..l : Append(toGuest[c], b)[i] = toGuest[c][i]
      BY <2>1, <3>1, <3>2, Zenon
    <3>4. QED
      BY <2>2, <3>3, Zenon
  <2>6. b = TokenOf(c, "copy", l + 1 + t)
    <3>1. PICK i \in Int : i = l + 1 + t /\ i # 1 /\ i # 2 /\ i - 2 = z - f + 1
      BY <2>4, Zenon
    <3>2. TokenOf(c, "copy", i) = Block(c, i - 2)
      BY <3>1, BlockToken
    <3>3. QED
      BY <3>1, <3>2, Zenon
  <2>7. \A i : TokenOf(c, "copy", i)' = TokenOf(c, "copy", i)
    BY DEF TokenOf, LengthOf
  <2>8. Taken(c)' = Taken(c) /\ Size(c, "copy")' = Size(c, "copy")
    BY DEF Taken, Size, LengthOf, serverVars, loopVars
  <2>9. In(c, "copy")' <=> In(c, "copy")
    BY DEF In, LengthOf, serverVars, loopVars, fileSystem, Dest
  <2>10. client = c => Prepared(c, "copy")'
    <3>1. client = c /\ phase = "command" => toGuest[c] # <<>>
      BY <1>2, <2>1, <2>3 DEF Taken
    <3>2. client = c => Prepared(c, "copy")
      BY <2>3, <3>1 DEF At
    <3>3. QED
      BY <1>2, <3>2 DEF Prepared, RightTarget, KnownUser, WantedUid, Dest,
                        Upload, serverVars
  <2>11. At(c, "copy")'
    <3>1. Len(toGuest'[c]) + Taken(c) <= Size(c, "copy")
      BY <2>1, <2>4, <2>5, Zenon
    <3>2. ASSUME NEW i \in 1..Len(toGuest'[c])
          PROVE  toGuest'[c][i] = TokenOf(c, "copy", i + Taken(c))
      <4>1. CASE i \in 1..Len(toGuest[c])
        BY <2>3, <2>5, <4>1 DEF At
      <4>2. CASE i = Len(toGuest[c]) + 1
        BY <2>5, <2>6, <4>2
      <4>3. QED
        BY <2>1, <2>5, <4>1, <4>2
    <3>3. client = c /\ phase # "command" => In(c, "copy")
      BY <2>3 DEF At
    <3>4. QED
      BY <2>7, <2>8, <2>9, <2>10, <3>1, <3>2, <3>3 DEF At, serverVars
  <2>12. Pending(c, "copy")'
    <3>1. Len(toGuest'[c]) + t = 2 + (z - left'[c])
      BY <2>4, <2>5, Zenon
    <3>2. Taken(c)' = t /\ Size(c, "copy")' = 2 + z
      BY <2>1, <2>8, Zenon
    <3>3. PICK m \in Int : m = left'[c]
      BY <1>2
    <3> HIDE DEF l, t, z, f, b
    <3>4. 2 + (z - m) = (2 + z) - m
      BY <1>3, <3>3 DEF z
    <3>5. Len(toGuest'[c]) + Taken(c)' = Size(c, "copy")' - left'[c]
      BY <3>1, <3>2, <3>3, <3>4, Zenon
    <3>6. QED
      BY <1>6, <2>11, <3>5 DEF Pending, Reading, First, Upload, serverVars
  <2>13. GuestSide(c)'
    BY <1>6, <2>11 DEF GuestSide, Stages, Pending, First, Upload
  <2>14. QED
    BY <1>2, <1>4, <2>12, <2>13 DEF Talk, HostSide, Waiting, Current, Sending
<1>7. QED
  BY <1>1, <1>2, <1>5, <1>6 DEF Talk, HostSide, Answered, Delivering

\* A step that fails, or returns, with the connection open.
LEMMA CallFails ==
  ASSUME Inv, NEW c \in Calls, NEW code, hostEnd[c] = "open",
         Fail(c, code), UNCHANGED <<req, guestEnd, toGuest, serverVars>>,
         code = "ERR_COPY_FILE_TO_GUEST_SRC_OPEN" => pc[c] = "source"
  PROVE  Talk(c)'
<1>1. Len(toGuest[c]) \in 0..Len(toGuest[c])
  BY Sizes DEF Inv
<1>2. QED
  BY <1>1, EndOfCall DEF Fail

LEMMA CallSucceeds ==
  ASSUME Inv, NEW c \in Calls, hostEnd[c] = "open",
         Succeed(c), UNCHANGED <<req, guestEnd, toGuest, serverVars>>
  PROVE  Talk(c)'
<1>1. Talk(c) /\ Len(toGuest[c]) \in 0..Len(toGuest[c])
  BY Sizes DEF Inv, Conversation
<1>2. errcode[c] = Stale
  BY <1>1 DEF Talk, Ends
<1>3. QED
  BY <1>1, <1>2, EndOfCall, CallFails DEF Succeed, Stale

\* A call waits in vain for a reply, or gets another one than OK.
LEMMA CallRefused ==
  ASSUME Inv, NEW c \in Calls, hostEnd[c] = "open", NEW code,
         Fail(c, code) \/ NoCommandResult(c),
         UNCHANGED <<req, guestEnd, toGuest, serverVars>>,
         code # "ERR_COPY_FILE_TO_GUEST_SRC_OPEN"
  PROVE  Talk(c)'
  BY CallFails DEF NoCommandResult

LEMMA HostTalk ==
  ASSUME Inv, NEW c \in Calls, Host(c)
  PROVE  Talk(c)'
<1> USE DEF Host
<1>0. Talk(c) /\ req[c] \in Requests
  BY DEF Inv, Conversation, TypeOK, HostTypeOK
<1>1. CASE Connect(c, Listening)
  <2>1. /\ hostEnd[c] = "none" /\ guestEnd[c] = "none" /\ toGuest[c] = <<>>
        /\ toHost[c] = <<>> /\ errcode[c] = Stale /\ ret[c] = "none"
    BY <1>0, <1>1 DEF Connect, Talk, Ends
  <2>2. CASE UNCHANGED guestEnd /\ pc'[c] = "returned" /\ hostEnd'[c] = "none"
    BY <1>1, <2>1, <2>2
       DEF Connect, Talk, Ends, GuestSide, HostSide, Reading, Upload, Sending, Waiting
  <2>3. CASE /\ pc'[c] = First(c) /\ hostEnd'[c] = "open"
             /\ guestEnd'[c] = "queued" /\ UNCHANGED <<ret, errcode>>
    <3>1. client # c /\ UNCHANGED <<req, toGuest, toHost, serverVars>>
      BY <1>1, <2>1 DEF Connect, Inv, SessionInv, OneSession
    <3>2. Ends(c)' /\ First(c)' = First(c)
      BY <2>1, <2>3, <3>1 DEF Ends, First, Upload, serverVars
    <3>3. AtRest(c)' /\ ~Waiting(c)'
      BY <2>1, <2>3, <3>1, <3>2 DEF AtRest, Waiting, First
    <3>4. First(c)' \in Stages(c)' /\ Size(c, First(c))' \in Nat
      <4>1. First(c) \in Stages(c) /\ Size(c, First(c)) \in Nat
        BY Sizes DEF First, Stages, Inv
      <4>2. QED
        BY <3>1, <4>1 DEF First, Stages, Upload, Size, LengthOf
    <3>5. At(c, First(c))'
      BY <2>1, <3>1, <3>4 DEF At, Taken, serverVars
    <3>6. QED
      BY <2>3, <3>2, <3>3, <3>4, <3>5 DEF Talk, GuestSide, HostSide
  <2>4. QED
    BY <1>1, <2>1, <2>2, <2>3
       DEF Connect, Fail, Return, First, Inv, TypeOK, SocketTypeOK, HostTypeOK
<1>2. CASE SendUser(c)
  <2>1. hostEnd[c] = "open" /\ Upload(c)
    BY <1>0, <1>2 DEF SendUser, Talk, Ends
  <2> DEFINE q == Header("SET_USER", UserLength(req[c].user))
                      \o Units(req[c].user, UserLength(req[c].user))
  <2>3. q \in Seq(Tokens) /\ Len(q) = Size(c, "user")
        /\ \A i \in 1..Len(q) : q[i] = TokenOf(c, "user", i)
    BY RequestTokens DEF CommandOf, LengthOf, StringOf, Inv
  <2>4. CASE toGuest' = Sent(c, q) /\ Goto(c, "user?")
    <3> HIDE DEF q
    <3>1. QED
      BY <1>2, <2>3, <2>4, RequestGoesOut, Sizes, SMTT(30) DEF SendUser, Inv
  <2>5. CASE Fail(c, "ERR_SEND_DATA") /\ UNCHANGED toGuest
    BY <1>2, <2>1, <2>5, CallFails DEF SendUser
  <2>6. QED
    BY <1>2, <2>4, <2>5 DEF SendUser, SendData
<1>3. CASE AwaitUser(c)
  <2>1. hostEnd[c] = "open" /\ errcode[c] = Stale
    BY <1>0, <1>3 DEF AwaitUser, Talk, Ends
  <2>2. QED
    BY <1>3, <2>1, CallRefused, ReplyIsOK DEF AwaitUser, AwaitReply, Stale
<1>4. CASE SendPath(c)
  <2>1. hostEnd[c] = "open"
    BY <1>0, <1>4 DEF SendPath, Talk, Ends
  <2> DEFINE q == Header("SET_REMOTE_PATH", PathUnits(req[c].rpath))
                      \o Units(req[c].rpath, PathUnits(req[c].rpath))
  <2>3. q \in Seq(Tokens) /\ Len(q) = Size(c, "path")
        /\ \A i \in 1..Len(q) : q[i] = TokenOf(c, "path", i)
    BY RequestTokens DEF CommandOf, LengthOf, StringOf, Inv
  <2>4. CASE toGuest' = Sent(c, q) /\ Goto(c, "path?")
    <3> HIDE DEF q
    <3>1. QED
      BY <1>4, <2>3, <2>4, RequestGoesOut, Sizes, SMTT(30) DEF SendPath, Inv
  <2>5. CASE Fail(c, "ERR_SEND_DATA") /\ UNCHANGED toGuest
    BY <1>4, <2>1, <2>5, CallFails DEF SendPath
  <2>6. QED
    BY <1>4, <2>4, <2>5 DEF SendPath, SendData
<1>5. CASE AwaitPath(c)
  <2>1. hostEnd[c] = "open"
    BY <1>0, <1>5 DEF AwaitPath, Talk, Ends
  <2>2. QED
    BY <1>5, <2>1, CallRefused, ReplyIsOK DEF AwaitPath, AwaitReply
<1>6. CASE SendName(c)
  <2>1. hostEnd[c] = "open" /\ Upload(c)
    BY <1>0, <1>6 DEF SendName, Talk, Ends
  <2> DEFINE q == Header("SET_FILE_NAME", 1)
                      \o Units(req[c].name, 1)
  <2>3. q \in Seq(Tokens) /\ Len(q) = Size(c, "name")
        /\ \A i \in 1..Len(q) : q[i] = TokenOf(c, "name", i)
    BY RequestTokens DEF CommandOf, LengthOf, StringOf, Inv
  <2>4. CASE toGuest' = Sent(c, q) /\ Goto(c, "name?")
    <3> HIDE DEF q
    <3>1. QED
      BY <1>6, <2>3, <2>4, RequestGoesOut, Sizes, SMTT(30) DEF SendName, Inv
  <2>5. CASE Fail(c, "ERR_SEND_DATA") /\ UNCHANGED toGuest
    BY <1>6, <2>1, <2>5, CallFails DEF SendName
  <2>6. QED
    BY <1>6, <2>4, <2>5 DEF SendName, SendData
<1>7. CASE AwaitName(c)
  <2>1. hostEnd[c] = "open"
    BY <1>0, <1>7 DEF AwaitName, Talk, Ends
  <2>2. QED
    BY <1>7, <2>1, CallRefused, ReplyIsOK DEF AwaitName, AwaitReply
<1>8. CASE OpenSource(c)
  <2>1. hostEnd[c] = "open" /\ Upload(c)
    BY <1>0, <1>8 DEF OpenSource, Talk, Ends
  <2> DEFINE q == Header("COPY_FILE_TO_GUEST", req[c].size)
  <2>2. q \in Seq(Tokens) /\ Len(q) = 2 /\ Size(c, "copy") = 2 + req[c].size
        /\ \A i \in 1..Len(q) : q[i] = TokenOf(c, "copy", i)
    BY HeaderTokens DEF CommandOf, LengthOf, Inv
  <2>3. req[c].size \in Nat
    BY <1>0, RequestsAssumption
  <2> HIDE DEF q
  <2>4. CASE toGuest' = Sent(c, q) /\ Goto(c, "data") /\ left'[c] = req[c].size
    <3>1. Len(q) = Size(c, "copy") - left'[c] /\ left'[c] \in 0..req[c].size
      BY <2>2, <2>3, <2>4
    <3>2. QED
      BY <1>8, <2>2, <2>4, <3>1, RequestGoesOut DEF OpenSource
  <2>5. CASE UNCHANGED toGuest
               /\ \/ Fail(c, "ERR_COPY_FILE_TO_GUEST")
                  \/ Fail(c, "ERR_COPY_FILE_TO_GUEST_SRC_OPEN")
    BY <1>8, <2>1, <2>5, CallFails DEF OpenSource
  <2>6. left \in [Calls -> Nat]
    BY DEF Inv, TypeOK, HostTypeOK
  <2>7. QED
    BY <1>8, <2>4, <2>5, <2>6 DEF OpenSource, SendData, q
<1>9. CASE TransmitBlock(c)
  <2>1. hostEnd[c] = "open" /\ left \in [Calls -> Nat]
    BY <1>0, <1>9 DEF TransmitBlock, Talk, Ends, Inv, TypeOK, HostTypeOK
  <2>2. CASE Fail(c, "ERR_COPY_FILE_TO_GUEST") /\ UNCHANGED toGuest
    BY <1>9, <2>1, <2>2, CallFails DEF TransmitBlock
  <2>3. CASE /\ toGuest' = Sent(c, <<Block(c, req[c].size - left[c] + 1)>>)
             /\ Goto(c, "data") /\ left' = [left EXCEPT ![c] = @ - 1]
    BY <1>9, <2>1, <2>3, BlockGoesOut DEF TransmitBlock
  <2>4. QED
    BY <1>9, <2>2, <2>3 DEF TransmitBlock, SendData
<1>10. CASE AwaitCopy(c)
  <2>1. hostEnd[c] = "open"
    BY <1>0, <1>10 DEF AwaitCopy, Talk, Ends
  <2>2. QED
    BY <1>10, <2>1, CallRefused, CallSucceeds DEF AwaitCopy
<1>11. CASE OpenDest(c)
  <2>1. /\ hostEnd[c] = "open" /\ ~Upload(c) /\ AtRest(c)
        /\ pc'[c] = "file" /\ UNCHANGED <<ret, errcode, hostEnd>>
        /\ ~Waiting(c)'
    BY <1>0, <1>11 DEF OpenDest, Goto, Talk, Ends, HostSide, Sending, Waiting,
       Inv, TypeOK, HostTypeOK
  <2>2. Ends(c)'
    BY <1>0, <1>11, <2>1 DEF OpenDest, Talk, Ends, Upload, serverVars
  <2>3. AtRest(c)'
    BY <1>11, <2>1
       DEF OpenDest, AtRest, Reading, First, Upload, serverVars
  <2>4. CASE guestEnd[c] = "closed"
    BY <1>11, <2>1, <2>2, <2>3, <2>4 DEF OpenDest, Talk, GuestSide, HostSide, Reading
  <2>5. CASE guestEnd[c] = "open"
    <3>1. toGuest'[c] = <<>> /\ phase' = "command" /\ Taken(c)' = 0
      BY <1>11, <2>1, <2>5 DEF OpenDest, AtRest, Reading, Taken, serverVars
    <3>2. "get" \in Stages(c)' /\ Size(c, "get")' \in Nat
      BY <1>11, <2>1 DEF OpenDest, Stages, Upload, Size, LengthOf
    <3>3. At(c, "get")'
      BY <3>1, <3>2 DEF At
    <3>4. GuestSide(c)'
      BY <1>11, <2>5, <3>2, <3>3 DEF GuestSide, OpenDest
    <3>5. QED
      BY <2>1, <2>2, <2>3, <3>4 DEF Talk, HostSide
  <2>6. QED
    BY <1>0, <1>11, <2>1, <2>4, <2>5
       DEF OpenDest, Talk, Ends, AtRest, First, Inv, TypeOK, SocketTypeOK
<1>12. CASE SendGet(c)
  <2>1. hostEnd[c] = "open"
    BY <1>0, <1>12 DEF SendGet, Talk, Ends
  <2> DEFINE q == Header("COPY_FILE_FROM_GUEST", 0)
  <2>2. q \in Seq(Tokens) /\ Len(q) = 2 /\ Size(c, "get") = 2
        /\ \A i \in 1..Len(q) : q[i] = TokenOf(c, "get", i)
    BY HeaderTokens DEF CommandOf, LengthOf, Inv
  <2>4. CASE toGuest' = Sent(c, q) /\ Goto(c, "file?")
    <3> HIDE DEF q
    <3>1. Len(q) = Size(c, "get") - 0
      BY <2>2
    <3>2. pc[c] = "file" /\ UNCHANGED <<req, guestEnd, toHost, serverVars>>
      BY <1>12 DEF SendGet
    <3>3. QED
      BY <2>2, <2>4, <3>1, <3>2, RequestGoesOut
  <2>5. CASE Fail(c, "ERR_SEND_DATA") /\ UNCHANGED toGuest
    BY <1>12, <2>1, <2>5, CallFails DEF SendGet
  <2>6. QED
    BY <1>12, <2>4, <2>5 DEF SendGet, SendData
<1>13. CASE AwaitFile(c)
  <2>1. hostEnd[c] = "open"
    BY <1>0, <1>13 DEF AwaitFile, Talk, Ends
  <2>2. QED
    BY <1>13, <2>1, CallRefused, ReplyIsOK DEF AwaitFile, AwaitReply
<1>14. CASE ReceiveBlock(c)
  <2>1. hostEnd[c] = "open" /\ pc[c] = "data" /\ ~Upload(c)
    BY <1>0, <1>14 DEF ReceiveBlock, Talk, Ends
  <2>2. CASE Goto(c, "data")
    <3>1. UNCHANGED <<pc, hostEnd, ret, errcode>>
      BY <2>1, <2>2 DEF Goto, Inv, TypeOK, HostTypeOK
    <3>2. Ends(c)' /\ HostSide(c)'
      BY <1>0, <1>14, <2>1, <3>1
         DEF ReceiveBlock, Talk, Ends, HostSide, Waiting, Sending, Upload, serverVars
    <3>3. GuestSide(c)'
      BY <1>0, <1>14, <2>1, <3>1, GuestStays DEF ReceiveBlock, Talk
    <3>4. QED
      BY <3>2, <3>3 DEF Talk
  <2>3. CASE Succeed(c) \/ Fail(c, "ERR_COPY_FILE_FROM_GUEST_WRITE_FILE")
               \/ Fail(c, "ERR_COPY_FILE_FROM_GUEST")
    BY <1>14, <2>1, <2>3, CallFails, CallSucceeds DEF ReceiveBlock
  <2>4. QED
    BY <1>14, <2>2, <2>3 DEF ReceiveBlock
<1>15. CASE ReceiveDone(c)
  <2>1. hostEnd[c] = "open"
    BY <1>0, <1>15 DEF ReceiveDone, Talk, Ends
  <2>2. QED
    BY <1>15, <2>1, CallSucceeds DEF ReceiveDone
<1>16. QED
  BY <1>1, <1>2, <1>3, <1>4, <1>5, <1>6, <1>7, <1>8, <1>9, <1>10, <1>11,
     <1>12, <1>13, <1>14, <1>15 DEF HostStep

\* A step of a call touches no other call.
LEMMA HostUntouched ==
  ASSUME Inv, NEW c \in Calls, Host(c), NEW e \in Calls, e # c
  PROVE  /\ req'[e] = req[e] /\ pc'[e] = pc[e] /\ ret'[e] = ret[e]
         /\ errcode'[e] = errcode[e] /\ left'[e] = left[e]
         /\ hostEnd'[e] = hostEnd[e] /\ guestEnd'[e] = guestEnd[e]
         /\ toGuest'[e] = toGuest[e] /\ toHost'[e] = toHost[e]
<1> USE DEF Host, Fail, Succeed, Return, Goto, SendData, AwaitReply, Sent,
            GetCommandResult, NoCommandResult, Inv, TypeOK, SocketTypeOK,
            StreamsTypeOK, HostTypeOK
<1>1. CASE Connect(c, Listening)
  BY <1>1 DEF Connect
<1>2. CASE SendUser(c)
  BY <1>2 DEF SendUser
<1>3. CASE AwaitUser(c)
  BY <1>3 DEF AwaitUser
<1>4. CASE SendPath(c)
  BY <1>4 DEF SendPath
<1>5. CASE AwaitPath(c)
  BY <1>5 DEF AwaitPath
<1>6. CASE SendName(c)
  BY <1>6 DEF SendName
<1>7. CASE AwaitName(c)
  BY <1>7 DEF AwaitName
<1>8. CASE OpenSource(c)
  BY <1>8 DEF OpenSource
<1>9. CASE TransmitBlock(c)
  BY <1>9 DEF TransmitBlock
<1>10. CASE AwaitCopy(c)
  BY <1>10 DEF AwaitCopy
<1>11. CASE OpenDest(c)
  BY <1>11 DEF OpenDest
<1>12. CASE SendGet(c)
  BY <1>12 DEF SendGet
<1>13. CASE AwaitFile(c)
  BY <1>13 DEF AwaitFile
<1>14. CASE ReceiveBlock(c)
  BY <1>14 DEF ReceiveBlock
<1>15. CASE ReceiveDone(c)
  BY <1>15 DEF ReceiveDone
<1>16. QED
  BY <1>1, <1>2, <1>3, <1>4, <1>5, <1>6, <1>7, <1>8, <1>9, <1>10, <1>11,
     <1>12, <1>13, <1>14, <1>15 DEF HostStep

LEMMA HostConversation ==
  ASSUME Inv, NEW c \in Calls, Host(c)
  PROVE  Conversation'
<1>1. ASSUME NEW e \in Calls, e # c
      PROVE  Talk(e)'
  BY <1>1, HostUntouched, OtherThread
     DEF Host, Inv, Conversation, serverVars, loopVars, fileSystem
<1>2. QED
  BY <1>1, HostTalk DEF Conversation

\* The death of the caller.
LEMMA KillConversation ==
  ASSUME Inv, NEW c \in Calls, Kill(c), UNCHANGED serverVars
  PROVE  Conversation'
<1>1. PICK n \in 0..Len(toGuest[c]) :
             toGuest' = [toGuest EXCEPT ![c] = SubSeq(@, 1, n)]
  BY DEF Kill
<1>2. toGuest[c] \in Seq(Tokens) /\ toGuest'[c] = SubSeq(toGuest[c], 1, n)
  BY <1>1 DEF Inv, TypeOK, StreamsTypeOK
<1>3. Len(toGuest'[c]) = n /\ \A i \in 1..n : toGuest'[c][i] = toGuest[c][i]
  BY <1>2
<1>4. errcode[c] = Stale
  BY DEF Kill, Inv, Conversation, Talk, Ends
<1>5. Talk(c)'
  BY <1>2, <1>3, <1>4, EndOfCall DEF Kill, Stale
<1>6. ASSUME NEW e \in Calls, e # c
      PROVE  Talk(e)'
  BY <1>1, <1>6, OtherThread
     DEF Kill, Return, Inv, Conversation, TypeOK, SocketTypeOK, StreamsTypeOK,
         HostTypeOK, serverVars, loopVars, fileSystem
<1>7. QED
  BY <1>5, <1>6 DEF Conversation

-----------------------------------------------------------------------------
(* The steps of the daemon.                                                *)

\* What holds while the daemon is at work on a request.
LEMMA AtWork ==
  ASSUME Inv, NEW c \in Calls, client = c, phase \notin {"command", "close"}
  PROVE  /\ guestEnd[c] = "open" /\ Reading(c) /\ Talk(c)
         /\ phase \in HandledCommands \cup {"length", "recv", "send"}
         /\ \E s \in Stages(c) : At(c, s) /\ In(c, s) /\ Prepared(c, s)
<1>1. Talk(c) /\ guestEnd[c] \in {"open", "deaf"} /\ c # NoClient
  BY NoneAssumption DEF Inv, Conversation, SessionInv, OneSession
<1>2. guestEnd[c] = "open" /\ Reading(c)
  BY <1>1 DEF Talk, Ends, Reading
<1>3. phase \in HandledCommands \cup {"length", "recv", "send"}
  BY <1>1 DEF Inv, SessionInv, OneSession, Phases
<1>4. \E s \in Stages(c) : At(c, s) /\ In(c, s) /\ Prepared(c, s)
  BY <1>1, <1>2 DEF Talk, GuestSide, At
<1>5. QED
  BY <1>1, <1>2, <1>3, <1>4

\* While it is, the engine waits for the reply to this request.
LEMMA EngineWaits ==
  ASSUME Inv, NEW c \in Calls, client = c, guestEnd[c] = "open",
         hostEnd[c] = "open",
         toGuest[c] # <<>> \/ phase \notin {"command", "send"}
  PROVE  /\ pc[c] \notin Sending
         /\ Waiting(c) => /\ Pending(c, Current(c)) /\ Current(c) \in Stages(c)
<1>1. Talk(c)
  BY DEF Inv, Conversation
<1>2. pc[c] \notin Sending
  BY <1>1 DEF Talk, HostSide, AtRest, Reading
<1>3. ASSUME Waiting(c)
      PROVE  Pending(c, Current(c)) /\ Current(c) \in Stages(c)
  <2>1. Pending(c, Current(c))
    BY <1>1, <1>3 DEF Talk, HostSide, Answered, Delivering, Over
  <2>2. Current(c) \in Stages(c)
    BY <1>1, <1>3 DEF Current, Stages, Waiting, Talk, Ends
  <2>3. QED
    BY <2>1, <2>2
<1>4. QED
  BY <1>2, <1>3

\* The daemon moves on within a request.
LEMMA ThreadMoves ==
  ASSUME Inv, NEW c \in Calls, client = c, client' = c,
         guestEnd[c] = "open", guestEnd'[c] = "open",
         phase # "close", phase' \notin {"close", "send"},
         UNCHANGED <<hostVars, hostEnd>>, toHost'[c] = toHost[c],
         toGuest[c] # <<>> \/ phase \notin {"command", "send"},
         \A s \in Stages(c) : At(c, s) =>
           /\ At(c, s)'
           /\ Len(toGuest'[c]) + Taken(c)' = Len(toGuest[c]) + Taken(c)
  PROVE  Talk(c)'
<1>1. Talk(c) /\ Reading(c) /\ Reading(c)' /\ Stages(c)' = Stages(c)
  BY DEF Inv, Conversation, Reading, Stages, Upload, hostVars
<1>2. Ends(c)'
  BY <1>1 DEF Talk, Ends, Upload, hostVars
<1>3. GuestSide(c)'
  BY <1>1 DEF Talk, GuestSide
<1>4. ASSUME hostEnd[c] = "open", Waiting(c)
      PROVE  Pending(c, Current(c))'
  <2>1. Pending(c, Current(c)) /\ Current(c) \in Stages(c)
    BY <1>4, EngineWaits
  <2>2. PICK t \in Stages(c) : t = Current(c)
    BY <2>1
  <2>3. Current(c)' = t /\ Size(c, t)' = Size(c, t)
    BY <2>2 DEF Current, Size, LengthOf, hostVars
  <2>4. Pending(c, t)
    BY <2>1, <2>2
  <2>5. At(c, t)' /\ Len(toGuest'[c]) + Taken(c)' = Len(toGuest[c]) + Taken(c)
    BY <2>4 DEF Pending
  <2>6. Pending(c, t)'
    BY <1>1, <2>3, <2>4, <2>5 DEF Pending, First, Upload, hostVars
  <2>7. QED
    BY <2>3, <2>6
<1>5. HostSide(c)'
  BY <1>4, EngineWaits DEF HostSide, Waiting, Upload, hostVars
<1>6. QED
  BY <1>2, <1>3, <1>5 DEF Talk

\* The daemon is done with the request and says so.
LEMMA DaemonAgrees ==
  ASSUME Inv, NEW c \in Calls, client = c, client' = c,
         phase \notin {"command", "close", "send"}, phase' = "command",
         guestEnd'[c] = "open", toGuest'[c] = <<>>,
         UNCHANGED <<hostVars, hostEnd>>,
         hostEnd[c] = "open" => toHost'[c] = toHost[c] \o Reply("OK", 0),
         ASSUME Pending(c, Current(c)), Waiting(c), hostEnd[c] = "open"
         PROVE  /\ Current(c) # "get"
                /\ Current(c) = "path" => path' = req[c].rpath
                /\ Current(c) = "name" => path' = Dest(c)
                /\ Current(c) # "copy" /\ Upload(c) => RightTarget(c)'
                /\ Current(c) = "copy" => left[c] = 0 /\ Stored(c)'
  PROVE  Talk(c)'
<1>1. Talk(c) /\ guestEnd[c] = "open"
  BY AtWork
<1>2. Ends(c)'
  BY <1>1 DEF Talk, Ends, Upload, hostVars
<1>3. GuestSide(c)'
  <2>1. First(c) \in Stages(c) /\ Size(c, First(c)) \in Nat
    BY Sizes DEF First, Stages, Inv
  <2>2. First(c)' \in Stages(c)' /\ Size(c, First(c))' \in Nat
    BY <2>1 DEF First, Stages, Upload, Size, LengthOf, hostVars
  <2>3. At(c, First(c))'
    BY <2>2 DEF At, Taken
  <2>4. QED
    BY <2>2, <2>3 DEF GuestSide
<1>4. ASSUME hostEnd[c] = "open", Waiting(c)
      PROVE  Answered(c, Current(c))'
  <2>1. Pending(c, Current(c))
    BY <1>1, <1>4, EngineWaits
  <2>2. <<>> \o Reply("OK", 0) = Reply("OK", 0)
    BY ReplyTokens, ConcatEmptySeq DEF Results
  <2>3. toHost'[c] = Reply("OK", 0)
    BY <1>4, <2>1, <2>2 DEF Pending
  <2>4. Current(c)' = Current(c) /\ Dest(c)' = Dest(c)
    BY DEF Current, Dest, hostVars
  <2>5. QED
    BY <1>4, <2>1, <2>3, <2>4 DEF Answered, Upload, hostVars
<1>5. HostSide(c)'
  BY <1>1, <1>4, EngineWaits DEF HostSide, Waiting, Upload, hostVars
<1>6. QED
  BY <1>2, <1>3, <1>5 DEF Talk

\* The daemon refuses the request, or gives the file up.
LEMMA DaemonRefuses ==
  ASSUME Inv, NEW c \in Calls, client = c, client' = c,
         phase \notin {"command", "close"}, phase' = "command",
         guestEnd'[c] = "deaf", UNCHANGED <<hostVars, hostEnd>>,
         NEW error \in Results \ {"OK"},
         hostEnd[c] = "open" => toHost'[c] = toHost[c] \o Reply(error, 0)
  PROVE  Talk(c)'
<1>1. Talk(c) /\ guestEnd[c] = "open"
  BY AtWork
<1>2. Ends(c)'
  BY <1>1 DEF Talk, Ends, Upload, hostVars
<1>3. GuestSide(c)'
  BY DEF GuestSide, Reading
<1>4. ASSUME hostEnd[c] = "open"
      PROVE  pc[c] \notin Sending
  BY <1>1, <1>4 DEF Talk, HostSide, AtRest
<1>5. ASSUME hostEnd[c] = "open", Waiting(c)
      PROVE  Over(c, Current(c))'
  <2>1. Current(c)' = Current(c)
    BY DEF Current, hostVars
  <2>2. CASE toHost[c] = <<>>
    <3>1. <<>> \o Reply(error, 0) = Reply(error, 0)
      BY ReplyTokens, ConcatEmptySeq
    <3>2. toHost'[c] = Reply(error, 0)
      BY <1>5, <2>2, <3>1
    <3>3. QED
      BY <3>2 DEF Over
  <2>3. CASE Current(c) = "get" /\ StartsWithReply(toHost[c])
    <3>1. /\ toHost[c] \in Seq(Tokens) /\ Reply(error, 0) \in Seq(Tokens)
          /\ Len(toHost[c]) \in Nat /\ Len(Reply(error, 0)) \in Nat
      BY Sizes, ReplyTokens DEF Inv
    <3>2. /\ Len(toHost[c] \o Reply(error, 0)) >= Len(toHost[c])
          /\ \A i \in 1..Len(toHost[c]) :
               (toHost[c] \o Reply(error, 0))[i] = toHost[c][i]
      BY <3>1
    <3>3. StartsWithReply(toHost[c] \o Reply(error, 0))
      BY <2>3, <3>1, <3>2 DEF StartsWithReply
    <3>4. QED
      BY <1>5, <2>1, <2>3, <3>3 DEF Over
  <2>4. QED
    BY <1>1, <1>5, <2>2, <2>3
       DEF Talk, HostSide, Pending, Answered, Delivering, Over
<1>6. HostSide(c)'
  BY <1>4, <1>5 DEF HostSide, Waiting, Upload, hostVars
<1>7. QED
  BY <1>2, <1>3, <1>6 DEF Talk

\* A step of the daemon is about its client, before or after, or its death.
LEMMA ServeClient ==
  ASSUME Inv, NEW c \in Calls, UNCHANGED hostVars, UNCHANGED hostEnd,
         client \in {c, NoClient}, client' \in {c, NoClient},
         \A e \in Calls : e # c => /\ guestEnd'[e] = guestEnd[e]
                                  /\ toGuest'[e] = toGuest[e]
                                  /\ toHost'[e] = toHost[e],
         Talk(c)'
  PROVE  Conversation'
  BY OtherCall, NoneAssumption DEF Conversation, Inv, hostVars

LEMMA ServeEnds ==
  ASSUME Inv, NEW c \in Calls, client = c,
         UNCHANGED hostVars, UNCHANGED hostEnd, NEW tokens, NEW end, NEW next,
         \A e \in Calls : e # c => toGuest'[e] = toGuest[e],
         Send(tokens, end, next),
         ASSUME client' = c, phase' = next, guestEnd'[c] = end,
                hostEnd[c] = "open" => toHost'[c] = toHost[c] \o tokens
         PROVE  Talk(c)'
  PROVE  Conversation'
<1>1. CASE ProcessEnds
  <2>1. guestEnd[c] # "none"
    BY DEF Inv, SessionInv, OneSession
  <2>2. QED
    BY <1>1, <2>1, EndOfTalks DEF Conversation
<1>2. CASE /\ phase' = next /\ UNCHANGED client
           /\ guestEnd' = [guestEnd EXCEPT ![c] = end]
           /\ toHost' = IF hostEnd[c] = "open"
                          THEN [toHost EXCEPT ![c] = @ \o tokens] ELSE toHost
  BY <1>2, ServeClient DEF Inv, TypeOK, SocketTypeOK, StreamsTypeOK
<1>3. QED
  BY <1>1, <1>2 DEF Send

LEMMA ServeRefuses ==
  ASSUME Inv, NEW c \in Calls, client = c,
         phase \notin {"command", "close"},
         UNCHANGED hostVars, UNCHANGED hostEnd,
         \A e \in Calls : e # c => toGuest'[e] = toGuest[e],
         NEW error \in Results \ {"OK"}, SendError(error)
  PROVE  Conversation'
  BY ServeEnds, DaemonRefuses DEF SendError

LEMMA ServeAgrees ==
  ASSUME Inv, NEW c \in Calls, client = c,
         phase \notin {"command", "close", "send"},
         UNCHANGED hostVars, UNCHANGED hostEnd, SendOk,
         \A e \in Calls : e # c => toGuest'[e] = toGuest[e],
         toGuest'[c] = <<>>,
         ASSUME Pending(c, Current(c)), Waiting(c), hostEnd[c] = "open"
         PROVE  /\ Current(c) # "get"
                /\ Current(c) = "path" => path' = req[c].rpath
                /\ Current(c) = "name" => path' = Dest(c)
                /\ Current(c) # "copy" /\ Upload(c) => RightTarget(c)'
                /\ Current(c) = "copy" => left[c] = 0 /\ Stored(c)'
  PROVE  Conversation'
  BY ServeEnds, DaemonAgrees DEF SendOk

\* The request the daemon works on is the one its phase is named for, and
\* the one the engine waits for.
LEMMA SameRequest ==
  ASSUME Inv, NEW c \in Calls, client = c, NEW s \in Stages(c),
         phase \in HandledCommands, phase = CommandOf(s)
  PROVE  /\ At(c, s) /\ Prepared(c, s) /\ len = LengthOf(c, s) /\ Taken(c) = 2
         /\ Waiting(c) /\ Pending(c, Current(c)) => Current(c) = s
<1>1. \A t, u \in {"user", "path", "name", "copy", "get"} :
        /\ CommandOf(t) = CommandOf(u) => t = u
        /\ CommandOf(t) \in HandledCommands
  BY DEF CommandOf, HandledCommands
<1>2. phase \notin {"command", "close", "length", "recv", "send"}
  BY DEF HandledCommands
<1>3. PICK t \in Stages(c) : At(c, t) /\ In(c, t) /\ Prepared(c, t)
  BY <1>2, AtWork
<1>4. t = s
  BY <1>1, <1>2, <1>3, StagesOfCall DEF In
<1>5. len = LengthOf(c, s) /\ Taken(c) = 2
  BY <1>2, <1>3, <1>4 DEF In, Taken
<1>6. ASSUME Waiting(c), Pending(c, Current(c))
      PROVE  Current(c) = s
  <2>1. In(c, Current(c)) /\ Current(c) \in {"user", "path", "name", "copy", "get"}
    BY <1>2, <1>6 DEF Pending, At, Current, Waiting
  <2>2. QED
    BY <1>1, <1>2, <2>1, StagesOfCall DEF In
<1>7. QED
  BY <1>3, <1>4, <1>5, <1>6

\* The data of a request is taken off the stream.
LEMMA StringArrives ==
  ASSUME Inv, NEW c \in Calls, client = c, NEW s \in Stages(c),
         s \in {"user", "path", "name"}, phase = CommandOf(s)
  PROVE  /\ len = 0 => toGuest[c] = <<>>
         /\ Arrived(c, len) /\ Receive(c, len) =>
              /\ toGuest'[c] = <<>>
              /\ len # 0 => Value(Head(toGuest[c])) = StringOf(c, s)
<1>1. phase \in HandledCommands
  BY DEF CommandOf, HandledCommands
<1>2. At(c, s) /\ len = LengthOf(c, s) /\ Taken(c) = 2
  BY <1>1, SameRequest
<1>3. toGuest[c] \in Seq(Tokens) /\ Len(toGuest[c]) \in Nat /\ len \in Int
  BY <1>2, Sizes DEF Inv
<1>4. len >= 0 => Len(toGuest[c]) <= len
  <2>1. len >= 0 => Size(c, s) = 2 + len
    BY <1>2, <1>3 DEF Size
  <2>2. Len(toGuest[c]) + 2 <= Size(c, s)
    BY <1>2 DEF At
  <2>3. QED
    BY <1>3, <2>1, <2>2
<1>5. len = 0 => toGuest[c] = <<>>
  BY <1>3, <1>4, EmptySeq
<1>6. ASSUME Arrived(c, len), Receive(c, len)
      PROVE  toGuest'[c] = <<>>
  <2>1. Len(toGuest[c]) = len /\ len \in Int
    <3>1. len >= 0 /\ Len(toGuest[c]) >= len
      BY <1>6 DEF Arrived
    <3>2. QED
      BY <1>3, <1>4, <3>1
  <2>2. toGuest'[c] = SubSeq(toGuest[c], len + 1, Len(toGuest[c]))
    BY <1>6 DEF Receive, Inv, TypeOK, StreamsTypeOK
  <2>3. SubSeq(toGuest[c], len + 1, Len(toGuest[c])) = <<>>
    BY <2>1, SubSeqEmpty
  <2>4. QED
    BY <2>2, <2>3
<1>7. ASSUME Arrived(c, len), len # 0
      PROVE  Value(Head(toGuest[c])) = StringOf(c, s)
  <2>1. 1 \in 1..Len(toGuest[c])
    <3>1. len >= 0 /\ Len(toGuest[c]) >= len
      BY <1>7 DEF Arrived
    <3>2. QED
      BY <1>3, <1>7, <3>1
  <2>2. Head(toGuest[c]) = toGuest[c][1]
    BY <1>3, <2>1
  <2>3. toGuest[c][1] = TokenOf(c, s, 3)
    BY <1>2, <2>1 DEF At
  <2>4. QED
    BY <2>2, <2>3 DEF TokenOf, Text, Value
<1>8. QED
  BY <1>5, <1>6, <1>7

LEMMA StageOfPhase ==
  ASSUME Inv, NEW c \in Calls, client = c, phase \in HandledCommands
  PROVE  \E s \in Stages(c) : /\ s \in {"user", "path", "name", "copy", "get"}
                              /\ phase = CommandOf(s)
  BY AtWork, StagesOfCall DEF In, HandledCommands

LEMMA ClientAtWork ==
  ASSUME Inv,
         phase \in HandledCommands \cup
                     {"length", "recv", "send", "command", "close"}
  PROVE  client \in Calls
  BY NoneAssumption
     DEF Inv, SessionInv, OneSession, HandledCommands, Phases

LEMMA SetUserTalk ==
  ASSUME Inv, SetUser, UNCHANGED hostVars
  PROVE  Conversation'
<1>0. PICK c \in Calls : client = c
  BY ClientAtWork DEF SetUser, HandledCommands
<1>1. phase = "SET_USER" /\ phase \in HandledCommands /\ UNCHANGED hostEnd
  BY DEF SetUser, HandledCommands
<1>2. "user" \in Stages(c) /\ CommandOf("user") = "SET_USER"
  BY <1>0, <1>1, StageOfPhase DEF CommandOf
<1>3. /\ len = UserLength(req[c].user)
      /\ Pending(c, Current(c)) /\ Waiting(c) => Current(c) = "user"
  BY <1>0, <1>1, <1>2, SameRequest DEF LengthOf
<1>4. \A e \in Calls : e # c => toGuest'[e] = toGuest[e]
  BY <1>0 DEF SetUser, Receive, Inv, TypeOK, StreamsTypeOK
<1>5. ASSUME len = 0 \/ Arrived(c, len), toGuest' = toGuest \/ Receive(c, len),
             len = 0 => UNCHANGED toGuest, len # 0 => Receive(c, len),
             SendOk, RightTarget(c)'
      PROVE  Conversation'
  <2>1. toGuest'[c] = <<>>
    BY <1>0, <1>1, <1>2, <1>5, StringArrives
  <2>2. QED
    BY <1>0, <1>1, <1>3, <1>4, <1>5, <2>1, ServeAgrees
<1>6. ASSUME SendError("UNKNOWN_USER")
      PROVE  Conversation'
  BY <1>0, <1>1, <1>4, <1>6, ServeRefuses DEF Results
<1>7. CASE len = 0 /\ target' = ServerUid /\ SendOk /\ UNCHANGED toGuest
  <2>1. req[c].user = EmptyUser
    BY <1>3, <1>7 DEF UserLength
  <2>2. RightTarget(c)'
    BY <1>7, <2>1 DEF RightTarget, WantedUid, hostVars
  <2>3. QED
    BY <1>5, <1>7, <2>2
<1>8. CASE /\ len # 0 /\ Arrived(c, len) /\ Receive(c, len)
           /\ target' \in UidsOf(Received) /\ SendOk
  <2>1. Received = req[c].user
    BY <1>0, <1>1, <1>2, <1>8, StringArrives DEF Received, StringOf
  <2>2. req[c].user # EmptyUser
    BY <1>3, <1>8 DEF UserLength, Arrived
  <2>3. RightTarget(c)'
    BY <1>8, <2>1, <2>2 DEF RightTarget, WantedUid, KnownUser, UidsOf, hostVars
  <2>4. QED
    BY <1>5, <1>8, <2>3
<1>9. CASE FailsUnnoticed /\ SendOk /\ UNCHANGED toGuest
  <2>1. At(c, "user") /\ len = LengthOf(c, "user") /\ Taken(c) = 2
    BY <1>0, <1>1, <1>2, SameRequest
  <2>2. toGuest[c] \in Seq(Tokens) /\ Len(toGuest[c]) \in Nat
    BY DEF Inv, TypeOK, StreamsTypeOK
  <2>3. Size(c, "user") = 2
    BY <1>9, <2>1 DEF Size, FailsUnnoticed
  <2>4. toGuest'[c] = <<>>
    BY <1>9, <2>1, <2>2, <2>3, EmptySeq DEF At
  <2>5. hostEnd[c] # "open"
    BY <1>0, <1>9 DEF FailsUnnoticed
  <2>6. QED
    BY <1>0, <1>1, <1>4, <1>9, <2>4, <2>5, ServeAgrees DEF HandledCommands
<1>10. QED
  BY <1>0, <1>6, <1>7, <1>8, <1>9 DEF SetUser

LEMMA SetRemotePathTalk ==
  ASSUME Inv, SetRemotePath, UNCHANGED hostVars
  PROVE  Conversation'
<1>0. PICK c \in Calls : client = c
  BY ClientAtWork DEF SetRemotePath, HandledCommands
<1>1. phase = "SET_REMOTE_PATH" /\ phase \in HandledCommands /\ UNCHANGED hostEnd
  BY DEF SetRemotePath, HandledCommands
<1>2. "path" \in Stages(c) /\ CommandOf("path") = "SET_REMOTE_PATH"
  BY <1>0, <1>1, StageOfPhase DEF CommandOf
<1>3. /\ len = PathUnits(req[c].rpath) /\ Prepared(c, "path")
      /\ Pending(c, Current(c)) /\ Waiting(c) => Current(c) = "path"
  BY <1>0, <1>1, <1>2, SameRequest DEF LengthOf
<1>4. \A e \in Calls : e # c => toGuest'[e] = toGuest[e]
  BY <1>0 DEF SetRemotePath, Receive, Inv, TypeOK, StreamsTypeOK
<1>5. CASE SendError("INVALID_PATH")
  BY <1>0, <1>1, <1>4, <1>5, ServeRefuses DEF Results
<1>6. CASE Arrived(c, len) /\ Receive(c, len) /\ path' = Received /\ SendOk
  <2>1. len # 0
    BY <1>3, PathFacts DEF PathUnits, PathMax, Inv, TypeOK, HostTypeOK
  <2>2. toGuest'[c] = <<>> /\ path' = req[c].rpath
    BY <1>0, <1>1, <1>2, <1>6, <2>1, StringArrives DEF Received, StringOf
  <2>3. Upload(c) => RightTarget(c)'
    BY <1>3 DEF Prepared, SetRemotePath, RightTarget, KnownUser, WantedUid, hostVars
  <2>4. QED
    BY <1>0, <1>1, <1>3, <1>4, <1>6, <2>2, <2>3, ServeAgrees
<1>7. QED
  BY <1>0, <1>5, <1>6 DEF SetRemotePath

LEMMA SetFileNameTalk ==
  ASSUME Inv, SetFileName, UNCHANGED hostVars
  PROVE  Conversation'
<1>0. PICK c \in Calls : client = c
  BY ClientAtWork DEF SetFileName, HandledCommands
<1>1. phase = "SET_FILE_NAME" /\ phase \in HandledCommands /\ UNCHANGED hostEnd
  BY DEF SetFileName, HandledCommands
<1>2. "name" \in Stages(c) /\ CommandOf("name") = "SET_FILE_NAME"
  BY <1>0, <1>1, StageOfPhase DEF CommandOf
<1>3. /\ len = 1 /\ Prepared(c, "name")
      /\ Pending(c, Current(c)) /\ Waiting(c) => Current(c) = "name"
  BY <1>0, <1>1, <1>2, SameRequest DEF LengthOf
<1>4. \A e \in Calls : e # c => toGuest'[e] = toGuest[e]
  BY <1>0 DEF SetFileName, Receive, Inv, TypeOK, StreamsTypeOK
<1>5. CASE SendError("INVALID_PATH")
  BY <1>0, <1>1, <1>4, <1>5, ServeRefuses DEF Results
<1>6. CASE /\ Arrived(c, len) /\ Receive(c, len) /\ SendOk
           /\ path' = IF IsDirectory(path) THEN path \o <<Received>> ELSE path
  <2>1. toGuest'[c] = <<>> /\ Received = req[c].name
    BY <1>0, <1>1, <1>2, <1>3, <1>6, StringArrives DEF Received, StringOf
  <2>2. path = req[c].rpath /\ path \in Paths /\ req[c].name \in Names
    BY <1>3, PathFacts, RequestsAssumption DEF Prepared, Inv, TypeOK, HostTypeOK
  <2>3. path' = Dest(c)
    BY <1>6, <2>1, <2>2, PathFacts DEF Dest
  <2>4. Upload(c) => RightTarget(c)'
    BY <1>3 DEF Prepared, SetFileName, RightTarget, KnownUser, WantedUid, hostVars
  <2>5. QED
    BY <1>0, <1>1, <1>3, <1>4, <1>6, <2>1, <2>3, <2>4, ServeAgrees
<1>7. QED
  BY <1>0, <1>5, <1>6 DEF SetFileName

LEMMA TailOf ==
  ASSUME NEW S, NEW q \in Seq(S), Len(q) >= 1
  PROVE  /\ q # <<>> /\ Head(q) = q[1]
         /\ Len(SubSeq(q, 2, Len(q))) = Len(q) - 1
         /\ \A i \in 1..Len(q) - 1 :
              i + 1 \in 1..Len(q) /\ SubSeq(q, 2, Len(q))[i] = q[i + 1]
<1>1. q # <<>> /\ Len(q) \in Nat /\ Head(q) = q[1]
  OBVIOUS
<1>2. PICK n \in Nat : n = Len(q) /\ n >= 1 /\ \A i \in 2..n : q[i] \in S
  BY <1>1
<1>3. /\ Len(SubSeq(q, 2, n)) = IF 2 <= n THEN n - 2 + 1 ELSE 0
      /\ \A i \in 1..n - 2 + 1 : SubSeq(q, 2, n)[i] = q[2 + i - 1]
  BY <1>2, SubSeqProperties
<1>4. Len(SubSeq(q, 2, n)) = n - 1
  BY <1>2, <1>3
<1>5. ASSUME NEW i \in 1..Len(q) - 1
      PROVE  i + 1 \in 1..Len(q) /\ SubSeq(q, 2, Len(q))[i] = q[i + 1]
  <2>1. i + 1 = 2 + i - 1 /\ i \in 1..n - 2 + 1
    BY <1>2
  <2>2. SubSeq(q, 2, n)[i] = q[2 + i - 1]
    BY <1>3, <2>1
  <2>3. QED
    BY <1>2, <2>1, <2>2
<1>6. QED
  BY <1>1, <1>2, <1>4, <1>5

\* One token is taken off the stream.
LEMMA TokenArrives ==
  ASSUME Inv, NEW c \in Calls, Arrived(c, 1), Receive(c, 1)
  PROVE  /\ toGuest[c] # <<>> /\ Head(toGuest[c]) = toGuest[c][1]
         /\ Len(toGuest[c]) \in Nat \ {0} /\ Len(toGuest'[c]) = Len(toGuest[c]) - 1
         /\ \A i \in 1..Len(toGuest'[c]) :
              i + 1 \in 1..Len(toGuest[c]) /\ toGuest'[c][i] = toGuest[c][i + 1]
         /\ \A e \in Calls : e # c => toGuest'[e] = toGuest[e]
<1>1. toGuest[c] \in Seq(Tokens) /\ Len(toGuest[c]) \in Nat /\ Len(toGuest[c]) >= 1
  BY Sizes DEF Inv, Arrived
<1>2. /\ toGuest'[c] = SubSeq(toGuest[c], 2, Len(toGuest[c]))
      /\ \A e \in Calls : e # c => toGuest'[e] = toGuest[e]
  BY DEF Receive, Inv, TypeOK, StreamsTypeOK
<1>3. QED
  BY <1>1, <1>2, TailOf

\* The loop ends: nobody reads what is left, and nobody waits for it.
LEMMA SessionEnds ==
  ASSUME Inv, NEW c \in Calls, client = c, client' = c, phase' = "close",
         guestEnd[c] = "deaf" \/ hostEnd[c] = "closed",
         UNCHANGED <<hostVars, hostEnd, guestEnd, toGuest, toHost>>
  PROVE  Talk(c)'
<1>1. Talk(c)
  BY DEF Inv, Conversation
<1>2. Ends(c)'
  BY <1>1 DEF Talk, Ends, Upload, hostVars
<1>3. GuestSide(c)'
  BY DEF GuestSide, Reading
<1>4. HostSide(c)'
  BY <1>1 DEF Talk, HostSide, AtRest, Waiting, Current, Pending, Answered,
     Delivering, Over, Reading, Upload, hostVars
<1>5. QED
  BY <1>2, <1>3, <1>4 DEF Talk

\* The request goes on behind the token that was taken.
LEMMA TokenTaken ==
  ASSUME Inv, NEW c \in Calls, client = c, client' = c,
         Arrived(c, 1), Receive(c, 1), UNCHANGED hostVars,
         Taken(c)' = Taken(c) + 1,
         NEW s \in Stages(c), At(c, s), In(c, s)', Prepared(c, s)'
  PROVE  /\ At(c, s)'
         /\ Len(toGuest'[c]) + Taken(c)' = Len(toGuest[c]) + Taken(c)
<1>1. /\ Len(toGuest[c]) \in Nat \ {0} /\ Len(toGuest'[c]) = Len(toGuest[c]) - 1
      /\ \A i \in 1..Len(toGuest'[c]) :
           i + 1 \in 1..Len(toGuest[c]) /\ toGuest'[c][i] = toGuest[c][i + 1]
  BY TokenArrives
<1>2. LengthOf(c, s)' = LengthOf(c, s) /\ StringOf(c, s)' = StringOf(c, s)
  BY DEF LengthOf, StringOf, hostVars
<1>3. Size(c, s)' = Size(c, s) /\ \A i : TokenOf(c, s, i)' = TokenOf(c, s, i)
  BY <1>2 DEF Size, TokenOf
<1>4. Size(c, s) \in Int /\ Taken(c) \in Int
  BY Sizes, StagesOfCall DEF Inv
<1>5. PICK t \in Int : t = Taken(c)
  BY <1>4
<1>6. Taken(c)' = t + 1
  BY <1>5
<1>7. Len(toGuest'[c]) + Taken(c)' = Len(toGuest[c]) + Taken(c)
  BY <1>1, <1>5, <1>6
<1>8. Len(toGuest'[c]) + Taken(c)' <= Size(c, s)'
  BY <1>3, <1>4, <1>7 DEF At
<1>9. \A i \in 1..Len(toGuest'[c]) : toGuest'[c][i] = TokenOf(c, s, i + (t + 1))
  <2>1. \A i \in 1..Len(toGuest[c]) : toGuest[c][i] = TokenOf(c, s, i + t)
    BY <1>5 DEF At
  <2>2. ASSUME NEW i \in 1..Len(toGuest'[c])
        PROVE  toGuest'[c][i] = TokenOf(c, s, i + (t + 1))
    <3>1. toGuest'[c][i] = TokenOf(c, s, (i + 1) + t)
      BY <1>1, <2>1
    <3>2. (i + 1) + t = i + (t + 1)
      BY <1>1, <1>5
    <3>3. QED
      BY <3>1, <3>2
  <2>3. QED
    BY <2>2
<1>10. \A i \in 1..Len(toGuest'[c]) :
         toGuest'[c][i] = TokenOf(c, s, i + Taken(c))'
  BY <1>3, <1>6, <1>9
<1>11. QED
  BY <1>7, <1>8, <1>10 DEF At

LEMMA RecvCommandTalk ==
  ASSUME Inv, RecvCommand, UNCHANGED hostVars
  PROVE  Conversation'
<1>0. PICK c \in Calls : client = c
  BY ClientAtWork DEF RecvCommand
<1>1. phase = "command" /\ UNCHANGED <<client, hostEnd, guestEnd, toHost>> /\ Talk(c)
  BY DEF RecvCommand, Inv, Conversation
<1>2. CASE /\ guestEnd[c] = "open" /\ Arrived(c, 1) /\ Receive(c, 1)
           /\ cmd' = Value(Head(toGuest[c])) /\ phase' = "length"
  <2>1. /\ toGuest[c] # <<>> /\ Head(toGuest[c]) = toGuest[c][1]
        /\ Len(toGuest[c]) \in Nat \ {0}
        /\ \A e \in Calls : e # c => toGuest'[e] = toGuest[e]
    BY <1>2, TokenArrives
  <2>2. Taken(c) = 0 /\ Taken(c)' = 1
    BY <1>0, <1>1, <1>2 DEF Taken
  <2>3. ASSUME NEW s \in Stages(c), At(c, s)
        PROVE  In(c, s)' /\ Prepared(c, s)'
    <3>1. Prepared(c, s)'
      BY <1>0, <2>1, <2>3
         DEF At, Prepared, RecvCommand, RightTarget, KnownUser, WantedUid, Dest,
             Upload, hostVars
    <3>2. cmd' = CommandOf(s)
      BY <1>2, <2>1, <2>2, <2>3 DEF At, TokenOf, Command, Value
    <3>3. QED
      BY <1>2, <3>1, <3>2 DEF In
  <2>4. Talk(c)'
    BY <1>0, <1>1, <1>2, <2>1, <2>2, <2>3, TokenTaken, ThreadMoves
  <2>5. QED
    BY <1>0, <1>1, <2>1, <2>4, ServeClient
<1>3. CASE /\ guestEnd[c] = "deaf" \/ hostEnd[c] = "closed"
           /\ phase' = "close" /\ UNCHANGED toGuest
  <2>1. Talk(c)'
    BY <1>0, <1>1, <1>3, SessionEnds
  <2>2. QED
    BY <1>0, <1>1, <1>3, <2>1, ServeClient
<1>4. QED
  BY <1>0, <1>2, <1>3 DEF RecvCommand, Cut

LEMMA RecvLengthTalk ==
  ASSUME Inv, RecvLength, UNCHANGED hostVars
  PROVE  Conversation'
<1>0. PICK c \in Calls : client = c
  BY ClientAtWork DEF RecvLength
<1>1. phase = "length" /\ UNCHANGED <<client, hostEnd, guestEnd, toHost>> /\ Talk(c)
  BY DEF RecvLength, Inv, Conversation
<1>2. guestEnd[c] = "open"
  BY <1>0, <1>1, AtWork
<1>3. CASE /\ Arrived(c, 1) /\ Receive(c, 1)
           /\ len' = Value(Head(toGuest[c]))
           /\ phase' = IF cmd \in HandledCommands THEN cmd ELSE "close"
  <2>1. /\ toGuest[c] # <<>> /\ Head(toGuest[c]) = toGuest[c][1]
        /\ Len(toGuest[c]) \in Nat \ {0}
        /\ \A e \in Calls : e # c => toGuest'[e] = toGuest[e]
    BY <1>3, TokenArrives
  <2>2. cmd \in HandledCommands
    <3>1. PICK s \in Stages(c) : In(c, s)
      BY <1>0, <1>1, AtWork
    <3>2. QED
      BY <1>1, <3>1, StagesOfCall DEF In, CommandOf, HandledCommands
  <2>3. phase' = cmd /\ phase' \notin {"command", "close", "length", "recv", "send"}
    BY <1>3, <2>2 DEF HandledCommands
  <2>4. Taken(c) = 1 /\ Taken(c)' = 2
    BY <1>0, <1>1, <2>3 DEF Taken
  <2>5. ASSUME NEW s \in Stages(c), At(c, s)
        PROVE  In(c, s)' /\ Prepared(c, s)'
    <3>1. Prepared(c, s)'
      BY <1>0, <2>1, <2>5
         DEF At, Prepared, RecvLength, RightTarget, KnownUser, WantedUid, Dest,
             Upload, hostVars
    <3>2. len' = LengthOf(c, s)
      BY <1>3, <2>1, <2>4, <2>5 DEF At, TokenOf, Length, Value
    <3>3. cmd = CommandOf(s) /\ cmd' = cmd
      BY <1>0, <1>1, <2>5 DEF At, In, RecvLength
    <3>4. LengthOf(c, s)' = LengthOf(c, s)
      BY DEF LengthOf, hostVars
    <3>5. QED
      BY <2>3, <3>1, <3>2, <3>3, <3>4 DEF In
  <2>6. Talk(c)'
    BY <1>0, <1>1, <1>2, <1>3, <2>1, <2>3, <2>4, <2>5, TokenTaken, ThreadMoves
  <2>7. QED
    BY <1>0, <1>1, <2>1, <2>6, ServeClient
<1>4. CASE hostEnd[c] = "closed" /\ phase' = "close" /\ UNCHANGED toGuest
  <2>1. Talk(c)'
    BY <1>0, <1>1, <1>4, SessionEnds
  <2>2. QED
    BY <1>0, <1>1, <1>4, <2>1, ServeClient
<1>5. QED
  BY <1>0, <1>3, <1>4 DEF RecvLength, Cut

-----------------------------------------------------------------------------
(* recv_file                                                               *)

\* Both loops serve the request they are named for.
LEMMA LoopOfRequest ==
  ASSUME Inv, NEW c \in Calls, client = c, phase \in {"recv", "send"}
  PROVE  \A s \in Stages(c) : At(c, s) =>
           s = IF phase = "recv" THEN "copy" ELSE "get"
  BY StagesOfCall DEF At, In, CommandOf

LEMMA CopyFileToGuestTalk ==
  ASSUME Inv, CopyFileToGuest, UNCHANGED hostVars
  PROVE  Conversation'
<1>0. PICK c \in Calls : client = c
  BY ClientAtWork DEF CopyFileToGuest, HandledCommands
<1>1. /\ phase = "COPY_FILE_TO_GUEST" /\ phase \in HandledCommands
      /\ UNCHANGED <<hostEnd, toGuest>>
  BY DEF CopyFileToGuest, HandledCommands
<1>2. "copy" \in Stages(c) /\ CommandOf("copy") = "COPY_FILE_TO_GUEST"
  BY <1>0, <1>1, StageOfPhase DEF CommandOf
<1>3. /\ len = req[c].size /\ Prepared(c, "copy") /\ Taken(c) = 2
  BY <1>0, <1>1, <1>2, SameRequest DEF LengthOf
<1>4. \A s \in Stages(c) : At(c, s) => s = "copy"
  BY <1>0, <1>1, StagesOfCall DEF At, In, CommandOf
<1>5. CASE SendError("FILETRANSFER_ERROR")
  BY <1>0, <1>1, <1>5, ServeRefuses DEF Results
<1>6. CASE /\ MayCreate(path) /\ remains' = len /\ phase' = "recv"
           /\ guestFile' = [guestFile EXCEPT ![path] = Opened(path)]
           /\ UNCHANGED <<client, guestEnd, toHost, backlog>>
  <2>1. path = Dest(c) /\ path \in FilePaths /\ req[c].size \in Nat
    BY <1>3, <1>6, Sizes DEF Prepared, MayCreate, Inv
  <2>2. guestFile'[path] = <<>>
    BY <1>6, <2>1 DEF Opened, Inv, TypeOK, ServerTypeOK
  <2>3. Taken(c)' = 2
    BY <1>0, <1>3, <1>6, <2>1 DEF Taken, hostVars
  <2>4. ASSUME At(c, "copy")
        PROVE  At(c, "copy")'
    <3>1. Prepared(c, "copy")'
      BY <1>3, <1>6 DEF Prepared, CopyFileToGuest, RightTarget, KnownUser,
         WantedUid, Dest, Upload, hostVars
    <3>2. In(c, "copy")'
      <4>1. Dest(c)' = Dest(c) /\ LengthOf(c, "copy")' = LengthOf(c, "copy")
            /\ req' = req
        BY DEF Dest, LengthOf, hostVars
      <4>2. cmd' = CommandOf("copy") /\ len' = LengthOf(c, "copy")
        BY <1>0, <1>1, <1>3, <2>4 DEF At, In, CopyFileToGuest, LengthOf
      <4>3. Len(guestFile'[Dest(c)]) = 0 /\ remains' = req[c].size
        BY <1>3, <1>6, <2>1, <2>2, EmptySeq
      <4>4. QED
        BY <1>6, <2>1, <4>1, <4>2, <4>3 DEF In
    <3>3. Size(c, "copy")' = Size(c, "copy")
          /\ \A i : TokenOf(c, "copy", i)' = TokenOf(c, "copy", i)
      BY DEF Size, TokenOf, LengthOf, hostVars
    <3>4. \A i \in 1..Len(toGuest'[c]) :
            toGuest'[c][i] = TokenOf(c, "copy", i + Taken(c))'
      BY <1>1, <1>3, <2>3, <2>4, <3>3 DEF At
    <3>5. QED
      BY <1>1, <1>3, <2>3, <2>4, <3>1, <3>2, <3>3, <3>4 DEF At
  <2>5. Talk(c)'
    BY <1>0, <1>1, <1>3, <1>4, <1>6, <2>3, <2>4, AtWork, ThreadMoves
  <2>6. QED
    BY <1>0, <1>1, <1>6, <2>5, ServeClient
<1>7. QED
  BY <1>5, <1>6 DEF CopyFileToGuest

\* The next block of the source follows those that are stored.
LEMMA BlockStored ==
  ASSUME NEW S, NEW f \in Seq(S), NEW b \in S, NEW c, NEW n \in Nat,
         Len(f) = n, \A i \in 1..n : f[i] = Block(c, i), b = Block(c, n + 1)
  PROVE  /\ Len(Append(f, b)) = n + 1
         /\ \A i \in 1..n + 1 : Append(f, b)[i] = Block(c, i)
  OBVIOUS

\* What recv_file takes off the stream is the next block of the source.
LEMMA NextBlock ==
  ASSUME Inv, NEW c \in Calls, client = c, phase = "recv", remains > 0,
         Arrived(c, 1), Receive(c, 1)
  PROVE  /\ remains \in Nat \ {0} /\ remains <= req[c].size
         /\ \E n \in Nat : /\ n = req[c].size - remains /\ Taken(c) = 2 + n
                          /\ Head(toGuest[c]) = Block(c, n + 1)
                          /\ Block(c, n + 1) \in BlockTokens
<1>1. At(c, "copy") /\ In(c, "copy") /\ "copy" \in Stages(c)
  BY AtWork, LoopOfRequest
<1>2. /\ remains \in Nat \ {0} /\ req[c].size \in Nat
      /\ remains <= req[c].size
  BY <1>1, Sizes DEF In, Inv, TypeOK, ServerTypeOK
<1>3. PICK n \in Nat : n = req[c].size - remains
  BY <1>2
<1>4. Taken(c) = 2 + n
  BY <1>2, <1>3 DEF Taken
<1>5. Head(toGuest[c]) = Block(c, n + 1)
  <2>1. /\ Head(toGuest[c]) = toGuest[c][1]
        /\ Len(toGuest[c]) \in Nat \ {0}
    BY TokenArrives
  <2>2. toGuest[c][1] = TokenOf(c, "copy", 1 + (2 + n))
    BY <1>1, <1>4, <2>1 DEF At
  <2>3. 1 + (2 + n) \in Int /\ 1 + (2 + n) # 1 /\ 1 + (2 + n) # 2
        /\ 1 + (2 + n) - 2 = n + 1
    BY <1>3
  <2>4. QED
    BY <2>1, <2>2, <2>3, BlockToken
<1>6. Block(c, n + 1) \in BlockTokens
  BY <1>3 DEF Block, BlockTokens
<1>7. QED
  BY <1>2, <1>3, <1>4, <1>5, <1>6

LEMMA RecvBlockTalk ==
  ASSUME Inv, RecvBlock, UNCHANGED hostVars
  PROVE  Conversation'
<1>0. PICK c \in Calls : client = c
  BY ClientAtWork DEF RecvBlock
<1>1. phase = "recv" /\ UNCHANGED hostEnd /\ Talk(c) /\ guestEnd[c] = "open"
  BY <1>0, AtWork DEF RecvBlock, HandledCommands
<1>2. /\ At(c, "copy") /\ In(c, "copy") /\ Prepared(c, "copy")
      /\ "copy" \in Stages(c)
  BY <1>0, <1>1, AtWork, LoopOfRequest
<1>3. ASSUME \A e \in Calls : e # c => toGuest'[e] = toGuest[e],
             SendError("FILETRANSFER_ERROR")
      PROVE  Conversation'
  BY <1>0, <1>1, <1>3, ServeRefuses DEF Results
<1>4. CASE /\ remains > 0 /\ Arrived(c, 1) /\ Receive(c, 1)
           /\ guestFile' = [guestFile EXCEPT ![path] =
                              Append(@, Head(toGuest[c]))]
           /\ remains' = remains - 1
           /\ UNCHANGED <<phase, client, guestEnd, toHost, backlog>>
  <2>1. /\ toGuest[c] # <<>> /\ Head(toGuest[c]) = toGuest[c][1]
        /\ Len(toGuest[c]) \in Nat \ {0}
        /\ \A e \in Calls : e # c => toGuest'[e] = toGuest[e]
    BY <1>4, TokenArrives
  <2>2. remains \in Nat \ {0} /\ remains <= req[c].size /\ req[c].size \in Nat
    BY <1>0, <1>1, <1>2, <1>4, NextBlock, Sizes DEF Inv
  <2>3. PICK n \in Nat : /\ n = req[c].size - remains /\ Taken(c) = 2 + n
                         /\ Head(toGuest[c]) = Block(c, n + 1)
                         /\ Block(c, n + 1) \in BlockTokens
    BY <1>0, <1>1, <1>4, NextBlock
  <2>4. /\ Taken(c)' = 2 + (n + 1) /\ n + 1 = req[c].size - remains'
    <3>1. n + 1 = req[c].size - remains'
      BY <1>4, <2>2, <2>3
    <3>2. Taken(c)' = 2 + req[c].size - remains'
      BY <1>0, <1>1, <1>4 DEF Taken, hostVars
    <3>3. QED
      BY <1>4, <2>2, <3>1, <3>2
  <2>7. path = Dest(c) /\ path \in Paths /\ UNCHANGED path
    BY <1>2 DEF Prepared, Inv, TypeOK, ServerTypeOK, RecvBlock
  <2>8. In(c, "copy")'
    <3>1. Dest(c)' = Dest(c)
      BY DEF Dest, hostVars
    <3>2. LengthOf(c, "copy")' = LengthOf(c, "copy") /\ UNCHANGED <<cmd, len>>
      BY DEF LengthOf, hostVars, RecvBlock
    <3>3. Len(guestFile[path]) = n
          /\ \A i \in 1..n : guestFile[path][i] = Block(c, i)
      BY <1>1, <1>2, <2>3, <2>7 DEF In
    <3>4. path \in FilePaths
      BY <1>2, <2>7, DestIsFile DEF Inv
    <3>5. guestFile[path] \in Seq(BlockTokens)
          /\ guestFile'[path] = Append(guestFile[path], Block(c, n + 1))
      BY <1>4, <2>3, <3>4 DEF Inv, TypeOK, ServerTypeOK
    <3>6. Len(guestFile'[path]) = n + 1
          /\ \A i \in 1..n + 1 : guestFile'[path][i] = Block(c, i)
      BY <2>3, <3>3, <3>5, BlockStored
    <3>7. Len(guestFile'[Dest(c)']) = req'[c].size - remains'
          /\ \A i \in 1..Len(guestFile'[Dest(c)']) :
               guestFile'[Dest(c)'][i] = Block(c, i)
      BY <2>4, <2>7, <3>1, <3>6 DEF hostVars
    <3>8. remains' <= req'[c].size
      BY <1>4, <2>2 DEF hostVars
    <3>9. QED
      BY <1>1, <1>2, <1>4, <3>2, <3>7, <3>8 DEF In
  <2>9. Prepared(c, "copy")'
    BY <1>2 DEF Prepared, RecvBlock, RightTarget, KnownUser, WantedUid, Dest,
       Upload, hostVars
  <2>10. \A s \in Stages(c) : At(c, s) => s = "copy"
    BY <1>0, <1>1, LoopOfRequest
  <2>11. Taken(c)' = Taken(c) + 1
    BY <2>3, <2>4
  <2>12. Talk(c)'
    BY <1>0, <1>1, <1>2, <1>4, <2>8, <2>9, <2>10, <2>11, TokenTaken, ThreadMoves
  <2>13. QED
    BY <1>0, <1>1, <1>4, <2>1, <2>12, ServeClient
<1>5. CASE /\ remains > 0 /\ Arrived(c, 1) /\ Receive(c, 1)
           /\ SendError("FILETRANSFER_ERROR")
  BY <1>3, <1>5, TokenArrives
<1>6. CASE SendError("FILETRANSFER_ERROR") /\ UNCHANGED toGuest
  BY <1>3, <1>6
<1>7. CASE UNCHANGED <<phase, client, guestEnd, toHost, backlog, guestFile,
                       remains, toGuest>>
  BY <1>1, <1>7, OtherThread DEF Inv, Conversation, RecvBlock, hostVars
<1>8. QED
  BY <1>0, <1>4, <1>5, <1>6, <1>7 DEF RecvBlock

\* When the loop is over the file is the source.
LEMMA FileIsSource ==
  ASSUME Inv, NEW c \in Calls, client = c, phase = "recv", remains = 0
  PROVE  /\ guestFile[Dest(c)] = Source(c) /\ toGuest[c] = <<>>
         /\ path = Dest(c) /\ RightTarget(c) /\ Upload(c)
         /\ Waiting(c) /\ Pending(c, Current(c)) =>
              Current(c) = "copy" /\ left[c] = 0
<1>1. /\ At(c, "copy") /\ In(c, "copy") /\ Prepared(c, "copy")
      /\ "copy" \in Stages(c)
  BY AtWork, LoopOfRequest
<1>2. Upload(c)
  BY <1>1 DEF Stages
<1>3. PICK n \in Nat : n = req[c].size
  BY <1>1, Sizes DEF Inv
<1>4. Taken(c) = 2 + n /\ Size(c, "copy") = 2 + n
  BY <1>3 DEF Taken, Size, LengthOf
<1>5. toGuest[c] = <<>>
  <2>1. toGuest[c] \in Seq(Tokens) /\ Len(toGuest[c]) \in Nat
    BY <1>1, Sizes DEF Inv
  <2>2. Len(toGuest[c]) = 0
    BY <1>1, <1>3, <1>4, <2>1 DEF At
  <2>3. QED
    BY <2>1, <2>2, EmptySeq
<1>6. guestFile[Dest(c)] = Source(c)
  <2>1. /\ Len(guestFile[Dest(c)]) = n
        /\ \A i \in 1..n : guestFile[Dest(c)][i] = Block(c, i)
    BY <1>1, <1>3 DEF In
  <2>2. guestFile[Dest(c)] \in Seq(BlockTokens)
    BY DestIsFile DEF Inv, TypeOK, ServerTypeOK
  <2>3. Source(c) = [i \in 1..n |-> Block(c, i)]
    BY <1>3 DEF Source, Blocks
  <2>4. ASSUME NEW S, NEW f \in Seq(S), Len(f) = n,
               \A i \in 1..n : f[i] = Block(c, i)
        PROVE  f = [i \in 1..n |-> Block(c, i)]
    BY <2>4
  <2>5. QED
    BY <2>1, <2>2, <2>3, <2>4
<1>7. ASSUME Waiting(c), Pending(c, Current(c))
      PROVE  Current(c) = "copy" /\ left[c] = 0
  <2>1. Current(c) = "copy"
    BY <1>7 DEF Pending, At, In, Waiting, Current, CommandOf
  <2>2. left[c] \in Nat
    BY DEF Inv, TypeOK, HostTypeOK
  <2>3. Len(toGuest[c]) + Taken(c) = Size(c, "copy") - left[c]
    BY <1>7, <2>1 DEF Pending
  <2>4. QED
    BY <1>3, <1>4, <1>5, <2>1, <2>2, <2>3
<1>8. QED
  BY <1>1, <1>2, <1>5, <1>6, <1>7 DEF Prepared

LEMMA RecvDoneTalk ==
  ASSUME Inv, RecvDone, UNCHANGED hostVars
  PROVE  Conversation'
<1>0. PICK c \in Calls : client = c
  BY ClientAtWork DEF RecvDone
<1>1. phase = "recv" /\ remains = 0 /\ SendOk /\ UNCHANGED <<hostEnd, toGuest>>
  BY DEF RecvDone
<1>2. /\ guestFile[Dest(c)] = Source(c) /\ toGuest[c] = <<>>
      /\ path = Dest(c) /\ RightTarget(c)
      /\ Waiting(c) /\ Pending(c, Current(c)) =>
           Current(c) = "copy" /\ left[c] = 0
  BY <1>0, <1>1, FileIsSource
<1>3. Stored(c)'
  <2>1. /\ Dest(c)' = Dest(c) /\ Source(c)' = Source(c)
        /\ KnownUser(c)' = KnownUser(c) /\ WantedUid(c)' = WantedUid(c)
    BY DEF Dest, Source, KnownUser, WantedUid, hostVars
  <2>2. guestFile' = guestFile
    BY DEF RecvDone
  <2>3. "chown" \notin Faults /\ KnownUser(c) =>
          guestOwner'[Dest(c)] = WantedUid(c)
    BY <1>2, DestIsFile
       DEF RecvDone, RightTarget, Inv, TypeOK, ServerTypeOK
  <2>4. QED
    BY <1>2, <2>1, <2>2, <2>3 DEF Stored
<1>4. QED
  BY <1>0, <1>1, <1>2, <1>3, ServeAgrees

-----------------------------------------------------------------------------
(* send_file                                                               *)

\* The rest of a download is not read by the daemon, and it sends no reply.
LEMMA SendingFile ==
  ASSUME Inv, NEW c \in Calls, client = c, phase = "send"
  PROVE  /\ At(c, "get") /\ toGuest[c] = <<>> /\ "get" \in Stages(c)
         /\ guestEnd[c] = "open"
         /\ hostEnd[c] = "open" =>
              /\ pc[c] \notin Sending
              /\ Waiting(c) => Delivering(c, Current(c))
<1>1. /\ At(c, "get") /\ "get" \in Stages(c) /\ guestEnd[c] = "open"
      /\ Talk(c)
  BY AtWork, LoopOfRequest
<1>2. Taken(c) = 2 /\ Size(c, "get") = 2
  BY DEF Taken, Size, LengthOf
<1>3. toGuest[c] = <<>>
  BY <1>1, <1>2, Sizes, EmptySeq DEF At, Inv
<1>4. hostEnd[c] = "open" =>
        /\ pc[c] \notin Sending
        /\ Waiting(c) => Delivering(c, Current(c))
  BY <1>1 DEF Talk, HostSide, AtRest, Pending, Answered, Over
<1>5. QED
  BY <1>1, <1>3, <1>4

LEMMA CopyFileFromGuestTalk ==
  ASSUME Inv, CopyFileFromGuest, UNCHANGED hostVars
  PROVE  Conversation'
<1>0. PICK c \in Calls : client = c
  BY ClientAtWork DEF CopyFileFromGuest, HandledCommands
<1>1. /\ phase = "COPY_FILE_FROM_GUEST" /\ phase \in HandledCommands
      /\ UNCHANGED <<hostEnd, toGuest>>
  BY DEF CopyFileFromGuest, HandledCommands
<1>2. "get" \in Stages(c) /\ CommandOf("get") = "COPY_FILE_FROM_GUEST"
  BY <1>0, <1>1, StageOfPhase DEF CommandOf
<1>3. /\ At(c, "get") /\ len = 0 /\ Prepared(c, "get") /\ Taken(c) = 2
      /\ Pending(c, Current(c)) /\ Waiting(c) => Current(c) = "get"
  BY <1>0, <1>1, <1>2, SameRequest DEF LengthOf
<1>4. toGuest[c] = <<>> /\ toHost[c] \in Seq(Tokens)
  <2>1. Size(c, "get") = 2
    BY DEF Size, LengthOf
  <2>2. QED
    BY <1>3, <2>1, Sizes, EmptySeq DEF At, Inv
<1>5. CASE SendError("FILETRANSFER_ERROR")
  BY <1>0, <1>1, <1>5, ServeRefuses DEF Results
<1>6. CASE MayRead(path) /\ Send(Reply("OK", FileSize(path)), "open", "send")
  <2>1. FileSize(path) \in Nat
    BY <1>6, FilesAssumption DEF FileSize, MayRead, Inv, TypeOK, ServerTypeOK
  <2>2. /\ Reply("OK", FileSize(path)) \in Seq(Tokens)
        /\ StartsWithReply(Reply("OK", FileSize(path)))
    BY <2>1, ReplyTokens DEF Results
  <2>3. ASSUME client' = c, phase' = "send", guestEnd'[c] = "open",
               hostEnd[c] = "open" =>
                 toHost'[c] = toHost[c] \o Reply("OK", FileSize(path))
        PROVE  Talk(c)'
    <3>1. Talk(c) /\ guestEnd[c] = "open"
      BY <1>0, <1>1, AtWork DEF HandledCommands
    <3>2. Ends(c)'
      BY <1>1, <2>3, <3>1 DEF Talk, Ends, Upload, hostVars
    <3>3. GuestSide(c)'
      <4>1. At(c, "get")'
        BY <1>0, <1>1, <1>2, <1>3, <1>4, <2>3
           DEF At, In, Taken, Prepared, Size, LengthOf, CopyFileFromGuest,
               hostVars
      <4>2. "get" \in Stages(c)'
        BY <1>2 DEF Stages, Upload, hostVars
      <4>3. QED
        BY <2>3, <4>1, <4>2 DEF GuestSide
    <3>4. HostSide(c)'
      <4>1. SUFFICES ASSUME hostEnd[c] = "open"
                     PROVE  HostSide(c)'
        BY <1>1 DEF HostSide
      <4>2. /\ pc[c] \notin Sending
            /\ Waiting(c) => Pending(c, Current(c))
        BY <1>0, <1>1, <3>1, <4>1, EngineWaits
      <4>3. ASSUME Waiting(c)
            PROVE  Current(c) = "get" /\ StartsWithReply(toHost'[c])
        BY <1>3, <1>4, <2>2, <2>3, <4>1, <4>2, <4>3, ConcatEmptySeq DEF Pending
      <4>4. Waiting(c)' = Waiting(c) /\ Current(c)' = Current(c)
        BY DEF Waiting, Current, Upload, hostVars
      <4>5. QED
        BY <1>1, <1>4, <2>3, <4>2, <4>3, <4>4 DEF HostSide, Delivering, hostVars
    <3>5. QED
      BY <3>2, <3>3, <3>4 DEF Talk
  <2>4. QED
    BY <1>0, <1>1, <1>6, <2>3, ServeEnds
<1>7. QED
  BY <1>5, <1>6 DEF CopyFileFromGuest

LEMMA ReplyStays ==
  ASSUME NEW t \in Seq(Tokens), StartsWithReply(t), NEW e
  PROVE  StartsWithReply(Append(t, e))
<1>1. Len(t) >= 2 /\ Len(t) \in Nat
  BY DEF StartsWithReply
<1>2. /\ Len(Append(t, e)) >= 2 /\ Append(t, e)[1] = t[1]
      /\ Append(t, e)[2] = t[2]
  BY <1>1
<1>3. QED
  BY <1>2 DEF StartsWithReply

LEMMA SendBlockTalk ==
  ASSUME Inv, SendBlock, UNCHANGED hostVars
  PROVE  Conversation'
<1>0. PICK c \in Calls : client = c
  BY ClientAtWork DEF SendBlock
<1>1. phase = "send" /\ UNCHANGED <<hostEnd, toGuest>>
  BY DEF SendBlock
<1>2. /\ At(c, "get") /\ toGuest[c] = <<>> /\ "get" \in Stages(c)
      /\ guestEnd[c] = "open" /\ Talk(c)
      /\ hostEnd[c] = "open" =>
           /\ pc[c] \notin Sending
           /\ Waiting(c) => Delivering(c, Current(c))
  BY <1>0, <1>1, SendingFile DEF Inv, Conversation
<1>3. CASE SendError("FILETRANSFER_ERROR")
  BY <1>0, <1>1, <1>3, ServeRefuses DEF Results
<1>4. CASE UNCHANGED <<phase, client, guestEnd, toHost, backlog, loopVars>>
  BY <1>1, <1>4, OtherThread
     DEF Inv, Conversation, SendBlock, hostVars, loopVars, fileSystem
<1>5. CASE /\ toHost' = [toHost EXCEPT ![c] =
                          Append(@, guestFile[path][ofs + 1])]
           /\ UNCHANGED <<phase, client, guestEnd, backlog>>
  <2>1. \E e : toHost'[c] = Append(toHost[c], e)
    BY <1>5 DEF Inv, TypeOK, StreamsTypeOK
  <2>2. \A e \in Calls : e # c => toHost'[e] = toHost[e]
    BY <1>5 DEF Inv, TypeOK, StreamsTypeOK
  <2>3. Ends(c)'
    BY <1>1, <1>2, <1>5 DEF Talk, Ends, Upload, hostVars
  <2>4. GuestSide(c)'
    <3>1. At(c, "get")'
      BY <1>0, <1>1, <1>2, <1>5
         DEF At, In, Taken, Prepared, Size, LengthOf, SendBlock, hostVars
    <3>2. QED
      BY <1>2, <1>5, <3>1 DEF GuestSide, Stages, Upload, hostVars
  <2>5. HostSide(c)'
    <3>1. toHost[c] \in Seq(Tokens)
      BY DEF Inv, TypeOK, StreamsTypeOK
    <3>2. ASSUME hostEnd[c] = "open", Waiting(c)
          PROVE  Current(c) = "get" /\ StartsWithReply(toHost'[c])
      BY <1>2, <2>1, <3>1, <3>2, ReplyStays DEF Delivering
    <3>3. Waiting(c)' = Waiting(c) /\ Current(c)' = Current(c)
      BY DEF Waiting, Current, Upload, hostVars
    <3>4. QED
      BY <1>1, <1>2, <1>5, <3>2, <3>3 DEF HostSide, Delivering, hostVars
  <2>6. QED
    BY <1>0, <1>1, <1>5, <2>2, <2>3, <2>4, <2>5, ServeClient DEF Talk
<1>6. QED
  BY <1>0, <1>3, <1>4, <1>5 DEF SendBlock

LEMMA SendDoneTalk ==
  ASSUME Inv, SendDone, UNCHANGED hostVars
  PROVE  Conversation'
<1>0. PICK c \in Calls : client = c
  BY ClientAtWork DEF SendDone
<1>1. phase = "send" /\ phase' = "command" /\ UNCHANGED <<client, socketVars>>
  BY DEF SendDone
<1>2. /\ toGuest[c] = <<>> /\ "get" \in Stages(c)
      /\ guestEnd[c] = "open" /\ Talk(c)
      /\ hostEnd[c] = "open" =>
           /\ pc[c] \notin Sending
           /\ Waiting(c) => Delivering(c, Current(c))
  BY <1>0, <1>1, SendingFile DEF Inv, Conversation
<1>3. Ends(c)'
  BY <1>1, <1>2 DEF Talk, Ends, Upload, hostVars, socketVars
<1>4. GuestSide(c)'
  <2>1. Len(toGuest'[c]) = 0
    BY <1>1, <1>2, EmptySeq DEF socketVars
  <2>2. Size(c, "get")' = 2 /\ Taken(c)' = 0
    BY <1>0, <1>1 DEF Size, LengthOf, Taken
  <2>3. At(c, "get")'
    BY <1>0, <1>1, <1>2, <2>1, <2>2 DEF At, socketVars
  <2>4. QED
    BY <1>1, <1>2, <2>3 DEF GuestSide, Stages, Upload, hostVars, socketVars
<1>5. HostSide(c)'
  BY <1>1, <1>2
     DEF HostSide, Delivering, Waiting, Current, Upload, hostVars, socketVars
<1>6. QED
  BY <1>0, <1>1, <1>3, <1>4, <1>5, ServeClient DEF Talk, socketVars

-----------------------------------------------------------------------------
(* Sessions come and go.                                                   *)

LEMMA CloseTalk ==
  ASSUME Inv, Close, UNCHANGED hostVars
  PROVE  Conversation'
<1>0. PICK c \in Calls : client = c
  BY ClientAtWork DEF Close
<1>1. /\ phase = "close" /\ client' = NoClient
      /\ guestEnd' = [guestEnd EXCEPT ![c] = "closed"]
      /\ UNCHANGED <<hostEnd, toGuest, toHost>>
  BY <1>0 DEF Close
<1>2. Talk(c) /\ guestEnd[c] \in {"open", "deaf"} /\ guestEnd'[c] = "closed"
  BY <1>0, <1>1
     DEF Inv, Conversation, SessionInv, OneSession, TypeOK, SocketTypeOK
<1>3. Ends(c)'
  BY <1>1, <1>2 DEF Talk, Ends, Upload, hostVars
<1>4. GuestSide(c)'
  BY <1>2 DEF GuestSide, Reading
<1>5. HostSide(c)'
  <2>1. SUFFICES ASSUME hostEnd[c] = "open"
                 PROVE  HostSide(c)'
    BY <1>1 DEF HostSide
  <2>2. pc[c] \notin Sending
    BY <1>1, <1>2, <2>1 DEF Talk, HostSide, AtRest
  <2>3. Waiting(c) => Over(c, Current(c))
    BY <1>0, <1>1, <1>2, <2>1
       DEF Talk, HostSide, Pending, Reading, Answered, Delivering
  <2>4. Waiting(c) => Over(c, Current(c))'
    BY <1>1, <1>2, <2>3 DEF Over, Current, hostVars
  <2>5. QED
    BY <2>2, <2>4 DEF HostSide, Waiting, Upload, hostVars
<1>6. \A e \in Calls : e # c => guestEnd'[e] = guestEnd[e]
  BY <1>1 DEF Inv, TypeOK, SocketTypeOK
<1>7. QED
  BY <1>0, <1>1, <1>3, <1>4, <1>5, <1>6, ServeClient DEF Talk

LEMMA AcceptTalk ==
  ASSUME Inv, Accept, UNCHANGED hostVars
  PROVE  Conversation'
<1>1. /\ phase = "accept" /\ backlog # <<>> /\ phase' = "command"
      /\ client' = Head(backlog) /\ path' = <<>> /\ client = NoClient
      /\ guestEnd' = [guestEnd EXCEPT ![Head(backlog)] = "open"]
      /\ UNCHANGED <<hostEnd, toGuest, toHost, guestFile, guestOwner>>
  BY DEF Accept, fileSystem, Inv, SessionInv, OneSession
<1>2. PICK c \in Calls : /\ c = Head(backlog) /\ guestEnd[c] = "queued"
                         /\ client' = c
  <2>1. backlog \in Seq(Calls)
    BY DEF Inv, TypeOK, SocketTypeOK
  <2>2. /\ Head(backlog) = backlog[1] /\ Head(backlog) \in Calls
        /\ 1 \in 1..Len(backlog)
    BY <1>1, <2>1
  <2>3. QED
    BY <1>1, <2>2 DEF Inv, SessionInv, OneSession
<1>3. /\ guestEnd'[c] = "open" /\ c # NoClient /\ Talk(c)
      /\ \A e \in Calls : e # c => guestEnd'[e] = guestEnd[e]
  BY <1>1, <1>2, NoneAssumption
     DEF Inv, Conversation, TypeOK, SocketTypeOK
<1>4. Taken(c) = 0 /\ Taken(c)' = 0
  BY <1>1, <1>2, <1>3 DEF Taken
<1>5. ASSUME At(c, First(c))
      PROVE  At(c, First(c))'
  <2>1. First(c)' = First(c) /\ First(c) = IF Upload(c) THEN "user" ELSE "path"
    BY DEF First, Upload, hostVars
  <2>2. Size(c, First(c))' = Size(c, First(c))
        /\ \A i : TokenOf(c, First(c), i)' = TokenOf(c, First(c), i)
    BY <2>1 DEF Size, TokenOf, LengthOf, StringOf, hostVars
  <2>3. Prepared(c, First(c))'
    BY <2>1 DEF Prepared, Upload, hostVars
  <2>4. \A i \in 1..Len(toGuest'[c]) :
          toGuest'[c][i] = TokenOf(c, First(c), i + Taken(c))'
    BY <1>1, <1>4, <1>5, <2>2 DEF At
  <2>5. QED
    BY <1>1, <1>4, <1>5, <2>2, <2>3, <2>4 DEF At
<1>6. Ends(c)'
  BY <1>1, <1>2, <1>3 DEF Talk, Ends, Upload, hostVars
<1>7. First(c) \in Stages(c) /\ Stages(c)' = Stages(c) /\ First(c)' = First(c)
  BY DEF First, Stages, Upload, hostVars
<1>8. GuestSide(c)'
  <2>1. Reading(c)
    BY <1>1, <1>2, <1>3 DEF Reading
  <2>2. At(c, First(c))
    BY <1>2, <1>3, <2>1 DEF Talk, GuestSide
  <2>3. QED
    BY <1>3, <1>5, <1>7, <2>2 DEF GuestSide
<1>9. HostSide(c)'
  <2>1. SUFFICES ASSUME hostEnd[c] = "open"
                 PROVE  HostSide(c)'
    BY <1>1 DEF HostSide
  <2>2. pc[c] \in Sending => AtRest(c)'
    <3>1. Reading(c)
      BY <1>1, <1>2, <1>3 DEF Reading
    <3>2. SUFFICES ASSUME pc[c] \in Sending
                   PROVE  AtRest(c)'
      OBVIOUS
    <3>3. pc[c] = First(c) /\ toGuest[c] = <<>> /\ toHost[c] = <<>>
      BY <1>2, <1>3, <2>1, <3>1, <3>2 DEF Talk, HostSide, AtRest
    <3>4. QED
      BY <1>1, <1>3, <3>3 DEF AtRest, First, Upload, hostVars
  <2>3. ASSUME Waiting(c)
        PROVE  Pending(c, Current(c))'
    <3>1. Pending(c, Current(c)) /\ Current(c) = First(c)
      BY <1>2, <1>3, <2>1, <2>3
         DEF Talk, HostSide, Pending, Answered, Delivering, Over
    <3>2. Current(c)' = Current(c) /\ Size(c, Current(c))' = Size(c, Current(c))
      BY DEF Current, Size, LengthOf, hostVars
    <3>3. At(c, Current(c))'
      BY <1>5, <1>7, <3>1, <3>2 DEF Pending
    <3>4. QED
      BY <1>1, <1>2, <1>3, <1>4, <3>1, <3>2, <3>3
         DEF Pending, Reading, hostVars
  <2>4. QED
    BY <2>2, <2>3 DEF HostSide, Waiting, Upload, hostVars
<1>10. QED
  BY <1>1, <1>2, <1>3, <1>6, <1>8, <1>9, ServeClient DEF Talk

-----------------------------------------------------------------------------
(* Every step.                                                             *)

LEMMA ProcessEndsTalk ==
  ASSUME Inv, ProcessEnds, UNCHANGED <<hostVars, hostEnd, toGuest>>
  PROVE  Conversation'
  BY EndOfTalks DEF Conversation

LEMMA StartTalk ==
  ASSUME Inv, Restart
  PROVE  Conversation'
<1>1. /\ client = NoClient /\ client' = NoClient
      /\ UNCHANGED <<socketVars, hostVars>>
  BY DEF Restart, Start, Inv, SessionInv, OneSession
<1>2. QED
  BY <1>1, OtherCall, NoneAssumption
     DEF Inv, Conversation, socketVars, hostVars

LEMMA TruncateTalk ==
  ASSUME Inv, NEW p \in FilePaths, Truncate(p), UNCHANGED hostVars
  PROVE  Conversation'
<1>1. SUFFICES ASSUME NEW c \in Calls
               PROVE  Talk(c)'
  BY DEF Conversation
<1>2. /\ "truncate" \in Faults /\ ~(phase = "recv" /\ path = p)
      /\ \A q : q # p => guestFile'[q] = guestFile[q]
      /\ UNCHANGED <<phase, client, cmd, len, path, target, loopVars,
                     guestOwner, socketVars, hostVars>> /\ Talk(c)
  BY DEF Truncate, Inv, Conversation, TypeOK, ServerTypeOK
<1>3. UNCHANGED <<hostEnd, guestEnd, toGuest, toHost, remains, req, pc, left,
                  ret, errcode>>
  BY <1>2 DEF socketVars, hostVars, loopVars
<1>4. ASSUME NEW s, At(c, s)
      PROVE  At(c, s)'
  <2>1. Size(c, s)' = Size(c, s) /\ Taken(c)' = Taken(c)
        /\ \A i : TokenOf(c, s, i)' = TokenOf(c, s, i)
    BY <1>2, <1>3 DEF Size, Taken, TokenOf, LengthOf, StringOf
  <2>2. Prepared(c, s) => Prepared(c, s)'
    BY <1>2, <1>3 DEF Prepared, RightTarget, KnownUser, WantedUid, Dest, Upload
  <2>3. In(c, s) /\ Prepared(c, s) => In(c, s)'
    <3>1. Dest(c)' = Dest(c) /\ LengthOf(c, s)' = LengthOf(c, s)
      BY <1>3 DEF Dest, LengthOf
    <3>2. In(c, s) /\ Prepared(c, s) /\ phase = "recv" =>
            guestFile'[Dest(c)] = guestFile[Dest(c)]
      <4>1. cmd # "recv"
        BY DEF Inv, TypeOK, ServerTypeOK, Commands, HandledCommands,
               ReservedCommands
      <4>2. QED
        BY <1>2, <4>1 DEF In, Prepared
    <3>3. QED
      BY <1>2, <1>3, <3>1, <3>2 DEF In
  <2>4. \A i \in 1..Len(toGuest'[c]) :
          toGuest'[c][i] = TokenOf(c, s, i + Taken(c))'
    BY <1>3, <1>4, <2>1 DEF At
  <2>5. QED
    BY <1>2, <1>3, <1>4, <2>1, <2>2, <2>3, <2>4 DEF At
<1>5. Ends(c)'
  BY <1>2, <1>3 DEF Talk, Ends, Upload
<1>6. GuestSide(c)'
  BY <1>2, <1>3, <1>4 DEF Talk, GuestSide, Reading, Stages, First, Upload
<1>7. HostSide(c)'
  <2>1. AtRest(c) => AtRest(c)'
    BY <1>2, <1>3
       DEF AtRest, Reading, First, RightTarget, KnownUser, WantedUid, Dest, Upload
  <2>2. ASSUME NEW s
        PROVE  /\ Pending(c, s) => Pending(c, s)'
               /\ Answered(c, s) => Answered(c, s)'
               /\ Delivering(c, s) => Delivering(c, s)'
               /\ Over(c, s) => Over(c, s)'
    <3>1. Size(c, s)' = Size(c, s) /\ Taken(c)' = Taken(c)
      BY <1>2, <1>3 DEF Size, Taken, LengthOf
    <3>2. Pending(c, s) => Pending(c, s)'
      BY <1>2, <1>3, <1>4, <3>1 DEF Pending, Reading, First, Upload
    <3>3. Answered(c, s) => Answered(c, s)'
      BY <1>2, <1>3
         DEF Answered, Stored, RightTarget, KnownUser, WantedUid, Dest, Upload
    <3>4. QED
      BY <1>2, <1>3, <3>2, <3>3 DEF Delivering, Over
  <2>3. QED
    BY <1>2, <1>3, <2>1, <2>2 DEF Talk, HostSide, Waiting, Current, Upload
<1>8. QED
  BY <1>5, <1>6, <1>7 DEF Talk

LEMMA ServeConversation ==
  ASSUME Inv, Serve
  PROVE  Conversation'
<1>1. CASE AcceptFails
  BY <1>1, ProcessEndsTalk DEF AcceptFails, Serve
<1>2. QED
  BY <1>1, AcceptTalk, CloseTalk, RecvCommandTalk, RecvLengthTalk, SetUserTalk,
     SetRemotePathTalk, SetFileNameTalk, CopyFileToGuestTalk, RecvBlockTalk,
     RecvDoneTalk, CopyFileFromGuestTalk, SendBlockTalk, SendDoneTalk
     DEF Serve, ServerStep

LEMMA NextConversation ==
  ASSUME Inv, [Next]_vars
  PROVE  Conversation'
<1>1. CASE Crash /\ UNCHANGED hostVars
  BY <1>1, ProcessEndsTalk DEF Crash
<1>2. CASE UNCHANGED vars
  BY <1>2, OtherThread
     DEF vars, socketVars, serverVars, hostVars, loopVars, fileSystem, Inv,
         Conversation
<1>3. QED
  BY <1>1, <1>2, ServeConversation, StartTalk, HostConversation, TruncateTalk,
     KillConversation
     DEF Next, Environment, Quiet

LEMMA InitConversation ==
  ASSUME Init
  PROVE  Conversation
<1>1. SUFFICES ASSUME NEW c \in Calls
               PROVE  Talk(c)
  BY DEF Conversation
<1>2. /\ hostEnd[c] = "none" /\ guestEnd[c] = "none" /\ pc[c] = "connect"
      /\ toGuest[c] = <<>> /\ toHost[c] = <<>> /\ ret[c] = "none"
      /\ errcode[c] = Stale
  BY DEF Init, SocketInit, HostInit
<1>3. QED
  BY <1>2 DEF Talk, Ends, GuestSide, HostSide, Reading

-----------------------------------------------------------------------------
(* The types of what a step changes; the session gives those of the rest.  *)

DaemonTypes ==
  /\ cmd \in Commands /\ len \in Nat \cup {-1}
  /\ path \in Paths /\ target \in Uids
  /\ remains \in Nat /\ ofs \in Nat
  /\ guestFile \in [FilePaths -> Seq(BlockTokens)]
  /\ guestOwner \in [FilePaths -> Uids \cup {NoFile}]
  /\ crashes \in 0..MaxCrashes

StreamTypes ==
  toGuest \in [Calls -> Seq(Tokens)] /\ toHost \in [Calls -> Seq(Tokens)]

LEMMA ReceiveTypes ==
  ASSUME Inv, NEW c \in Calls, NEW n \in Nat, Receive(c, n), Arrived(c, n)
  PROVE  toGuest' \in [Calls -> Seq(Tokens)]
<1>1. toGuest \in [Calls -> Seq(Tokens)] /\ Len(toGuest[c]) \in Nat
  BY DEF Inv, TypeOK, StreamsTypeOK
<1>2. \A i \in n + 1..Len(toGuest[c]) : toGuest[c][i] \in Tokens
  BY <1>1
<1>3. SubSeq(toGuest[c], n + 1, Len(toGuest[c])) \in Seq(Tokens)
  BY <1>1, <1>2, SubSeqProperties
<1>4. QED
  BY <1>1, <1>3 DEF Receive

LEMMA SendTypes ==
  ASSUME Inv, client \in Calls, NEW tokens \in Seq(Tokens), NEW end, NEW next,
         Send(tokens, end, next)
  PROVE  toHost' \in [Calls -> Seq(Tokens)]
<1>1. toHost \in [Calls -> Seq(Tokens)]
  BY DEF Inv, TypeOK, StreamsTypeOK
<1>2. toHost[client] \o tokens \in Seq(Tokens)
  BY <1>1, Join
<1>3. QED
  BY <1>1, <1>2 DEF Send, ProcessEnds

LEMMA ReplyTypes ==
  ASSUME Inv, client \in Calls, SendOk \/ \E error \in Results : SendError(error)
  PROVE  toHost' \in [Calls -> Seq(Tokens)]
  BY SendTypes, ReplyTokens DEF SendOk, SendError, Results

LEMMA SetUserTypes ==
  ASSUME Inv, SetUser
  PROVE  DaemonTypes' /\ StreamTypes'
<1>1. client \in Calls /\ DaemonTypes /\ StreamTypes
  BY ClientAtWork
     DEF SetUser, HandledCommands, Inv, TypeOK, ServerTypeOK, StreamsTypeOK,
         DaemonTypes, StreamTypes
<1>2. toHost' \in [Calls -> Seq(Tokens)]
  BY <1>1, ReplyTypes DEF SetUser, Results
<1>3. toGuest' \in [Calls -> Seq(Tokens)]
  BY <1>1, ReceiveTypes DEF SetUser, Arrived, DaemonTypes, StreamTypes
<1>4. target' \in Uids
  BY <1>1 DEF SetUser, DaemonTypes, UidsOf, Uids
<1>5. QED
  BY <1>1, <1>2, <1>3, <1>4
     DEF SetUser, DaemonTypes, StreamTypes, loopVars, fileSystem

LEMMA SetRemotePathTypes ==
  ASSUME Inv, SetRemotePath
  PROVE  DaemonTypes' /\ StreamTypes'
<1>1. client \in Calls /\ DaemonTypes /\ StreamTypes
  BY ClientAtWork
     DEF SetRemotePath, HandledCommands, Inv, TypeOK, ServerTypeOK,
         StreamsTypeOK, DaemonTypes, StreamTypes
<1>2. toHost' \in [Calls -> Seq(Tokens)]
  BY <1>1, ReplyTypes DEF SetRemotePath, Results
<1>3. toGuest' \in [Calls -> Seq(Tokens)]
  BY <1>1, ReceiveTypes DEF SetRemotePath, Arrived, DaemonTypes, StreamTypes
<1>4. path' \in Paths
  <2>1. PICK c \in Calls : client = c
    BY <1>1
  <2>2. phase = "SET_REMOTE_PATH" /\ phase \in HandledCommands
    BY DEF SetRemotePath, HandledCommands
  <2>3. "path" \in Stages(c) /\ CommandOf("path") = "SET_REMOTE_PATH"
    BY <2>1, <2>2, StageOfPhase DEF CommandOf
  <2>4. ASSUME Arrived(c, len), Receive(c, len), path' = Received
        PROVE  path' \in Paths
    <3>1. len # 0 => path' = req[c].rpath
      BY <2>1, <2>2, <2>3, <2>4, StringArrives DEF Received, StringOf
    <3>2. req[c].rpath \in Paths
      BY PathFacts DEF Inv, TypeOK, HostTypeOK
    <3>3. len = 0 => path' = <<>>
      BY <2>4 DEF Received
    <3>4. QED
      BY <3>1, <3>2, <3>3 DEF Paths
  <2>5. QED
    BY <1>1, <2>1, <2>4 DEF SetRemotePath, DaemonTypes
<1>5. QED
  BY <1>1, <1>2, <1>3, <1>4
     DEF SetRemotePath, DaemonTypes, StreamTypes, loopVars, fileSystem

LEMMA SetFileNameTypes ==
  ASSUME Inv, SetFileName
  PROVE  DaemonTypes' /\ StreamTypes'
<1>1. client \in Calls /\ DaemonTypes /\ StreamTypes
  BY ClientAtWork
     DEF SetFileName, HandledCommands, Inv, TypeOK, ServerTypeOK,
         StreamsTypeOK, DaemonTypes, StreamTypes
<1>2. toHost' \in [Calls -> Seq(Tokens)]
  BY <1>1, ReplyTypes DEF SetFileName, Results
<1>3. toGuest' \in [Calls -> Seq(Tokens)]
  BY <1>1, ReceiveTypes DEF SetFileName, Arrived, DaemonTypes, StreamTypes
<1>4. path' \in Paths
  <2>1. PICK c \in Calls : client = c
    BY <1>1
  <2>2. phase = "SET_FILE_NAME" /\ phase \in HandledCommands
    BY DEF SetFileName, HandledCommands
  <2>3. "name" \in Stages(c) /\ CommandOf("name") = "SET_FILE_NAME"
    BY <2>1, <2>2, StageOfPhase DEF CommandOf
  <2>4. len = 1
    BY <2>1, <2>2, <2>3, SameRequest DEF LengthOf
  <2>5. ASSUME Arrived(c, len), Receive(c, len), IsDirectory(path)
        PROVE  path \o <<Received>> \in Paths
    <3>1. Received = req[c].name
      BY <2>1, <2>2, <2>3, <2>4, <2>5, StringArrives DEF Received, StringOf
    <3>2. req[c].name \in Names
      BY RequestsAssumption DEF Inv, TypeOK, HostTypeOK
    <3>3. QED
      BY <1>1, <2>5, <3>1, <3>2, PathFacts DEF Paths, DaemonTypes
  <2>6. QED
    BY <1>1, <2>1, <2>5 DEF SetFileName, DaemonTypes
<1>5. QED
  BY <1>1, <1>2, <1>3, <1>4
     DEF SetFileName, DaemonTypes, StreamTypes, loopVars, fileSystem

LEMMA RecvCommandTypes ==
  ASSUME Inv, RecvCommand
  PROVE  DaemonTypes' /\ StreamTypes'
<1>1. client \in Calls /\ DaemonTypes /\ StreamTypes /\ phase = "command"
  BY ClientAtWork
     DEF RecvCommand, Inv, TypeOK, ServerTypeOK, StreamsTypeOK, DaemonTypes,
         StreamTypes
<1>2. PICK c \in Calls : client = c
  BY <1>1
<1>3. toGuest' \in [Calls -> Seq(Tokens)]
  BY <1>1, ReceiveTypes DEF RecvCommand, StreamTypes
<1>4. ASSUME guestEnd[c] = "open", Arrived(c, 1), Receive(c, 1)
      PROVE  Value(Head(toGuest[c])) \in Commands
  <2>1. PICK s \in Stages(c) : At(c, s)
    BY <1>1, <1>4 DEF Inv, Conversation, Talk, GuestSide, Reading
  <2>2. Taken(c) = 0
    BY <1>1 DEF Taken
  <2>3. Head(toGuest[c]) = TokenOf(c, s, 1)
    BY <1>4, <2>1, <2>2, TokenArrives DEF At
  <2>4. QED
    BY <2>3, StagesOfCall
       DEF TokenOf, Command, Value, CommandOf, Commands, HandledCommands
<1>5. cmd' \in Commands
  BY <1>1, <1>2, <1>4 DEF RecvCommand, DaemonTypes
<1>6. QED
  BY <1>1, <1>3, <1>5
     DEF RecvCommand, DaemonTypes, StreamTypes, loopVars, fileSystem

LEMMA RecvLengthTypes ==
  ASSUME Inv, RecvLength
  PROVE  DaemonTypes' /\ StreamTypes'
<1>1. client \in Calls /\ DaemonTypes /\ StreamTypes /\ phase = "length"
  BY ClientAtWork
     DEF RecvLength, Inv, TypeOK, ServerTypeOK, StreamsTypeOK, DaemonTypes,
         StreamTypes
<1>2. PICK c \in Calls : client = c
  BY <1>1
<1>3. toGuest' \in [Calls -> Seq(Tokens)]
  BY <1>1, ReceiveTypes DEF RecvLength, StreamTypes
<1>4. ASSUME Arrived(c, 1), Receive(c, 1)
      PROVE  Value(Head(toGuest[c])) \in Nat \cup {-1}
  <2>1. PICK s \in Stages(c) : At(c, s)
    BY <1>1, <1>2, AtWork
  <2>2. Taken(c) = 1
    BY <1>1, <1>2 DEF Taken
  <2>3. Head(toGuest[c]) = TokenOf(c, s, 2)
    BY <1>4, <2>1, <2>2, TokenArrives DEF At
  <2>4. LengthOf(c, s) \in Nat \cup {-1}
    BY <2>1, StagesOfCall, Sizes DEF Inv
  <2>5. Value(TokenOf(c, s, 2)) = LengthOf(c, s)
    BY DEF TokenOf, Length, Value
  <2>6. QED
    BY <2>3, <2>4, <2>5
<1>5. len' \in Nat \cup {-1}
  BY <1>1, <1>2, <1>4 DEF RecvLength, DaemonTypes
<1>6. QED
  BY <1>1, <1>3, <1>5
     DEF RecvLength, DaemonTypes, StreamTypes, loopVars, fileSystem

LEMMA CopyFileToGuestTypes ==
  ASSUME Inv, CopyFileToGuest
  PROVE  DaemonTypes' /\ StreamTypes'
<1>1. /\ client \in Calls /\ DaemonTypes /\ StreamTypes
      /\ phase = "COPY_FILE_TO_GUEST" /\ phase \in HandledCommands
  BY ClientAtWork
     DEF CopyFileToGuest, HandledCommands, Inv, TypeOK, ServerTypeOK,
         StreamsTypeOK, DaemonTypes, StreamTypes
<1>2. PICK c \in Calls : client = c
  BY <1>1
<1>3. toHost' \in [Calls -> Seq(Tokens)]
  BY <1>1, ReplyTypes DEF CopyFileToGuest, Results, StreamTypes
<1>4. len \in Nat
  <2>1. "copy" \in Stages(c) /\ CommandOf("copy") = "COPY_FILE_TO_GUEST"
    BY <1>1, <1>2, StageOfPhase DEF CommandOf
  <2>2. len = req[c].size
    BY <1>1, <1>2, <2>1, SameRequest DEF LengthOf
  <2>3. QED
    BY <2>1, <2>2, Sizes DEF Inv
<1>5. <<>> \in Seq(BlockTokens) /\ ServerUid \in Uids
  BY DEF Uids
<1>6. QED
  BY <1>1, <1>3, <1>4, <1>5
     DEF CopyFileToGuest, Opened, DaemonTypes, StreamTypes, loopVars,
         fileSystem

LEMMA RecvBlockTypes ==
  ASSUME Inv, RecvBlock
  PROVE  DaemonTypes' /\ StreamTypes'
<1>1. client \in Calls /\ DaemonTypes /\ StreamTypes /\ phase = "recv"
  BY ClientAtWork
     DEF RecvBlock, Inv, TypeOK, ServerTypeOK, StreamsTypeOK, DaemonTypes,
         StreamTypes
<1>2. PICK c \in Calls : client = c
  BY <1>1
<1>3. toHost' \in [Calls -> Seq(Tokens)]
  BY <1>1, ReplyTypes DEF RecvBlock, Results, StreamTypes
<1>4. toGuest' \in [Calls -> Seq(Tokens)]
  BY <1>1, ReceiveTypes DEF RecvBlock, StreamTypes
<1>5. ASSUME remains > 0, Arrived(c, 1), Receive(c, 1),
             guestFile' = [guestFile EXCEPT ![path] =
                             Append(@, Head(toGuest[c]))],
             remains' = remains - 1
      PROVE  guestFile' \in [FilePaths -> Seq(BlockTokens)] /\ remains' \in Nat
  <2>1. remains \in Nat \ {0} /\ Head(toGuest[c]) \in BlockTokens
    BY <1>1, <1>2, <1>5, NextBlock
  <2>2. path \in FilePaths
    <3>1. "copy" \in Stages(c) /\ Prepared(c, "copy")
      BY <1>1, <1>2, AtWork, LoopOfRequest
    <3>2. QED
      BY <3>1, DestIsFile DEF Prepared, Inv
  <2>3. QED
    BY <1>1, <1>5, <2>1, <2>2 DEF DaemonTypes
<1>6. guestFile' \in [FilePaths -> Seq(BlockTokens)] /\ remains' \in Nat
  BY <1>1, <1>2, <1>5 DEF RecvBlock, DaemonTypes
<1>7. QED
  BY <1>1, <1>3, <1>4, <1>6
     DEF RecvBlock, DaemonTypes, StreamTypes, loopVars, fileSystem

LEMMA RecvDoneTypes ==
  ASSUME Inv, RecvDone
  PROVE  DaemonTypes' /\ StreamTypes'
<1>1. client \in Calls /\ DaemonTypes /\ StreamTypes
  BY ClientAtWork
     DEF RecvDone, Inv, TypeOK, ServerTypeOK, StreamsTypeOK, DaemonTypes,
         StreamTypes
<1>2. toHost' \in [Calls -> Seq(Tokens)]
  BY <1>1, ReplyTypes DEF RecvDone
<1>3. QED
  BY <1>1, <1>2
     DEF RecvDone, DaemonTypes, StreamTypes, loopVars, fileSystem

LEMMA CopyFileFromGuestTypes ==
  ASSUME Inv, CopyFileFromGuest
  PROVE  DaemonTypes' /\ StreamTypes'
<1>1. client \in Calls /\ DaemonTypes /\ StreamTypes
  BY ClientAtWork
     DEF CopyFileFromGuest, HandledCommands, Inv, TypeOK, ServerTypeOK,
         StreamsTypeOK, DaemonTypes, StreamTypes
<1>2. MayRead(path) => FileSize(path) \in Nat
  BY FilesAssumption DEF FileSize, MayRead, Inv, TypeOK, ServerTypeOK
<1>3. toHost' \in [Calls -> Seq(Tokens)]
  BY <1>1, <1>2, ReplyTypes, SendTypes, ReplyTokens
     DEF CopyFileFromGuest, Results
<1>4. QED
  BY <1>1, <1>2, <1>3
     DEF CopyFileFromGuest, DaemonTypes, StreamTypes, loopVars, fileSystem

LEMMA SendBlockTypes ==
  ASSUME Inv, SendBlock
  PROVE  DaemonTypes' /\ StreamTypes'
<1>1. client \in Calls /\ DaemonTypes /\ StreamTypes /\ phase = "send"
  BY ClientAtWork
     DEF SendBlock, Inv, TypeOK, ServerTypeOK, StreamsTypeOK, DaemonTypes,
         StreamTypes
<1>2. PICK c \in Calls : client = c
  BY <1>1
<1>3. ASSUME ~IsDirectory(path), ofs < Len(guestFile[path])
      PROVE  guestFile[path][ofs + 1] \in Tokens
  <2>1. path = req[c].rpath
    BY <1>1, <1>2, SendingFile DEF At, Prepared
  <2>2. path \in FilePaths
    BY <1>3, <2>1, RequestsAssumption DEF Inv, TypeOK, HostTypeOK
  <2>3. guestFile[path] \in Seq(BlockTokens)
        /\ ofs + 1 \in 1..Len(guestFile[path])
    BY <1>1, <1>3, <2>2 DEF DaemonTypes
  <2>4. guestFile[path][ofs + 1] \in BlockTokens
    BY <2>3
  <2>5. QED
    BY <2>4 DEF Tokens
<1>4. toHost' \in [Calls -> Seq(Tokens)]
  <2>1. ASSUME NEW e \in Tokens,
               toHost' = [toHost EXCEPT ![client] = Append(@, e)]
        PROVE  toHost' \in [Calls -> Seq(Tokens)]
    BY <1>1, <2>1 DEF StreamTypes
  <2>2. CASE SendError("FILETRANSFER_ERROR")
    BY <1>1, <2>2, ReplyTypes DEF Results
  <2>3. QED
    BY <1>1, <1>3, <2>1, <2>2 DEF SendBlock, StreamTypes
<1>5. remains' \in Nat /\ ofs' \in Nat
  BY <1>1 DEF SendBlock, DaemonTypes, loopVars
<1>6. UNCHANGED <<cmd, len, path, target, guestFile, guestOwner, crashes,
                  toGuest>>
  BY DEF SendBlock, fileSystem
<1>7. QED
  BY <1>1, <1>4, <1>5, <1>6 DEF DaemonTypes, StreamTypes

LEMMA ServeTypes ==
  ASSUME Inv, Serve
  PROVE  DaemonTypes' /\ StreamTypes'
<1>1. DaemonTypes /\ StreamTypes
  BY DEF Inv, TypeOK, ServerTypeOK, StreamsTypeOK, DaemonTypes, StreamTypes
<1>2. CASE Accept \/ AcceptFails \/ Close \/ SendDone
  BY <1>1, <1>2
     DEF Accept, AcceptFails, Close, SendDone, ProcessEnds, DaemonTypes,
         StreamTypes, loopVars, fileSystem, socketVars, Paths, Uids
<1>3. QED
  BY <1>2, RecvCommandTypes, RecvLengthTypes, SetUserTypes, SetRemotePathTypes,
     SetFileNameTypes, CopyFileToGuestTypes, RecvBlockTypes, RecvDoneTypes,
     CopyFileFromGuestTypes, SendBlockTypes
     DEF Serve, ServerStep

-----------------------------------------------------------------------------
(* The engine.                                                             *)

LEMMA HostFields ==
  ASSUME Inv
  PROVE  /\ req \in [Calls -> Requests] /\ pc \in [Calls -> HostStates]
         /\ ret \in [Calls -> {"none", "TRUE", "FALSE", "killed"}]
         /\ errcode \in [Calls -> ErrorCodes] /\ left \in [Calls -> Nat]
         /\ dest \in [Calls -> {"none", "valid", "invalid", "closed"}]
         /\ toGuest \in [Calls -> Seq(Tokens)]
         /\ toHost \in [Calls -> Seq(Tokens)]
         /\ hostFile \in [Calls -> Seq(Tokens)]
  BY DEF Inv, TypeOK, StreamsTypeOK, HostTypeOK

\* The result of a call.
ResultTypes ==
  /\ pc \in [Calls -> HostStates]
  /\ ret \in [Calls -> {"none", "TRUE", "FALSE", "killed"}]
  /\ errcode \in [Calls -> ErrorCodes]
  /\ dest \in [Calls -> {"none", "valid", "invalid", "closed"}]

LEMMA GotoTypes ==
  ASSUME Inv, NEW c \in Calls, NEW next \in HostStates, Goto(c, next),
         UNCHANGED dest
  PROVE  ResultTypes'
  BY HostFields DEF Goto, ResultTypes

LEMMA ReturnTypes ==
  ASSUME Inv, NEW c \in Calls, NEW result \in {"TRUE", "FALSE", "killed"},
         NEW code \in ErrorCodes, Return(c, result, code)
  PROVE  ResultTypes'
  BY HostFields DEF Return, ResultTypes, HostStates

LEMMA FailTypes ==
  ASSUME Inv, NEW c \in Calls, NEW code \in ErrorCodes, Fail(c, code)
  PROVE  ResultTypes'
  BY ReturnTypes DEF Fail, ErrorCodes

LEMMA SucceedTypes ==
  ASSUME Inv, NEW c \in Calls, Succeed(c)
  PROVE  ResultTypes'
<1>1. Stale \in ErrorCodes /\ errcode[c] \in ErrorCodes
  BY HostFields DEF ErrorCodes
<1>2. CASE dest[c] = "invalid"
  BY <1>1, <1>2, FailTypes DEF Succeed
<1>3. CASE dest[c] # "invalid"
  BY <1>1, <1>3, ReturnTypes DEF Succeed
<1>4. QED
  BY <1>2, <1>3

LEMMA SentTypes ==
  ASSUME Inv, NEW c \in Calls, NEW q \in Seq(Tokens), toGuest' = Sent(c, q)
  PROVE  toGuest' \in [Calls -> Seq(Tokens)]
  BY HostFields, Join DEF Sent

LEMMA SendDataTypes ==
  ASSUME Inv, NEW c \in Calls, NEW q \in Seq(Tokens), NEW next \in HostStates,
         NEW code \in ErrorCodes, SendData(c, q, next, code)
  PROVE  ResultTypes' /\ toGuest' \in [Calls -> Seq(Tokens)]
  BY SentTypes, GotoTypes, FailTypes, HostFields DEF SendData

LEMMA GetCommandResultTypes ==
  ASSUME Inv, NEW c \in Calls, GetCommandResult(c)
  PROVE  toHost' \in [Calls -> Seq(Tokens)]
<1>1. toHost \in [Calls -> Seq(Tokens)] /\ Len(toHost[c]) \in Nat
  BY HostFields
<1>2. \A i \in 3..Len(toHost[c]) : toHost[c][i] \in Tokens
  BY <1>1
<1>3. SubSeq(toHost[c], 3, Len(toHost[c])) \in Seq(Tokens)
  BY <1>1, <1>2, SubSeqProperties
<1>4. QED
  BY <1>1, <1>3 DEF GetCommandResult

LEMMA NoCommandResultTypes ==
  ASSUME Inv, NEW c \in Calls, NoCommandResult(c)
  PROVE  ResultTypes' /\ toHost' \in [Calls -> Seq(Tokens)]
  BY FailTypes, HostFields DEF NoCommandResult, ErrorCodes

LEMMA AwaitReplyTypes ==
  ASSUME Inv, NEW c \in Calls, NEW next \in HostStates, NEW code \in ErrorCodes,
         AwaitReply(c, next, code)
  PROVE  ResultTypes' /\ toHost' \in [Calls -> Seq(Tokens)]
  BY GotoTypes, FailTypes, GetCommandResultTypes, NoCommandResultTypes
     DEF AwaitReply

LEMMA HostTypes ==
  ASSUME Inv, NEW c \in Calls, Host(c)
  PROVE  HostTypeOK' /\ StreamsTypeOK'
<1> DEFINE Rest == /\ req' = req /\ left' \in [Calls -> Nat]
                   /\ toGuest' \in [Calls -> Seq(Tokens)]
                   /\ toHost' \in [Calls -> Seq(Tokens)]
                   /\ hostFile' \in [Calls -> Seq(Tokens)]
<1>1. SUFFICES ResultTypes' /\ Rest
  BY HostFields DEF ResultTypes, HostTypeOK, StreamsTypeOK
<1>2. CASE Connect(c, Listening)
  <2>1. \A code \in ConnectErrors : code \in ErrorCodes
    BY DEF ConnectErrors, ErrorCodes
  <2>2. "ERR_CONNECT_CONNECT" \in ErrorCodes
    BY DEF ErrorCodes
  <2>3. ResultTypes'
    BY <1>2, <2>1, <2>2, HostFields, FailTypes
       DEF Connect, ResultTypes, HostStates
  <2>4. QED
    BY <1>2, <2>3, HostFields DEF Connect
<1>3. CASE SendUser(c)
  <2>1. /\ CommandOf("user") = "SET_USER" /\ StringOf(c, "user") = req[c].user
        /\ LengthOf(c, "user") = UserLength(req[c].user)
    BY DEF CommandOf, StringOf, LengthOf
  <2>2. PICK q : q = Header("SET_USER", UserLength(req[c].user))
                       \o Units(req[c].user, UserLength(req[c].user))
    OBVIOUS
  <2>3. q \in Seq(Tokens)
    BY <2>1, <2>2, RequestTokens DEF Inv
  <2>4. SendData(c, q, "user?", "ERR_SEND_DATA")
    BY <1>3, <2>2 DEF SendUser
  <2>5. QED
    BY <1>3, <2>3, <2>4, SendDataTypes, HostFields
       DEF SendUser, HostStates, ErrorCodes
<1>4. CASE SendPath(c)
  <2>1. /\ CommandOf("path") = "SET_REMOTE_PATH"
        /\ StringOf(c, "path") = req[c].rpath
        /\ LengthOf(c, "path") = PathUnits(req[c].rpath)
    BY DEF CommandOf, StringOf, LengthOf
  <2>2. PICK q : q = Header("SET_REMOTE_PATH", PathUnits(req[c].rpath))
                       \o Units(req[c].rpath, PathUnits(req[c].rpath))
    OBVIOUS
  <2>3. q \in Seq(Tokens)
    BY <2>1, <2>2, RequestTokens DEF Inv
  <2>4. SendData(c, q, "path?", "ERR_SEND_DATA")
    BY <1>4, <2>2 DEF SendPath
  <2>5. QED
    BY <1>4, <2>3, <2>4, SendDataTypes, HostFields
       DEF SendPath, HostStates, ErrorCodes
<1>5. CASE SendName(c)
  <2>1. /\ CommandOf("name") = "SET_FILE_NAME" /\ LengthOf(c, "name") = 1
        /\ StringOf(c, "name") = req[c].name
    BY DEF CommandOf, StringOf, LengthOf
  <2>2. PICK q : q = Header("SET_FILE_NAME", 1) \o Units(req[c].name, 1)
    OBVIOUS
  <2>3. q \in Seq(Tokens)
    BY <2>1, <2>2, RequestTokens DEF Inv
  <2>4. SendData(c, q, "name?", "ERR_SEND_DATA")
    BY <1>5, <2>2 DEF SendName
  <2>5. QED
    BY <1>5, <2>3, <2>4, SendDataTypes, HostFields
       DEF SendName, HostStates, ErrorCodes
<1>6. CASE AwaitUser(c) \/ AwaitPath(c) \/ AwaitName(c)
  <2>1. {"path", "name", "dest", "source"} \subseteq HostStates
    BY DEF HostStates
  <2>2. {errcode[c], "ERR_INALID_REMOETE_PATH", "ERR_COPY_FILE_TO_GUEST"}
          \subseteq ErrorCodes
    BY HostFields DEF ErrorCodes
  <2>3. ASSUME NEW next \in HostStates, NEW code \in ErrorCodes,
               AwaitReply(c, next, code),
               UNCHANGED <<req, left, hostFile, guestEnd, toGuest, backlog>>
        PROVE  ResultTypes' /\ Rest
    BY <2>3, AwaitReplyTypes, HostFields
  <2>4. CASE AwaitUser(c)
    BY <2>1, <2>2, <2>3, <2>4 DEF AwaitUser
  <2>5. CASE AwaitPath(c)
    BY <2>1, <2>2, <2>3, <2>5 DEF AwaitPath
  <2>6. CASE AwaitName(c)
    BY <2>1, <2>2, <2>3, <2>6 DEF AwaitName
  <2>7. QED
    BY <1>6, <2>4, <2>5, <2>6
<1>7. CASE OpenSource(c)
  <2>1. /\ Header("COPY_FILE_TO_GUEST", req[c].size) \in Seq(Tokens)
        /\ req[c].size \in Nat
    BY HeaderTokens, HostFields, RequestsAssumption
       DEF Inv, CommandOf, LengthOf
  <2>2. ResultTypes' /\ toGuest' \in [Calls -> Seq(Tokens)]
    BY <1>7, <2>1, SendDataTypes, FailTypes, HostFields
       DEF OpenSource, HostStates, ErrorCodes
  <2>3. QED
    BY <1>7, <2>1, <2>2, HostFields DEF OpenSource
<1>8. CASE TransmitBlock(c)
  <2>1. \A z \in Nat : <<Block(c, z)>> \in Seq(Tokens)
    BY DEF Block, Tokens, BlockTokens
  <2>2. left[c] \in Nat
    BY HostFields
  <2>3. req[c].size - left[c] + 1 \in Nat
    <3>1. left[c] <= req[c].size
      BY <1>8 DEF TransmitBlock, Inv, Conversation, Talk, Ends
    <3>2. req[c].size \in Nat
      BY HostFields, RequestsAssumption
    <3>3. QED
      BY <2>2, <3>1, <3>2
  <2>4. ResultTypes' /\ toGuest' \in [Calls -> Seq(Tokens)]
    BY <1>8, <2>1, <2>3, SendDataTypes, FailTypes, HostFields
       DEF TransmitBlock, HostStates, ErrorCodes
  <2>5. left' \in [Calls -> Nat]
    <3>1. left[c] > 0 => left[c] - 1 \in Nat
      BY <2>2
    <3>2. QED
      BY <1>8, <3>1, HostFields DEF TransmitBlock
  <2>6. QED
    BY <1>8, <2>4, <2>5, HostFields DEF TransmitBlock
<1>9. CASE AwaitCopy(c)
  BY <1>9, GetCommandResultTypes, NoCommandResultTypes, SucceedTypes, FailTypes,
     HostFields
     DEF AwaitCopy, ErrorCodes
<1>10. CASE OpenDest(c)
  <2>1. <<>> \in Seq(Tokens)
    OBVIOUS
  <2>2. hostFile' \in [Calls -> Seq(Tokens)]
    BY <1>10, <2>1, HostFields DEF OpenDest, Created
  <2>3. ResultTypes'
    BY <1>10, HostFields DEF OpenDest, Goto, ResultTypes, HostStates
  <2>4. QED
    BY <1>10, <2>2, <2>3, HostFields DEF OpenDest
<1>11. CASE SendGet(c)
  <2>1. Header("COPY_FILE_FROM_GUEST", 0) \in Seq(Tokens)
    BY HeaderTokens DEF Inv, CommandOf, LengthOf
  <2>2. QED
    BY <1>11, <2>1, SendDataTypes, HostFields
       DEF SendGet, HostStates, ErrorCodes
<1>12. CASE AwaitFile(c)
  <2>1. ResultTypes' /\ toHost' \in [Calls -> Seq(Tokens)]
    BY <1>12, AwaitReplyTypes DEF AwaitFile, HostStates, ErrorCodes
  <2>2. ASSUME pc'[c] = "data"
        PROVE  ReplyLength(c) \in Nat
    <3>1. GetCommandResult(c)
      BY <1>12, <2>2, HostFields
         DEF AwaitFile, AwaitReply, NoCommandResult, Fail, Return
    <3>2. Len(toHost[c]) >= 2 /\ toHost[c] # <<>>
      BY <3>1, HostFields DEF GetCommandResult
    <3>3. Over(c, "get") \/ Delivering(c, "get")
      BY <1>12, <3>2
         DEF AwaitFile, Inv, Conversation, Talk, Ends, HostSide, Waiting, Current,
             Pending, Answered
    <3>4. StartsWithReply(toHost[c]) \/ \E r \in Results : toHost[c] = Reply(r, 0)
      BY <3>2, <3>3 DEF Over, Delivering
    <3>5. QED
      BY <3>4, ReplyTokens DEF StartsWithReply, ReplyLength, Value
  <2>3. left' \in [Calls -> Nat]
    BY <1>12, <2>2, HostFields DEF AwaitFile
  <2>4. QED
    BY <1>12, <2>1, <2>3, HostFields DEF AwaitFile
<1>13. CASE ReceiveBlock(c)
  <2>1. toHost[c] # <<>> =>
          Head(toHost[c]) \in Tokens /\ Tail(toHost[c]) \in Seq(Tokens)
    BY HostFields
  <2>2. ResultTypes'
    BY <1>13, GotoTypes, FailTypes, SucceedTypes
       DEF ReceiveBlock, HostStates, ErrorCodes
  <2>3. toHost' \in [Calls -> Seq(Tokens)]
    BY <1>13, <2>1, HostFields DEF ReceiveBlock
  <2>4. hostFile' \in [Calls -> Seq(Tokens)]
    <3>1. ASSUME NEW e \in Tokens
          PROVE  Append(hostFile[c], e) \in Seq(Tokens)
      BY HostFields
    <3>2. CASE toHost[c] # <<>> /\
                 hostFile' = [hostFile EXCEPT ![c] = Append(@, Head(toHost[c]))]
      BY <2>1, <3>1, <3>2, HostFields
    <3>3. QED
      BY <1>13, <3>2, HostFields DEF ReceiveBlock
  <2>5. left' \in [Calls -> Nat]
    <3>1. left[c] \in Nat /\ left[c] > 0
      BY <1>13, HostFields DEF ReceiveBlock
    <3>2. left[c] - 1 \in Nat
      BY <3>1
    <3>3. left' = left \/ left' = [left EXCEPT ![c] = @ - 1]
      BY <1>13 DEF ReceiveBlock
    <3>4. QED
      BY <3>2, <3>3, HostFields
  <2>6. QED
    BY <1>13, <2>2, <2>3, <2>4, <2>5, HostFields DEF ReceiveBlock
<1>14. CASE ReceiveDone(c)
  BY <1>14, SucceedTypes, HostFields DEF ReceiveDone
<1>15. QED
  BY <1>2, <1>3, <1>4, <1>5, <1>6, <1>7, <1>8, <1>9, <1>10, <1>11, <1>12,
     <1>13, <1>14
     DEF Host, HostStep

-----------------------------------------------------------------------------
(* The invariant, and what follows from it.                                *)

LEMMA NextTypes ==
  ASSUME Inv, [Next]_vars
  PROVE  TypeOK'
<1>1. /\ SocketTypeOK' /\ phase' \in Phases /\ client' \in Calls \cup {NoClient}
  BY NextSession DEF Inv, SessionInv
<1>2. /\ DaemonTypes /\ StreamTypes /\ HostTypeOK
      /\ hostFile \in [Calls -> Seq(Tokens)]
  BY DEF Inv, TypeOK, ServerTypeOK, StreamsTypeOK, DaemonTypes, StreamTypes
<1>3. ASSUME DaemonTypes', StreamTypes', UNCHANGED hostVars
      PROVE  TypeOK'
  BY <1>1, <1>2, <1>3
     DEF TypeOK, ServerTypeOK, StreamsTypeOK, DaemonTypes, StreamTypes,
         HostTypeOK, hostVars
<1>4. ASSUME HostTypeOK', StreamsTypeOK', UNCHANGED serverVars
      PROVE  TypeOK'
  BY <1>1, <1>2, <1>4
     DEF TypeOK, ServerTypeOK, DaemonTypes, serverVars, loopVars, fileSystem
<1>5. CASE Serve
  BY <1>3, <1>5, ServeTypes DEF Serve
<1>6. CASE \E c \in Calls : Host(c)
  BY <1>4, <1>6, HostTypes DEF Host
<1>7. CASE Restart \/ Quiet \/ UNCHANGED vars
  <2>1. UNCHANGED <<cmd, len, path, target, loopVars, fileSystem, crashes,
                    toGuest, toHost, hostVars>>
    BY <1>7 DEF Restart, Start, Quiet, vars, serverVars, socketVars
  <2>2. QED
    BY <1>2, <1>3, <2>1 DEF DaemonTypes, StreamTypes, loopVars, fileSystem
<1>8. CASE Crash /\ UNCHANGED hostVars
  <2>1. crashes' \in 0..MaxCrashes
    BY <1>2, <1>8, CrashesAssumption DEF Crash, DaemonTypes
  <2>2. QED
    BY <1>2, <1>3, <1>8, <2>1
       DEF Crash, ProcessEnds, DaemonTypes, StreamTypes, loopVars, fileSystem
<1>9. CASE \E p \in FilePaths : Truncate(p) /\ UNCHANGED hostVars
  <2>1. <<>> \in Seq(BlockTokens)
    OBVIOUS
  <2>2. QED
    BY <1>2, <1>3, <1>9, <2>1
       DEF Truncate, DaemonTypes, StreamTypes, loopVars, socketVars
<1>10. CASE \E c \in Calls : Kill(c) /\ UNCHANGED serverVars
  <2>1. PICK c \in Calls : Kill(c) /\ UNCHANGED serverVars
    BY <1>10
  <2>2. ResultTypes'
    BY <2>1, ReturnTypes, HostFields DEF Kill
  <2>3. \A n \in 0..Len(toGuest[c]) : SubSeq(toGuest[c], 1, n) \in Seq(Tokens)
    BY <1>2, SubSeqProperties DEF StreamTypes
  <2>4. toGuest' \in [Calls -> Seq(Tokens)]
    BY <1>2, <2>1, <2>3 DEF Kill, StreamTypes
  <2>5. QED
    BY <1>2, <1>4, <2>1, <2>2, <2>4
       DEF Kill, ResultTypes, StreamsTypeOK, StreamTypes, HostTypeOK
<1>11. QED
  BY <1>5, <1>6, <1>7, <1>8, <1>9, <1>10 DEF Next, Environment

LEMMA InitTypes ==
  ASSUME Init
  PROVE  TypeOK
<1>1. SocketTypeOK
  BY DEF Init, SocketInit, SocketTypeOK
<1>2. \A e \in Calls \cup FilePaths, n \in Nat :
        Blocks(e, n) \in Seq(BlockTokens) /\ Blocks(e, n) \in Seq(Tokens)
  BY DEF Blocks, Block, BlockTokens, Tokens
<1>3. <<>> \in Seq(Tokens) /\ <<>> \in Seq(BlockTokens)
  OBVIOUS
<1>4. StreamsTypeOK
  BY <1>2, <1>3 DEF Init, SocketInit, HostInit, OldLocal, StreamsTypeOK
<1>5. guestFile \in [FilePaths -> Seq(BlockTokens)]
  BY <1>2, <1>3, FilesAssumption DEF Init, ServerInit
<1>6. ServerTypeOK
  BY <1>5, CrashesAssumption
     DEF Init, ServerInit, ServerTypeOK, Phases, Commands, HandledCommands,
         Paths, Uids
<1>7. HostTypeOK
  BY DEF Init, HostInit, HostTypeOK, HostStates, ErrorCodes
<1>8. QED
  BY <1>1, <1>4, <1>6, <1>7 DEF TypeOK

LEMMA InvInit == Init => Inv
  BY InitTypes, SessionInit, InitConversation DEF Inv

LEMMA InvNext == Inv /\ [Next]_vars => Inv'
  BY NextTypes, NextSession, NextConversation DEF Inv

\* Every variable of the sockets, the daemon and the engine keeps its type:
\* command_loop never reads anything but a command and a length where it
\* reads one, and GetCommandResult never anything but the size of a file.
THEOREM TypeOKAlways == Spec => []TypeOK
<1>1. Inv => TypeOK
  BY DEF Inv
<1>2. QED
  BY <1>1, InvInit, InvNext, PTL DEF Spec

\* The requests of every call that are under way are what the daemon has read
\* of them and what the streams hold, whatever fails and in whatever order.
THEOREM ConversationAlways == Spec => []Conversation
<1>1. Inv => Conversation
  BY DEF Inv
<1>2. QED
  BY <1>1, InvInit, InvNext, PTL DEF Spec

\* Nobody takes bytes for something else than they were meant.
LEMMA TalkAligned ==
  ASSUME Inv
  PROVE  Aligned
<1>1. ASSUME client # NoClient, guestEnd[client] = "open"
      PROVE  /\ phase = "command" => NextIs(toGuest[client], "command")
             /\ phase = "length"  => NextIs(toGuest[client], "length")
             /\ phase \in {"SET_USER", "SET_REMOTE_PATH", "SET_FILE_NAME"}
                  /\ len # 0 => NextIs(toGuest[client], "text")
             /\ phase = "recv" /\ remains > 0 => NextIs(toGuest[client], "block")
  <2>1. PICK c \in Calls : client = c /\ Talk(c)
    BY <1>1 DEF Inv, SessionInv, Conversation
  <2>2. SUFFICES ASSUME toGuest[c] # <<>>, phase # "close"
                 PROVE  /\ phase = "command" => Kind(Head(toGuest[c])) = "command"
                        /\ phase = "length" => Kind(Head(toGuest[c])) = "length"
                        /\ phase \in {"SET_USER", "SET_REMOTE_PATH",
                                     "SET_FILE_NAME"}
                             => Kind(Head(toGuest[c])) = "text"
                        /\ phase = "recv" /\ remains > 0
                             => Kind(Head(toGuest[c])) = "block"
    BY <2>1 DEF NextIs
  <2>3. PICK s \in Stages(c) : At(c, s)
    BY <1>1, <2>1, <2>2 DEF Talk, GuestSide, Reading
  <2>4. s \in {"user", "path", "name", "copy", "get"}
    BY StagesOfCall
  <2>5. /\ Head(toGuest[c]) = toGuest[c][1] /\ 1 \in 1..Len(toGuest[c])
        /\ Taken(c) \in Int /\ req[c].size \in Nat
    BY <2>2, <2>4, Sizes DEF Inv
  <2>6. Head(toGuest[c]) = TokenOf(c, s, 1 + Taken(c))
    BY <2>3, <2>5 DEF At
  <2>7. phase # "command" => In(c, s)
    BY <2>1, <2>3 DEF At
  <2>8. CASE phase \in {"command", "length", "SET_USER", "SET_REMOTE_PATH",
                       "SET_FILE_NAME"}
    BY <2>1, <2>4, <2>6, <2>7, <2>8
       DEF Taken, In, CommandOf, TokenOf, Command, Length, Text, Kind
  <2>9. CASE phase = "recv" /\ remains > 0
    <3>1. s = "copy" /\ remains \in Nat /\ remains <= req[c].size
      BY <2>4, <2>7, <2>9 DEF In, CommandOf, Inv, TypeOK, ServerTypeOK
    <3>2. PICK n \in Nat : n = req[c].size - remains
      BY <2>5, <3>1
    <3>3. 1 + Taken(c) = 3 + n
      BY <2>1, <2>5, <2>9, <3>1, <3>2 DEF Taken
    <3>4. QED
      BY <2>6, <2>9, <3>1, <3>2, <3>3 DEF TokenOf, Block, Kind
  <2>10. QED
    BY <2>8, <2>9
<1>2. ASSUME NEW c \in Calls,
             \/ pc[c] \in {"user?", "path?", "name?", "file?"}
             \/ pc[c] = "data" /\ Upload(c) /\ left[c] = 0
      PROVE  NextIs(toHost[c], "result")
  <2>1. Talk(c) /\ Waiting(c)
    BY <1>2 DEF Inv, Conversation, Waiting
  <2>2. hostEnd[c] = "open"
    BY <1>2, <2>1 DEF Talk, Ends
  <2>3. \/ toHost[c] = <<>> \/ StartsWithReply(toHost[c])
        \/ \E r \in Results : toHost[c] = Reply(r, 0)
    BY <2>1, <2>2 DEF Talk, HostSide, Pending, Answered, Delivering, Over, Results
  <2>4. toHost[c] # <<>> => StartsWithReply(toHost[c])
    BY <2>3, ReplyTokens
  <2>5. toHost[c] # <<>> => Head(toHost[c]) = toHost[c][1]
    BY HostFields
  <2>6. QED
    BY <2>4, <2>5 DEF NextIs, StartsWithReply, Kind
<1>3. QED
  BY <1>1, <1>2 DEF Aligned

\* Neither program ever takes the bytes it reads for something else than the
\* other one meant (GetCommandResult, command_loop and its handlers), for any
\* number of calls, any requests and any combination of faults.
THEOREM AlignedAlways == Spec => []Aligned
<1>1. Inv => Aligned
  BY TalkAligned
<1>2. QED
  BY <1>1, InvInit, InvNext, PTL DEF Spec

\* What recv_file has stored is the start of the file of its own client.
LEMMA TalkStores == Inv => StoresSource
<1>1. ASSUME Inv, phase = "recv"
      PROVE  /\ path = Dest(client) /\ Upload(client)
             /\ guestFile[path] =
                  SubSeq(Source(client), 1, req[client].size - remains)
  <2>1. PICK c \in Calls : client = c
    BY <1>1, ClientAtWork
  <2>2. /\ In(c, "copy") /\ Prepared(c, "copy") /\ "copy" \in Stages(c)
    BY <1>1, <2>1, AtWork, LoopOfRequest
  <2>3. path = Dest(c) /\ Upload(c) /\ path \in FilePaths
    BY <1>1, <2>2, DestIsFile DEF Prepared, Stages, Inv
  <2>4. /\ remains \in Nat /\ req[c].size \in Nat /\ remains <= req[c].size
    BY <1>1, <2>2, Sizes DEF In, Inv, TypeOK, ServerTypeOK
  <2>5. PICK n \in Nat : n = req[c].size - remains /\ n <= req[c].size
    BY <2>4
  <2>6. Source(c) \in Seq(BlockTokens) /\ Len(Source(c)) = req[c].size
        /\ \A i \in 1..req[c].size : Source(c)[i] = Block(c, i)
    BY <2>4 DEF Source, Blocks, Block, BlockTokens
  <2>7. /\ SubSeq(Source(c), 1, n) \in Seq(BlockTokens)
        /\ Len(SubSeq(Source(c), 1, n)) = n
        /\ \A i \in 1..n : SubSeq(Source(c), 1, n)[i] = Block(c, i)
    <3>1. \A i \in 1..n : Source(c)[i] \in BlockTokens
      BY <2>4, <2>5, <2>6
    <3>2. /\ SubSeq(Source(c), 1, n) \in Seq(BlockTokens)
          /\ Len(SubSeq(Source(c), 1, n)) = IF 1 <= n THEN n - 1 + 1 ELSE 0
          /\ \A i \in 1..n - 1 + 1 : SubSeq(Source(c), 1, n)[i]
                                       = Source(c)[1 + i - 1]
      BY <3>1, SubSeqProperties
    <3>3. \A i \in 1..n : i \in 1..n - 1 + 1 /\ 1 + i - 1 = i
                           /\ i \in 1..req[c].size
      BY <2>4, <2>5
    <3>4. \A i \in 1..n : SubSeq(Source(c), 1, n)[i] = Block(c, i)
      BY <2>6, <3>2, <3>3
    <3>5. Len(SubSeq(Source(c), 1, n)) = n
      BY <2>5, <3>2
    <3>6. QED
      BY <3>2, <3>4, <3>5
  <2>8. /\ guestFile[path] \in Seq(BlockTokens) /\ Len(guestFile[path]) = n
        /\ \A i \in 1..n : guestFile[path][i] = Block(c, i)
    BY <1>1, <2>2, <2>3, <2>5 DEF In, Inv, TypeOK, ServerTypeOK
  <2>9. guestFile[path] = SubSeq(Source(c), 1, n)
    BY <2>7, <2>8, SeqEqual
  <2>10. QED
    BY <2>1, <2>3, <2>5, <2>9
<1>2. QED
  BY <1>1 DEF StoresSource

\* recv_file never stores anything but the next block of its client's file.
THEOREM StoresSourceAlways == Spec => []StoresSource
  BY TalkStores, InvInit, InvNext, PTL DEF Spec

LEMMA StepWritesOwnFile ==
  ASSUME Inv, [Next]_vars, "truncate" \notin Faults
  PROVE  [WritesOwnFile]_vars
<1>1. ASSUME NEW p \in FilePaths,
             guestFile'[p] # guestFile[p] \/ guestOwner'[p] # guestOwner[p],
             NEW c \in Calls, client = c, phase \in {"COPY_FILE_TO_GUEST", "recv"},
             p = path
      PROVE  /\ client # NoClient /\ Upload(client) /\ Dest(client) = p
             /\ pc[client] \in {"data", "returned"}
             /\ errcode[client] # "ERR_COPY_FILE_TO_GUEST_SRC_OPEN"
  <2>1. PICK s \in Stages(c) : In(c, s) /\ Prepared(c, s)
    BY <1>1, AtWork
  <2>2. s = "copy"
    BY <1>1, <2>1, StagesOfCall DEF In, CommandOf
  <2>3. QED
    BY <1>1, <2>1, <2>2, NoneAssumption DEF Prepared, Stages
<1>2. guestFile \in [FilePaths -> Seq(BlockTokens)]
      /\ guestOwner \in [FilePaths -> Uids \cup {NoFile}]
  BY DEF Inv, TypeOK, ServerTypeOK
<1>3. CASE CopyFileToGuest \/ RecvBlock \/ RecvDone
  <2>1. client \in Calls /\ phase \in {"COPY_FILE_TO_GUEST", "recv"}
    BY <1>3, ClientAtWork
       DEF CopyFileToGuest, RecvBlock, RecvDone, HandledCommands
  <2>2. \A p \in FilePaths :
          guestFile'[p] # guestFile[p] \/ guestOwner'[p] # guestOwner[p]
            => p = path
    BY <1>2, <1>3 DEF CopyFileToGuest, RecvBlock, RecvDone, fileSystem
  <2>3. QED
    BY <1>1, <2>1, <2>2 DEF WritesOwnFile
<1>4. CASE UNCHANGED fileSystem
  BY <1>4 DEF fileSystem, WritesOwnFile
<1>5. CASE Serve
  BY <1>3, <1>4, <1>5
     DEF Serve, ServerStep, Accept, AcceptFails, Close, RecvCommand, RecvLength,
         SetUser, SetRemotePath, SetFileName, CopyFileFromGuest, SendBlock,
         SendDone
<1>6. QED
  BY <1>4, <1>5
     DEF Next, Environment, Restart, Start, Host, Crash, Truncate, Quiet, vars,
         serverVars

\* A file of the guest changes only under an upload to that path that the
\* daemon accepted and whose source was opened (CopyFileToGuestInternal,
\* recv_file), as long as no other process of the guest truncates it.
THEOREM OwnFileAlways ==
  ASSUME "truncate" \notin Faults
  PROVE  Spec => OnlyOwnFileWritten
<1>1. Inv /\ [Next]_vars => [WritesOwnFile]_vars
  BY StepWritesOwnFile
<1>2. QED
  BY <1>1, InvInit, InvNext, PTL DEF Spec, OnlyOwnFileWritten

LEMMA StepReturnsStored ==
  ASSUME Inv, [Next]_vars, {"truncate", "chown"} \cap Faults = {}
  PROVE  [ReturnsStored]_vars
<1>1. SUFFICES ASSUME NEW c \in Calls, Returns(c, "TRUE"), Upload(c),
                      guestEnd[c] = "open"
               PROVE  /\ guestFile[Dest(c)] = Source(c)
                      /\ KnownUser(c) => guestOwner[Dest(c)] = WantedUid(c)
  BY DEF ReturnsStored
<1>2. Host(c)
  <2>1. ret'[c] # ret[c]
    BY <1>1 DEF Returns
  <2>2. ASSUME NEW e \in Calls, Host(e)
        PROVE  e = c
    BY <2>1, <2>2, HostUntouched
  <2>3. ASSUME NEW e \in Calls, Kill(e)
        PROVE  FALSE
    BY <1>1, <2>1, <2>3, HostFields DEF Kill, Return, Returns
  <2>4. QED
    BY <2>1, <2>2, <2>3
       DEF Next, Serve, Restart, Environment, Quiet, vars, hostVars
<1>3. AwaitCopy(c)
  BY <1>1, <1>2, HostFields
     DEF Host, HostStep, Returns, Connect, SendUser, AwaitUser, SendPath,
         AwaitPath, SendName, AwaitName, OpenSource, TransmitBlock, OpenDest,
         SendGet, AwaitFile, ReceiveBlock, ReceiveDone, SendData, AwaitReply,
         NoCommandResult, Fail, Return, Goto
<1>4. GetCommandResult(c)
  BY <1>1, <1>3, HostFields
     DEF AwaitCopy, NoCommandResult, Fail, Return, Returns
<1>5. Talk(c) /\ Waiting(c) /\ Current(c) = "copy" /\ hostEnd[c] = "open"
  BY <1>3 DEF AwaitCopy, Inv, Conversation, Talk, Ends, Waiting, Current
<1>6. toHost[c] # <<>>
  BY <1>4, HostFields DEF GetCommandResult
<1>7. Stored(c)
  BY <1>1, <1>5, <1>6
     DEF Talk, HostSide, Pending, Answered, Delivering, Over
<1>8. QED
  BY <1>7 DEF Stored

\* When CopyFileToGuest returns TRUE while its session is on, the guest holds
\* the whole source under the named owner (AwaitCopy, recv_file), as long as
\* nothing else of the guest truncates the file and fchown does not fail.
THEOREM UploadStoredAlways ==
  ASSUME {"truncate", "chown"} \cap Faults = {}
  PROVE  Spec => UploadStored
<1>1. Inv /\ [Next]_vars => [ReturnsStored]_vars
  BY StepReturnsStored
<1>2. QED
  BY <1>1, InvInit, InvNext, PTL DEF Spec, UploadStored
=============================================================================
