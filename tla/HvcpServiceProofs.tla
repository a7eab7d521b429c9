-------------------------- MODULE HvcpServiceProofs -------------------------
(***************************************************************************)
(* Downloads are faithful, failures have a code, and the two programs keep *)
(* the safety part of CopyService: for any number of calls, any requests   *)
(* and files, and every fault but those that a theorem names.              *)
(***************************************************************************)
EXTENDS HvcpService, HvcpConversationProofs

-----------------------------------------------------------------------------
(* The steps of the daemon under a download.                               *)

\* A session that is on is the daemon's; no file of another is under way.
LEMMA SenderIsClient ==
  ASSUME Inv, Deliveries, NEW e \in Calls, UnderWay(e)
  PROVE  /\ client = e /\ phase \in {"send", "command"} /\ toGuest[e] = <<>>
         /\ Download(e) /\ e # NoClient
  BY NoneAssumption
     DEF Inv, SessionInv, OneSession, Deliveries, Download, UnderWay

\* Nothing is under way after the step.
LEMMA NoDelivery ==
  ASSUME Deliveries, NEW e \in Calls, UNCHANGED hostVars, ~UnderWay(e)',
         guestEnd'[e] = "queued" => guestEnd[e] = "queued"
  PROVE  Download(e)'
  BY DEF Deliveries, Download, Upload, hostVars

\* Nothing that a download depends on is touched by the step.
LEMMA SameDelivery ==
  ASSUME NEW e \in Calls, Download(e),
         req'[e] = req[e], pc'[e] = pc[e], left'[e] = left[e],
         dest'[e] = dest[e], hostFile'[e] = hostFile[e],
         hostEnd'[e] = hostEnd[e], guestEnd'[e] = guestEnd[e],
         toGuest'[e] = toGuest[e], toHost'[e] = toHost[e],
         UNCHANGED <<phase, path, remains, ofs, guestFile>>
  PROVE  Download(e)'
<1>1. /\ UnderWay(e)' = UnderWay(e) /\ Upload(e)' = Upload(e)
      /\ \A p : FileSize(p)' = FileSize(p)
  BY DEF UnderWay, Upload, FileSize
<1>2. /\ ReplyWords(e)' = ReplyWords(e) /\ Due(e)' = Due(e)
      /\ Got(e)' = Got(e) /\ Unsent' = Unsent
  BY <1>1 DEF ReplyWords, Due, Got, Unsent
<1>3. Divided(e)' = Divided(e) /\ ReplyLength(e)' = ReplyLength(e)
  BY <1>2 DEF Divided, ReplyLength
<1>4. QED
  BY <1>1, <1>2, <1>3 DEF Download

\* A call that waits for the reply to its request for a file and has not seen
\* a word of it: the daemon has not come to send_file yet.
LEMMA FileNotSent ==
  ASSUME Inv, NEW e \in Calls, client = e, guestEnd[e] = "open",
         hostEnd[e] = "open", pc[e] = "file?", toHost[e] = <<>>
  PROVE  /\ phase \in {"command", "length", "COPY_FILE_FROM_GUEST"}
         /\ At(e, "get")
         /\ phase = "command" => toGuest[e] # <<>>
         /\ phase = "COPY_FILE_FROM_GUEST" =>
              toGuest[e] = <<>> /\ path = req[e].rpath
<1>1. Waiting(e) /\ Current(e) = "get" /\ Talk(e)
  BY DEF Waiting, Current, Inv, Conversation
<1>2. Pending(e, "get")
  BY <1>1
     DEF Talk, HostSide, Answered, Delivering, Over, StartsWithReply
<1>3. /\ At(e, "get") /\ Reading(e) /\ phase # "send"
      /\ Len(toGuest[e]) + Taken(e) = Size(e, "get")
  BY <1>2, Sizes DEF Pending, Inv, Size, LengthOf
<1>4. phase # "command" => In(e, "get")
  BY <1>3 DEF At
<1>5. phase = "command" => toGuest[e] # <<>>
  BY <1>3 DEF Taken, Size, LengthOf
<1>6. phase = "COPY_FILE_FROM_GUEST" =>
        toGuest[e] = <<>> /\ path = req[e].rpath
  BY <1>3, Sizes, EmptySeq DEF Taken, Size, LengthOf, Inv, At, Prepared
<1>7. QED
  BY <1>3, <1>4, <1>5, <1>6 DEF In, CommandOf

\* What a step of the daemon does to the ends of a connection: only accept
\* opens one.
LEMMA ServeEndsOnly ==
  ASSUME Inv, Serve, NEW e \in Calls
  PROVE  /\ UNCHANGED <<hostVars, hostEnd>>
         /\ guestEnd'[e] = "queued" => guestEnd[e] = "queued"
         /\ guestEnd'[e] = "open" /\ guestEnd[e] # "open" =>
              Accept /\ guestEnd[e] = "queued"
<1> USE DEF Serve, Inv, SessionInv, SocketTypeOK
<1>1. CASE Accept
  <2>1. guestEnd[Head(backlog)] = "queued"
    BY <1>1 DEF Accept, OneSession
  <2>2. QED
    BY <1>1, <2>1 DEF Accept
<1>2. CASE ProcessEnds /\ UNCHANGED hostEnd
  BY <1>2 DEF ProcessEnds
<1>3. CASE /\ UNCHANGED hostEnd
           /\ \/ UNCHANGED guestEnd
              \/ /\ phase \notin {"accept", "command", "close"}
                 /\ guestEnd' = [guestEnd EXCEPT ![client] = "open"]
              \/ \E end \in {"deaf", "closed"} :
                   guestEnd' = [guestEnd EXCEPT ![client] = end]
  <2>1. client = e => guestEnd[e] \in {"open", "deaf"}
    BY NoneAssumption DEF OneSession
  <2>2. client = e /\ phase \notin {"command", "close"} => guestEnd[e] = "open"
    BY AtWork
  <2>3. QED
    BY <1>3, <2>1, <2>2
<1>4. CASE /\ UNCHANGED hostEnd
           /\ phase \notin {"accept", "command", "close"}
           /\ \/ SendOk \/ \E error : SendError(error)
              \/ \E tokens : Send(tokens, "open", "send")
  BY <1>2, <1>3, <1>4 DEF SendOk, SendError, Send
<1>5. CASE SetUser \/ SetRemotePath \/ SetFileName
  BY <1>4, <1>5 DEF SetUser, SetRemotePath, SetFileName
<1>6. CASE CopyFileToGuest \/ RecvBlock \/ RecvDone
  BY <1>3, <1>4, <1>6 DEF CopyFileToGuest, RecvBlock, RecvDone
<1>7. CASE CopyFileFromGuest \/ SendBlock
  BY <1>3, <1>4, <1>7 DEF CopyFileFromGuest, SendBlock
<1>8. CASE RecvCommand \/ RecvLength \/ Close \/ SendDone
  BY <1>3, <1>8 DEF RecvCommand, RecvLength, Close, SendDone, socketVars
<1>9. CASE AcceptFails
  BY <1>2, <1>9 DEF AcceptFails
<1>10. QED
  BY <1>1, <1>5, <1>6, <1>7, <1>8, <1>9 DEF ServerStep

\* A step of the daemon leaves a download under way only in its own session.
LEMMA DeliveryInSession ==
  ASSUME Inv, Deliveries, Serve, NEW e \in Calls, UnderWay(e)'
  PROVE  /\ guestEnd[e] = "open" /\ guestEnd'[e] = "open" /\ client = e
         /\ hostEnd[e] = "open" /\ ~Upload(e) /\ pc[e] \in {"file?", "data"}
         /\ pc[e] = "data" \/ toHost[e] # <<>> => UnderWay(e)
<1>1. /\ UNCHANGED <<hostVars, hostEnd>> /\ guestEnd'[e] = "open"
      /\ hostEnd[e] = "open" /\ ~Upload(e) /\ pc[e] \in {"file?", "data"}
      /\ pc[e] = "file?" => toHost'[e] # <<>>
  BY ServeEndsOnly DEF UnderWay, Upload, hostVars
<1>2. ASSUME guestEnd[e] # "open"
      PROVE  FALSE
  <2>1. Accept /\ guestEnd[e] = "queued" /\ toHost' = toHost
    BY <1>1, <1>2, ServeEndsOnly DEF Accept
  <2>2. pc[e] = "file?" /\ toHost[e] # <<>>
    BY <1>1, <2>1 DEF Deliveries, Download
  <2>3. Talk(e) /\ Waiting(e) /\ Current(e) = "get"
    BY <2>2 DEF Waiting, Current, Inv, Conversation
  <2>4. QED
    BY <1>1, <2>1, <2>2, <2>3
       DEF Talk, HostSide, Pending, Answered, Delivering, Over
<1>3. client = e
  BY <1>2 DEF Inv, SessionInv, OneSession
<1>4. QED
  BY <1>1, <1>2, <1>3 DEF UnderWay

\* The handlers that do not send a file.
LEMMA OtherHandlers ==
  ASSUME Inv, Deliveries, NEW e \in Calls, UnderWay(e)',
         Serve, phase \notin {"send", "command", "COPY_FILE_FROM_GUEST"}
  PROVE  FALSE
<1>1. /\ guestEnd[e] = "open" /\ client = e /\ hostEnd[e] = "open"
      /\ pc[e] \in {"file?", "data"} /\ ~UnderWay(e)
      /\ pc[e] = "data" \/ toHost[e] # <<>> => UnderWay(e)
  BY DeliveryInSession, SenderIsClient
<1>2. pc[e] = "file?" /\ toHost[e] = <<>>
  BY <1>1
<1>3. phase = "length"
  BY <1>1, <1>2, FileNotSent
<1>4. toHost' = toHost /\ UNCHANGED hostVars
  BY <1>3
     DEF Serve, ServerStep, Accept, AcceptFails, Close, RecvCommand, RecvLength,
         SetUser, SetRemotePath, SetFileName, CopyFileToGuest, RecvBlock,
         RecvDone, CopyFileFromGuest, SendBlock, SendDone
<1>5. QED
  BY <1>2, <1>4 DEF UnderWay, hostVars

LEMMA CommandDelivery ==
  ASSUME Inv, Deliveries, NEW e \in Calls, UnderWay(e)',
         Serve, phase = "command"
  PROVE  Download(e)'
<1>1. /\ guestEnd[e] = "open" /\ client = e /\ hostEnd[e] = "open"
      /\ pc[e] = "data" \/ toHost[e] # <<>> => UnderWay(e)
  BY DeliveryInSession
<1>2. RecvCommand /\ UNCHANGED hostVars
  BY DEF Serve, ServerStep, Accept, AcceptFails, Close, RecvCommand, RecvLength,
         SetUser, SetRemotePath, SetFileName, CopyFileToGuest, RecvBlock,
         RecvDone, CopyFileFromGuest, SendBlock, SendDone
<1>3. UnderWay(e)
  BY <1>1, <1>2 DEF RecvCommand, UnderWay, hostVars
<1>4. toGuest[e] = <<>>
  BY <1>3, SenderIsClient
<1>5. QED
  BY <1>1, <1>2, <1>4 DEF RecvCommand, Arrived, Cut

\* The reply that announces a file is the start of its delivery.
LEMMA AnnounceDelivery ==
  ASSUME Inv, Deliveries, NEW e \in Calls, UnderWay(e)',
         CopyFileFromGuest, UNCHANGED hostVars
  PROVE  Download(e)'
<1>0. Serve /\ phase = "COPY_FILE_FROM_GUEST" /\ UNCHANGED <<hostEnd, toGuest>>
  BY DEF Serve, ServerStep, CopyFileFromGuest
<1>1. /\ guestEnd[e] = "open" /\ client = e /\ hostEnd[e] = "open"
      /\ guestEnd'[e] = "open" /\ ~UnderWay(e)
      /\ pc[e] \in {"file?", "data"}
      /\ pc[e] = "data" \/ toHost[e] # <<>> => UnderWay(e)
  BY <1>0, DeliveryInSession, SenderIsClient
<1>2. pc[e] = "file?" /\ toHost[e] = <<>>
  BY <1>1
<1>3. toGuest[e] = <<>> /\ path = req[e].rpath
  BY <1>0, <1>1, <1>2, FileNotSent
<1>4. ~ProcessEnds /\ ~SendError("FILETRANSFER_ERROR")
  BY <1>1, HostFields DEF ProcessEnds, SendError, Send, Inv, TypeOK, SocketTypeOK
<1>5. /\ MayRead(path) /\ remains' = FileSize(path) /\ ofs' = 0
      /\ phase' = "send" /\ client' = client /\ UNCHANGED <<path, fileSystem>>
      /\ toHost'[e] = toHost[e] \o Reply("OK", FileSize(path))
  BY <1>1, <1>4, HostFields DEF CopyFileFromGuest, Send
<1>6. FileSize(path) \in Nat
  BY <1>5, FilesAssumption DEF FileSize, MayRead, Inv, TypeOK, ServerTypeOK
<1>7. toHost'[e] = Reply("OK", FileSize(path)) /\ Len(toHost'[e]) = 2
      /\ Value(toHost'[e][2]) = FileSize(path)
  BY <1>2, <1>5, <1>6, ReplyTokens, ConcatEmptySeq DEF Results
<1>8. /\ \A p : FileSize(p)' = FileSize(p) /\ IsDirectory(p)' = IsDirectory(p)
      /\ UNCHANGED <<req, pc, dest, hostFile>> /\ Upload(e)' = Upload(e)
  BY <1>5 DEF FileSize, IsDirectory, hostVars, fileSystem, Upload
<1>9. /\ Due(e)' = FileSize(path) /\ ReplyWords(e)' = 2
      /\ Got(e)' = 0 /\ Unsent' = FileSize(path)
  BY <1>2, <1>3, <1>5, <1>6, <1>8 DEF Due, ReplyWords, Got, Unsent
<1>10. dest[e] = "valid" => hostFile[e] = <<>>
  BY <1>2 DEF Deliveries, Download
<1>11. Divided(e)'
  <2>1. Len(toHost'[e]) - ReplyWords(e)' = 0
    BY <1>7, <1>9
  <2>2. 0 + Unsent' = Due(e)'
    BY <1>6, <1>9
  <2>3. dest'[e] = "valid" => hostFile'[e] = <<>> /\ Len(hostFile'[e]) = Got(e)'
    BY <1>8, <1>9, <1>10
  <2>4. QED
    BY <2>1, <2>2, <2>3 DEF Divided
<1>12. QED
  BY <1>0, <1>1, <1>2, <1>3, <1>5, <1>6, <1>7, <1>8, <1>9, <1>11
     DEF Deliveries, Download, ReplyLength, FileSize

\* A block goes out: the next one of the file.
LEMMA BlockDelivery ==
  ASSUME Inv, Deliveries, NEW e \in Calls, UnderWay(e)',
         SendBlock, UNCHANGED hostVars
  PROVE  Download(e)'
<1>0. /\ Serve /\ phase = "send" /\ remains > 0
      /\ UNCHANGED <<hostEnd, toGuest, path, fileSystem>>
  BY DEF Serve, ServerStep, SendBlock
<1>1. /\ guestEnd[e] = "open" /\ client = e /\ hostEnd[e] = "open"
      /\ guestEnd'[e] = "open" /\ pc[e] \in {"file?", "data"}
      /\ pc[e] = "data" \/ toHost[e] # <<>> => UnderWay(e)
  BY <1>0, DeliveryInSession
<1>2. UnderWay(e) /\ Download(e)
  <2>1. pc[e] = "file?" => toHost[e] # <<>>
    BY <1>0, <1>1, FileNotSent
  <2>2. QED
    BY <1>1, <2>1 DEF Deliveries
<1>3. ~ProcessEnds /\ ~SendError("FILETRANSFER_ERROR")
  BY <1>1, HostFields DEF ProcessEnds, SendError, Send, Inv, TypeOK, SocketTypeOK
<1>4. CASE UNCHANGED <<phase, client, guestEnd, toHost, backlog, loopVars>>
  BY <1>0, <1>2, <1>4, SameDelivery DEF hostVars, loopVars, fileSystem
<1>5. CASE /\ ~IsDirectory(path) /\ ofs < Len(guestFile[path])
           /\ toHost' = [toHost EXCEPT ![e] =
                           Append(@, guestFile[path][ofs + 1])]
           /\ ofs' = ofs + 1 /\ remains' = remains - 1 /\ UNCHANGED phase
  <2> DEFINE p == req[e].rpath
             b == guestFile[p][ofs + 1]
             n == Len(toHost[e])
             w == ReplyWords(e)
  <2>1. /\ path = p /\ ofs + remains = FileSize(p) /\ Divided(e)
        /\ phase \in {"send", "command"} /\ toGuest[e] = <<>>
    BY <1>0, <1>2 DEF Download
  <2>2. /\ toHost[e] \in Seq(Tokens) /\ n \in Nat /\ w \in {0, 2}
        /\ remains \in Nat /\ ofs \in Nat /\ left[e] \in Nat
    BY HostFields DEF Inv, TypeOK, ServerTypeOK, ReplyWords
  <2>3. toHost'[e] = Append(toHost[e], b)
    BY <1>5, <2>1, HostFields
  <2>4. Len(toHost'[e]) = n + 1 /\ toHost'[e][n + 1] = b
        /\ \A i \in 1..n : toHost'[e][i] = toHost[e][i]
    BY <2>2, <2>3
  <2>5. /\ \A q : FileSize(q)' = FileSize(q) /\ IsDirectory(q)' = IsDirectory(q)
        /\ UNCHANGED <<req, pc, dest, hostFile, left, guestFile, path>>
        /\ Upload(e)' = Upload(e)
    BY <1>0 DEF FileSize, IsDirectory, hostVars, fileSystem, Upload
  <2>6. FileSize(p) \in Nat /\ Due(e) \in Nat
    BY <2>1, <2>2 DEF Due
  <2>7. /\ Due(e)' = Due(e) /\ ReplyWords(e)' = w /\ Got(e)' = Got(e)
        /\ Unsent = remains /\ Unsent' = remains - 1
    BY <1>0, <1>5, <2>5 DEF Due, ReplyWords, Got, Unsent
  <2>8. n - w + remains = Due(e) /\ Got(e) = FileSize(p) - Due(e)
    BY <2>1, <2>7 DEF Divided, Got
  <2>9. /\ n \in Nat /\ w \in Nat /\ remains \in Nat /\ ofs \in Nat
        /\ FileSize(p) \in Nat /\ ofs + remains = FileSize(p)
        /\ n - w + remains = Due(e) /\ Got(e) = FileSize(p) - Due(e)
    <3>1. w \in Nat
      BY <2>2
    <3>2. QED
      BY <2>1, <2>2, <2>6, <2>8, <3>1, Zenon
  <2>10. pc[e] = "file?" => n >= 2
    BY <1>0, <1>1, SendingFile DEF Waiting, Delivering, StartsWithReply
  <2>11. Divided(e)'
    <3>1. Len(toHost'[e]) - w + (remains - 1) = Due(e)
      <4> DEFINE m   == Len(toHost'[e])
                 due == Due(e)
      <4>1. m = n + 1
        BY <2>4
      <4>2. n \in Nat /\ w \in Nat /\ remains \in Nat /\ n - w + remains = due
        BY <2>9
      <4> HIDE DEF m, n, w, due
      <4>3. m - w + (remains - 1) = due
        BY <4>1, <4>2
      <4>4. QED
        BY <4>3 DEF m, due
    <3>2. ASSUME NEW i \in 1..(Len(toHost'[e]) - w)
          PROVE  toHost'[e][i + w] = guestFile[p][i + Got(e)]
      <4>1. CASE i = n + 1 - w
        <5>1. i + w = n + 1
          BY <2>2, <4>1
        <5>2. i + Got(e) = ofs + 1
          <6> DEFINE due == Due(e)
                     got == Got(e)
                     fs  == FileSize(p)
          <6>1. /\ n \in Nat /\ w \in Nat /\ remains \in Nat /\ ofs \in Nat
                /\ fs \in Nat /\ ofs + remains = fs
                /\ n - w + remains = due /\ got = fs - due
            BY <2>9
          <6> HIDE DEF n, w, due, got, fs
          <6>2. i + got = ofs + 1
            BY <4>1, <6>1
          <6>3. QED
            BY <6>2 DEF got
        <5>3. QED
          BY <2>1, <2>4, <5>1, <5>2
      <4>2. CASE i \in 1..(n - w)
        <5>1. toHost[e][i + w] = guestFile[p][i + Got(e)]
          BY <2>1, <4>2 DEF Divided
        <5>2. i + w \in 1..n
          BY <2>2, <4>2
        <5>3. QED
          BY <2>4, <5>1, <5>2
      <4>3. n \in Nat /\ w \in Nat /\ i \in 1..n + 1 - w
        BY <2>2, <2>4
      <4> HIDE DEF n, w
      <4>4. i = n + 1 - w \/ i \in 1..(n - w)
        BY <4>3
      <4>5. QED
        BY <4>1, <4>2, <4>4
    <3>3. QED
      BY <2>1, <2>5, <2>7, <3>1, <3>2 DEF Divided
  <2>12. ~IsDirectory(p)
    BY <1>5, <2>1
  <2>13. pc[e] = "file?" => ReplyLength(e)' = FileSize(p)
    <3>1. pc[e] = "file?" => ReplyLength(e) = FileSize(p)
      BY <1>2 DEF Download
    <3>2. pc[e] = "file?" => toHost'[e][2] = toHost[e][2]
      <4>1. n >= 2 => 2 \in 1..n
        BY <2>2
      <4>2. QED
        BY <2>4, <2>10, <4>1
    <3>3. QED
      BY <3>1, <3>2 DEF ReplyLength
  <2>14. ofs' + remains' = FileSize(p)
    BY <1>5, <2>1, <2>2
  <2>15. QED
    BY <1>0, <1>1, <1>2, <1>5, <2>1, <2>5, <2>11, <2>12, <2>13, <2>14
       DEF Download
<1>6. QED
  BY <1>1, <1>3, <1>4, <1>5 DEF SendBlock

\* The last block is sent.
LEMMA SentDelivery ==
  ASSUME Inv, Deliveries, NEW e \in Calls, UnderWay(e)',
         SendDone, UNCHANGED hostVars
  PROVE  Download(e)'
<1>0. /\ Serve /\ phase = "send" /\ remains = 0 /\ phase' = "command"
      /\ UNCHANGED <<client, path, loopVars, fileSystem, socketVars>>
  BY DEF Serve, ServerStep, SendDone
<1>1. UnderWay(e) /\ Download(e)
  BY <1>0 DEF UnderWay, Upload, hostVars, socketVars, Deliveries
<1>2. /\ \A q : FileSize(q)' = FileSize(q) /\ IsDirectory(q)' = IsDirectory(q)
      /\ UNCHANGED <<req, pc, dest, hostFile, left, guestFile, path, toHost,
                      toGuest, guestEnd>>
      /\ Upload(e)' = Upload(e)
  BY <1>0 DEF FileSize, IsDirectory, hostVars, fileSystem, socketVars, Upload
<1>3. /\ Due(e)' = Due(e) /\ ReplyWords(e)' = ReplyWords(e)
      /\ Got(e)' = Got(e) /\ Unsent = 0 /\ Unsent' = 0
  BY <1>0, <1>2 DEF Due, ReplyWords, Got, Unsent
<1>4. Divided(e) /\ ~IsDirectory(req[e].rpath)
  BY <1>1, <1>3, FilesAssumption DEF Download
<1>5. Divided(e)'
  BY <1>2, <1>3, <1>4 DEF Divided
<1>6. QED
  BY <1>0, <1>1, <1>2, <1>4, <1>5 DEF Download, ReplyLength

LEMMA ServeDelivery ==
  ASSUME Inv, Deliveries, Serve
  PROVE  Deliveries'
<1>1. SUFFICES ASSUME NEW e \in Calls
               PROVE  Download(e)'
  BY DEF Deliveries
<1>2. CASE ~UnderWay(e)'
  BY <1>2, NoDelivery, ServeEndsOnly
<1>3. CASE UnderWay(e)' /\ phase = "command"
  BY <1>3, CommandDelivery
<1>4. CASE UnderWay(e)' /\ phase = "COPY_FILE_FROM_GUEST"
  <2>1. CopyFileFromGuest /\ UNCHANGED hostVars
    BY <1>4 DEF Serve, ServerStep, Accept, AcceptFails, Close, RecvCommand,
         RecvLength, SetUser, SetRemotePath, SetFileName, CopyFileToGuest,
         RecvBlock, RecvDone, SendBlock, SendDone
  <2>2. QED
    BY <1>4, <2>1, AnnounceDelivery
<1>5. CASE UnderWay(e)' /\ phase = "send"
  <2>1. (SendBlock \/ SendDone) /\ UNCHANGED hostVars
    BY <1>5 DEF Serve, ServerStep, Accept, AcceptFails, Close, RecvCommand,
         RecvLength, SetUser, SetRemotePath, SetFileName, CopyFileToGuest,
         RecvBlock, RecvDone, CopyFileFromGuest
  <2>2. QED
    BY <1>5, <2>1, BlockDelivery, SentDelivery
<1>6. QED
  BY <1>2, <1>3, <1>4, <1>5, OtherHandlers

-----------------------------------------------------------------------------
(* The steps of the engine under a download.                               *)

LEMMA HostUntouchedFiles ==
  ASSUME Inv, NEW c \in Calls, Host(c), NEW e \in Calls, e # c
  PROVE  dest'[e] = dest[e] /\ hostFile'[e] = hostFile[e]
<1> USE HostFields DEF Host, Fail, Succeed, Return, Goto, SendData, AwaitReply,
            NoCommandResult
<1>1. CASE Connect(c, Listening)
  BY <1>1 DEF Connect
<1>2. CASE SendUser(c) \/ AwaitUser(c) \/ SendPath(c) \/ AwaitPath(c)
  BY <1>2 DEF SendUser, AwaitUser, SendPath, AwaitPath
<1>3. CASE SendName(c) \/ AwaitName(c) \/ OpenSource(c)
  BY <1>3 DEF SendName, AwaitName, OpenSource
<1>4. CASE TransmitBlock(c) \/ AwaitCopy(c)
  BY <1>4 DEF TransmitBlock, AwaitCopy
<1>5. CASE OpenDest(c) \/ SendGet(c) \/ AwaitFile(c)
  BY <1>5 DEF OpenDest, SendGet, AwaitFile
<1>6. CASE ReceiveBlock(c) \/ ReceiveDone(c)
  BY <1>6 DEF ReceiveBlock, ReceiveDone
<1>7. QED
  BY <1>1, <1>2, <1>3, <1>4, <1>5, <1>6 DEF HostStep

\* A call that is not at a file has no download under way.
LEMMA NoFileYet ==
  ASSUME NEW c \in Calls, pc'[c] \notin {"file", "file?"},
         pc'[c] = "data" => Upload(c)'
  PROVE  Download(c)'
  BY DEF Download, UnderWay

LEMMA ReturnedDelivery ==
  ASSUME Inv, NEW c \in Calls, NEW code,
         Fail(c, code) \/ Succeed(c) \/ NoCommandResult(c)
  PROVE  Download(c)'
  BY NoFileYet, HostFields DEF Fail, Succeed, NoCommandResult, Return

\* The engine learns the size.
LEMMA SizeDelivery ==
  ASSUME Inv, Deliveries, NEW c \in Calls, AwaitFile(c), UNCHANGED serverVars
  PROVE  Download(c)'
<1>1. CASE \E code : Fail(c, code) \/ NoCommandResult(c)
  BY <1>1, ReturnedDelivery
<1>2. CASE GetCommandResult(c) /\ Goto(c, "data") /\ UNCHANGED dest
  <2> DEFINE n == Len(toHost[c])
  <2>1. /\ pc[c] = "file?" /\ pc'[c] = "data" /\ hostEnd[c] = "open"
        /\ ~Upload(c) /\ left'[c] = ReplyLength(c) /\ Talk(c)
        /\ UNCHANGED <<req, hostFile, guestEnd, toGuest, hostEnd>>
    BY <1>2, HostFields
       DEF AwaitFile, Goto, Inv, Conversation, Talk, Ends
  <2>2. /\ n >= 2 /\ n \in Nat /\ toHost[c] \in Seq(Tokens)
        /\ toHost'[c] = SubSeq(toHost[c], 3, n)
    BY <1>2, HostFields DEF GetCommandResult
  <2>3. /\ Len(toHost'[c]) = n - 2
        /\ \A i \in 1..(n - 2) : toHost'[c][i] = toHost[c][i + 2]
    <3>1. \A i \in 3..n : toHost[c][i] \in Tokens
      BY <2>2
    <3> HIDE DEF n
    <3>2. /\ Len(toHost'[c]) = IF 3 <= n THEN n - 3 + 1 ELSE 0
          /\ \A i \in 1..n - 3 + 1 : toHost'[c][i] = toHost[c][3 + i - 1]
      BY <2>2, <3>1, SubSeqProperties
    <3>3. QED
      BY <2>2, <3>2
  <2>4. Waiting(c) /\ Current(c) = "get"
    BY <2>1 DEF Waiting, Current
  <2>5. guestEnd[c] # "queued"
    BY <2>1, <2>2, <2>4
       DEF Talk, HostSide, Pending, Answered, Delivering, Over
  <2>6. /\ dest[c] \in {"valid", "invalid"}
        /\ dest[c] = "valid" => hostFile[c] = <<>>
    BY <2>1 DEF Deliveries, Download
  <2>7. CASE guestEnd[c] # "open"
    <3>1. ~UnderWay(c)' /\ dest' = dest
      BY <1>2, <2>1, <2>7 DEF UnderWay
    <3>2. QED
      BY <2>1, <2>5, <2>6, <3>1 DEF Download
  <2>8. CASE guestEnd[c] = "open"
    <3> DEFINE p == req[c].rpath
    <3>1. UnderWay(c) /\ Download(c)
      BY <2>1, <2>2, <2>8 DEF UnderWay, Deliveries
    <3>2. /\ left'[c] = FileSize(p) /\ Divided(c)
          /\ ReplyWords(c) = 2 /\ Due(c) = FileSize(p) /\ FileSize(p) \in Nat
      <4>1. StartsWithReply(toHost[c])
        BY <2>1, <2>2, <2>4, <2>8
           DEF Talk, HostSide, Pending, Answered, Delivering, Over
      <4>2. ReplyLength(c) \in Nat
        BY <4>1 DEF StartsWithReply, ReplyLength, Value
      <4>3. ReplyLength(c) = FileSize(p) /\ Divided(c)
        BY <2>1, <3>1 DEF Download
      <4>4. QED
        BY <2>1, <4>2, <4>3 DEF ReplyWords, Due
    <3>3. /\ \A q : FileSize(q)' = FileSize(q) /\ IsDirectory(q)' = IsDirectory(q)
          /\ Upload(c)' = Upload(c) /\ Unsent' = Unsent
          /\ UNCHANGED <<phase, path, ofs, remains, guestFile>>
      BY <2>1
         DEF FileSize, IsDirectory, Upload, Unsent, serverVars, fileSystem, loopVars
    <3>4. ReplyWords(c)' = 0 /\ Due(c)' = FileSize(p) /\ Got(c)' = 0 /\ Got(c) = 0
      BY <2>1, <3>2, <3>3 DEF ReplyWords, Due, Got
    <3>5. Unsent \in Nat
      BY DEF Unsent, Inv, TypeOK, ServerTypeOK
    <3>6. Divided(c)'
      <4>1. n - 2 + Unsent = FileSize(p)
        BY <3>2 DEF Divided
      <4>2. \A i \in 1..(n - 2) : toHost[c][i + 2] = guestFile[p][i + 0]
        BY <3>2, <3>4 DEF Divided
      <4>3. Len(toHost'[c]) - 0 = n - 2
        BY <2>2, <2>3
      <4>4. \A i \in 1..(n - 2) : toHost'[c][i + 0] = guestFile[p][i + 0]
        BY <2>2, <2>3, <4>2
      <4>5. dest'[c] = "valid" => hostFile'[c] = <<>> /\ Len(hostFile'[c]) = 0
        BY <1>2, <2>1, <2>6
      <4> HIDE DEF n
      <4>6. QED
        BY <2>1, <3>3, <3>4, <4>1, <4>3, <4>4, <4>5 DEF Divided
    <3>7. QED
      BY <1>2, <2>1, <2>6, <2>8, <3>1, <3>3, <3>6 DEF Download
  <2>9. QED
    BY <2>7, <2>8
<1>3. QED
  BY <1>1, <1>2 DEF AwaitFile, AwaitReply

\* The engine stores a block: the next one of the file.
LEMMA StoreDelivery ==
  ASSUME Inv, Deliveries, NEW c \in Calls, UNCHANGED serverVars,
         ReceiveBlock(c), toHost[c] # <<>>, Goto(c, "data"), UNCHANGED dest,
         toHost' = [toHost EXCEPT ![c] = Tail(@)],
         hostFile' = IF dest[c] = "valid"
                       THEN [hostFile EXCEPT ![c] = Append(@, Head(toHost[c]))]
                       ELSE hostFile,
         left' = [left EXCEPT ![c] = @ - 1]
  PROVE  Download(c)'
<1> DEFINE p == req[c].rpath
           n == Len(toHost[c])
           m == Len(hostFile[c])
<1>1. /\ pc[c] = "data" /\ pc'[c] = "data" /\ ~Upload(c) /\ left[c] > 0
      /\ UNCHANGED <<req, guestEnd, toGuest, hostEnd, dest>>
      /\ hostEnd[c] = "open"
  BY HostFields DEF ReceiveBlock, Goto, Inv, Conversation, Talk, Ends
<1>2. dest[c] \in {"valid", "invalid"} /\ guestEnd[c] # "queued"
  BY <1>1 DEF Deliveries, Download
<1>3. CASE guestEnd[c] # "open"
  <2>1. ~UnderWay(c)'
    BY <1>1, <1>3 DEF UnderWay
  <2>2. QED
    BY <1>1, <1>2, <2>1 DEF Download
<1>4. CASE guestEnd[c] = "open"
  <2>1. UnderWay(c) /\ Download(c)
    BY <1>1, <1>4 DEF UnderWay, Deliveries
  <2>2. /\ toHost[c] \in Seq(Tokens) /\ n \in Nat /\ n >= 1 /\ left[c] \in Nat
        /\ hostFile[c] \in Seq(Tokens) /\ m \in Nat
    BY HostFields, EmptySeq
  <2>3. /\ toHost'[c] = Tail(toHost[c]) /\ left'[c] = left[c] - 1
        /\ dest[c] = "valid" => hostFile'[c] = Append(hostFile[c], toHost[c][1])
    <3>1. Head(toHost[c]) = toHost[c][1]
      BY <2>2, TailOf
    <3>2. QED
      BY <3>1, HostFields
  <2>4. /\ Len(toHost'[c]) = n - 1
        /\ \A i \in 1..n - 1 : toHost'[c][i] = toHost[c][i + 1]
    <3>1. /\ Len(Tail(toHost[c])) = n - 1
          /\ \A i \in 1..Len(Tail(toHost[c])) :
               Tail(toHost[c])[i] = toHost[c][i + 1]
      BY <2>2, HeadTailProperties
    <3>2. QED
      BY <2>2, <2>3, <3>1
  <2>5. dest[c] = "valid" =>
          /\ Len(hostFile'[c]) = m + 1 /\ hostFile'[c][m + 1] = toHost[c][1]
          /\ \A i \in 1..m : hostFile'[c][i] = hostFile[c][i]
    BY <2>2, <2>3
  <2>6. /\ \A q : FileSize(q)' = FileSize(q) /\ IsDirectory(q)' = IsDirectory(q)
        /\ Upload(c)' = Upload(c) /\ Unsent' = Unsent
        /\ UNCHANGED <<phase, path, ofs, remains, guestFile>>
    BY <1>1
       DEF FileSize, IsDirectory, Upload, Unsent, serverVars, fileSystem, loopVars
  <2>7. /\ ReplyWords(c) = 0 /\ ReplyWords(c)' = 0
        /\ Due(c) = left[c] /\ Due(c)' = left[c] - 1
        /\ Got(c) = FileSize(p) - left[c] /\ Got(c)' = FileSize(p) - (left[c] - 1)
    BY <1>1, <2>3, <2>6 DEF ReplyWords, Due, Got
  <2>8. FileSize(p) \in Int /\ Unsent \in Nat
    BY HostFields, RequestsAssumption, FilesAssumption
       DEF FileSize, Unsent, Inv, TypeOK, ServerTypeOK
  <2>9. /\ n - 0 + Unsent = left[c]
        /\ \A i \in 1..n - 0 : toHost[c][i + 0] = guestFile[p][i + Got(c)]
        /\ dest[c] = "valid" =>
             /\ m = Got(c)
             /\ \A i \in 1..m : hostFile[c][i] = guestFile[p][i]
    BY <2>1, <2>7 DEF Download, Divided
  <2> HIDE DEF n, m, p
  <2>10. Got(c)' = Got(c) + 1 /\ Got(c) \in Int
    <3> DEFINE size == FileSize(p)
               l    == left[c]
    <3>1. size \in Int /\ l \in Nat
      BY <2>2, <2>8
    <3> HIDE DEF size, l
    <3>2. size - (l - 1) = size - l + 1 /\ size - l \in Int
      BY <3>1
    <3>3. QED
      BY <2>7, <3>2 DEF size, l
  <2>11. Len(toHost'[c]) - 0 + Unsent = left[c] - 1
    <3>1. n + Unsent = left[c]
      BY <2>2, <2>9
    <3>2. QED
      <4> DEFINE k == Len(toHost'[c])
      <4>1. k = n - 1 /\ n \in Nat /\ left[c] \in Nat /\ Unsent \in Nat
        BY <2>2, <2>4, <2>8
      <4> HIDE DEF k
      <4>2. k - 0 + Unsent = left[c] - 1
        BY <3>1, <4>1
      <4>3. QED
        BY <4>2 DEF k
  <2>12. ASSUME NEW i \in 1..Len(toHost'[c]) - 0
         PROVE  toHost'[c][i + 0] = guestFile[p][i + Got(c)']
    <3>1. i \in 1..n - 1 /\ i + 0 = i /\ i + 1 \in 1..n - 0 /\ i + 1 + 0 = i + 1
          /\ i + 1 + Got(c) = i + Got(c)'
      BY <2>2, <2>4, <2>10
    <3>2. toHost[c][i + 1 + 0] = guestFile[p][i + 1 + Got(c)]
      BY <2>9, <3>1
    <3>3. QED
      BY <2>4, <3>1, <3>2
  <2>13. ASSUME dest[c] = "valid"
         PROVE  /\ Len(hostFile'[c]) = Got(c)'
                /\ \A i \in 1..Len(hostFile'[c]) :
                     hostFile'[c][i] = guestFile[p][i]
    <3>1. toHost[c][1] = guestFile[p][1 + Got(c)]
      <4>1. 1 \in 1..n - 0 /\ 1 + 0 = 1
        BY <2>2
      <4>2. QED
        BY <2>9, <4>1
    <3>2. Len(hostFile'[c]) = Got(c)' /\ m + 1 = 1 + Got(c)
      BY <2>2, <2>5, <2>9, <2>10, <2>13
    <3>3. ASSUME NEW i \in 1..m + 1
          PROVE  hostFile'[c][i] = guestFile[p][i]
      <4>1. CASE i = m + 1
        BY <2>5, <2>13, <3>1, <3>2, <4>1
      <4>2. CASE i \in 1..m
        BY <2>5, <2>9, <2>13, <4>2
      <4>3. i = m + 1 \/ i \in 1..m
        BY <2>2
      <4>4. QED
        BY <4>1, <4>2, <4>3
    <3>4. QED
      BY <2>5, <2>13, <3>2, <3>3
  <2>14. Divided(c)'
    BY <1>1, <2>6, <2>7, <2>11, <2>12, <2>13 DEF Divided, p
  <2>15. QED
    BY <1>1, <1>2, <1>4, <2>1, <2>6, <2>14 DEF Download
<1>5. QED
  BY <1>3, <1>4

LEMMA HostDelivery ==
  ASSUME Inv, Deliveries, NEW c \in Calls, Host(c)
  PROVE  Download(c)'
<1> USE DEF Host
<1>0. Talk(c) /\ UNCHANGED serverVars
  BY DEF Inv, Conversation
<1>1. CASE Connect(c, Listening)
  BY <1>1, NoFileYet, HostFields DEF Connect, Fail, Return
<1>2. CASE SendUser(c) \/ SendPath(c) \/ SendName(c)
  <2>1. pc'[c] \in {"user?", "path?", "name?"} \/ \E code : Fail(c, code)
    BY <1>2, HostFields DEF SendUser, SendPath, SendName, SendData, Goto
  <2>2. QED
    BY <2>1, NoFileYet, ReturnedDelivery
<1>3. CASE AwaitUser(c) \/ AwaitPath(c) \/ AwaitName(c)
  <2>1. \/ pc'[c] \in {"path", "dest", "name", "source"}
        \/ \E code : Fail(c, code) \/ NoCommandResult(c)
    BY <1>3, HostFields DEF AwaitUser, AwaitPath, AwaitName, AwaitReply, Goto
  <2>2. QED
    BY <2>1, NoFileYet, ReturnedDelivery
<1>4. CASE OpenSource(c) \/ TransmitBlock(c)
  <2>1. Upload(c)' /\ (pc'[c] = "data" \/ \E code : Fail(c, code))
    BY <1>0, <1>4, HostFields
       DEF OpenSource, TransmitBlock, SendData, Goto, Upload, Talk, Ends
  <2>2. QED
    BY <2>1, NoFileYet, ReturnedDelivery
<1>5. CASE AwaitCopy(c)
  BY <1>5, ReturnedDelivery DEF AwaitCopy
<1>6. CASE OpenDest(c)
  <2>1. pc'[c] = "file" /\ dest'[c] \in {"valid", "invalid"}
        /\ (dest'[c] = "valid" => hostFile'[c] = <<>>)
    BY <1>6, HostFields DEF OpenDest, Goto, Created
  <2>2. QED
    BY <2>1 DEF Download, UnderWay
<1>7. CASE SendGet(c)
  <2>1. CASE \E code : Fail(c, code)
    BY <2>1, ReturnedDelivery
  <2>2. CASE pc'[c] = "file?" /\ UNCHANGED <<req, dest, hostFile, toHost>>
    <3>1. toHost[c] = <<>> /\ pc[c] = "file" /\ ~Upload(c)
      BY <1>0, <1>7 DEF SendGet, Talk, Ends, HostSide, Sending, AtRest
    <3>2. dest[c] \in {"valid", "invalid"}
          /\ (dest[c] = "valid" => hostFile[c] = <<>>)
      BY <3>1 DEF Deliveries, Download
    <3>3. QED
      BY <2>2, <3>1, <3>2 DEF Download, UnderWay
  <2>3. QED
    BY <1>7, <2>1, <2>2, HostFields DEF SendGet, SendData, Goto
<1>8. CASE AwaitFile(c)
  BY <1>0, <1>8, SizeDelivery
<1>9. CASE ReceiveBlock(c)
  BY <1>0, <1>9, ReturnedDelivery, StoreDelivery DEF ReceiveBlock
<1>10. CASE ReceiveDone(c)
  BY <1>10, ReturnedDelivery DEF ReceiveDone
<1>11. QED
  BY <1>1, <1>2, <1>3, <1>4, <1>5, <1>6, <1>7, <1>8, <1>9, <1>10 DEF HostStep

\* What another call or its death leaves alone.
LEMMA KillUntouched ==
  ASSUME Inv, NEW c \in Calls, Kill(c), NEW e \in Calls, e # c
  PROVE  /\ req'[e] = req[e] /\ pc'[e] = pc[e] /\ ret'[e] = ret[e]
         /\ errcode'[e] = errcode[e] /\ left'[e] = left[e]
         /\ hostEnd'[e] = hostEnd[e] /\ guestEnd'[e] = guestEnd[e]
         /\ toGuest'[e] = toGuest[e] /\ toHost'[e] = toHost[e]
         /\ dest'[e] = dest[e] /\ hostFile'[e] = hostFile[e]
  BY HostFields DEF Kill, Return, Inv, TypeOK, SocketTypeOK

LEMMA NextDelivery ==
  ASSUME Inv, Deliveries, [Next]_vars, "truncate" \notin Faults
  PROVE  Deliveries'
<1>1. CASE Serve
  BY <1>1, ServeDelivery
<1>2. ASSUME NEW c \in Calls, Host(c)
      PROVE  Deliveries'
  <2>1. ASSUME NEW e \in Calls, e # c
        PROVE  Download(e)'
    BY <1>2, <2>1, HostUntouched, HostUntouchedFiles, SameDelivery
       DEF Deliveries, Host, serverVars, loopVars, fileSystem
  <2>2. QED
    BY <1>2, <2>1, HostDelivery DEF Deliveries
<1>3. ASSUME NEW c \in Calls, Kill(c), UNCHANGED serverVars
      PROVE  Deliveries'
  <2>1. ASSUME NEW e \in Calls, e # c
        PROVE  Download(e)'
    BY <1>3, <2>1, KillUntouched, SameDelivery
       DEF Deliveries, serverVars, loopVars, fileSystem
  <2>2. Download(c)'
    BY <1>3, NoFileYet, HostFields DEF Kill, Return
  <2>3. QED
    BY <2>1, <2>2 DEF Deliveries
<1>4. CASE Restart
  <2>1. UNCHANGED <<hostVars, socketVars>> /\ client = NoClient
    BY <1>4 DEF Restart, Start, Inv, SessionInv, OneSession
  <2>2. ASSUME NEW e \in Calls
        PROVE  Download(e)'
    <3>1. ~UnderWay(e)
      BY <2>1, SenderIsClient
    <3>2. ~UnderWay(e)'
      BY <2>1, <3>1 DEF UnderWay, Upload, hostVars, socketVars
    <3>3. QED
      BY <2>1, <3>2, NoDelivery DEF socketVars
  <2>3. QED
    BY <2>2 DEF Deliveries
<1>5. CASE Crash /\ UNCHANGED hostVars
  <2>1. ASSUME NEW e \in Calls
        PROVE  guestEnd'[e] \in {"none", "closed"}
    BY <1>5 DEF Crash, ProcessEnds
  <2>2. QED
    BY <1>5, <2>1, NoDelivery DEF Deliveries, UnderWay
<1>6. CASE UNCHANGED vars
  BY <1>6, SameDelivery
     DEF Deliveries, vars, socketVars, serverVars, hostVars, loopVars, fileSystem
<1>7. QED
  BY <1>1, <1>2, <1>3, <1>4, <1>5, <1>6 DEF Next, Environment, Quiet, Truncate

LEMMA InitDelivery ==
  ASSUME Init
  PROVE  Deliveries
  BY DEF Init, SocketInit, HostInit, Deliveries, Download, UnderWay

\* While a file of the guest is sent, the engine was told its size, and what
\* it has stored and what the stream holds are the beginning of the file as
\* it is now (send_file, CopyFileFromGuestInternal), as long as no other
\* process of the guest truncates it.
THEOREM DeliveriesAlways ==
  ASSUME "truncate" \notin Faults
  PROVE  Spec => []Deliveries
<1>1. Init => Inv /\ Deliveries
  BY InvInit, InitDelivery
<1>2. Inv /\ Deliveries /\ [Next]_vars => (Inv /\ Deliveries)'
  BY InvNext, NextDelivery
<1>3. QED
  BY <1>1, <1>2, PTL DEF Spec

\* Who returns is the one whose step it is.
LEMMA ReturnIsHost ==
  ASSUME Inv, [Next]_vars, NEW c \in Calls,
         NEW result \in {"TRUE", "FALSE"}, Returns(c, result)
  PROVE  Host(c)
<1>1. ret'[c] # ret[c]
  BY DEF Returns
<1>2. ASSUME NEW e \in Calls, Host(e)
      PROVE  e = c
  BY <1>1, <1>2, HostUntouched
<1>3. ASSUME NEW e \in Calls, Kill(e)
      PROVE  FALSE
  BY <1>1, <1>3, HostFields DEF Kill, Return, Returns
<1>4. QED
  BY <1>1, <1>2, <1>3
     DEF Next, Serve, Restart, Environment, Quiet, vars, hostVars

\* A download that returns TRUE while its session is on has all of the file.
LEMMA ReturnsFaithful ==
  ASSUME Inv, Deliveries, NEW c \in Calls, Host(c), Returns(c, "TRUE"),
         ~Upload(c), guestEnd[c] = "open"
  PROVE  /\ ReceiveDone(c) /\ dest[c] = "valid" /\ UnderWay(c)
         /\ hostFile'[c] = guestFile[req[c].rpath]
<1> DEFINE p == req[c].rpath
<1>1. HostEndOfStream(c, 1) \/ ReceiveDone(c)
  BY HostFields
     DEF Host, HostStep, Returns, Connect, SendUser, AwaitUser, SendPath,
         AwaitPath, SendName, AwaitName, OpenSource, TransmitBlock, AwaitCopy,
         OpenDest, SendGet, AwaitFile, ReceiveBlock, SendData, AwaitReply,
         NoCommandResult, Fail, Return, Goto
<1>2. ReceiveDone(c)
  BY <1>1 DEF HostEndOfStream
<1>3. pc[c] = "data" /\ left[c] = 0 /\ UNCHANGED hostFile /\ hostEnd[c] = "open"
  BY <1>2 DEF ReceiveDone, Inv, Conversation, Talk, Ends
<1>4. dest[c] = "valid"
  <2>1. dest[c] \in {"valid", "invalid"}
    BY <1>3 DEF Deliveries, Download
  <2>2. dest[c] # "invalid"
    BY <1>2, HostFields DEF ReceiveDone, Succeed, Fail, Return, Returns
  <2>3. QED
    BY <2>1, <2>2
<1>5. UnderWay(c) /\ Download(c)
  BY <1>3 DEF UnderWay, Deliveries
<1>6. /\ Len(toHost[c]) \in Nat /\ Unsent \in Nat
      /\ Len(toHost[c]) - 0 + Unsent = 0
      /\ Len(hostFile[c]) = FileSize(p) - 0
      /\ \A i \in 1..Len(hostFile[c]) : hostFile[c][i] = guestFile[p][i]
      /\ IsDirectory(p) => Unsent = DirSize
  <2>1. ReplyWords(c) = 0 /\ Due(c) = 0 /\ Got(c) = FileSize(p) - 0 /\ Divided(c)
    BY <1>3, <1>5 DEF Download, ReplyWords, Due, Got
  <2>2. Len(toHost[c]) \in Nat /\ Unsent \in Nat
    BY HostFields DEF Unsent, Inv, TypeOK, ServerTypeOK
  <2>3. IsDirectory(p) => Unsent = DirSize
    BY <1>5 DEF Download
  <2>4. QED
    BY <1>4, <2>1, <2>2, <2>3 DEF Divided
<1>7. ~IsDirectory(p)
  BY <1>6, FilesAssumption
<1>8. p \in FilePaths
  BY <1>7, HostFields, RequestsAssumption
<1>9. guestFile[p] \in Seq(BlockTokens)
  BY <1>8 DEF Inv, TypeOK, ServerTypeOK
<1>10. guestFile[p] \in Seq(Tokens) /\ hostFile[c] \in Seq(Tokens)
  BY <1>9, HostFields DEF Tokens
<1>11. Len(hostFile[c]) = Len(guestFile[p])
  BY <1>6, <1>7, <1>10 DEF FileSize
<1>12. hostFile[c] = guestFile[p]
  BY <1>6, <1>10, <1>11, SeqEqual
<1>13. QED
  BY <1>2, <1>3, <1>4, <1>5, <1>12

\* When CopyFileFromGuest returns TRUE while its session is on, the local
\* file is the file of the guest as it is now, and nothing of what was there
\* before (CREATE_ALWAYS, the loop of CopyFileFromGuestInternal), as long as
\* no other process of the guest truncates the file.
THEOREM DownloadFaithfulAlways ==
  ASSUME "truncate" \notin Faults
  PROVE  Spec => DownloadFaithful
<1>1. Init => Inv /\ Deliveries
  BY InvInit, InitDelivery
<1>2. Inv /\ Deliveries /\ [Next]_vars => (Inv /\ Deliveries)'
  BY InvNext, NextDelivery
<1>3. Inv /\ Deliveries /\ [Next]_vars =>
        [\A c \in Calls :
           Returns(c, "TRUE") /\ ~Upload(c) /\ guestEnd[c] = "open" =>
             hostFile'[c] = guestFile[req[c].rpath]]_vars
  BY ReturnIsHost, ReturnsFaithful
<1>4. QED
  BY <1>1, <1>2, <1>3, PTL DEF Spec, DownloadFaithful

-----------------------------------------------------------------------------
(* Failures.                                                               *)

\* The daemon sends only from a handler, to its client.
LEMMA SendsToClient ==
  ASSUME Inv, Serve, NEW e \in Calls, toHost'[e] # toHost[e]
  PROVE  /\ client = e /\ hostEnd[e] = "open" /\ guestEnd[e] = "open"
         /\ phase \notin {"down", "accept", "command", "length", "close"}
<1> USE HostFields DEF Serve
<1>1. /\ client = e /\ hostEnd[e] = "open"
      /\ phase \notin {"down", "accept", "command", "length", "close"}
  <2>1. ASSUME NEW tokens, NEW end, NEW next, Send(tokens, end, next)
        PROVE  client = e /\ hostEnd[e] = "open"
    BY <2>1 DEF Send, ProcessEnds
  <2>2. CASE SetUser \/ SetRemotePath \/ SetFileName
    BY <2>1, <2>2 DEF SetUser, SetRemotePath, SetFileName, SendOk, SendError
  <2>3. CASE CopyFileToGuest \/ RecvBlock \/ RecvDone
    BY <2>1, <2>3 DEF CopyFileToGuest, RecvBlock, RecvDone, SendOk, SendError
  <2>4. CASE CopyFileFromGuest \/ SendBlock
    BY <2>1, <2>4 DEF CopyFileFromGuest, SendBlock, SendError
  <2>5. QED
    BY <2>2, <2>3, <2>4
       DEF ServerStep, Accept, AcceptFails, Close, RecvCommand, RecvLength,
           SendDone, socketVars, ProcessEnds
<1>2. QED
  BY <1>1, AtWork

\* The name of a user is refused only if passwd fails or the caller is gone.
LEMMA ServeWelcome ==
  ASSUME Inv, Welcome, Serve, "passwd" \notin Faults
  PROVE  Welcome'
<1>1. SUFFICES ASSUME NEW c \in Calls, NEW r \in Results,
                      pc[c] = "user?", toHost'[c] = Reply(r, 0),
                      toHost'[c] # toHost[c]
               PROVE  r = "OK"
  BY DEF Serve, hostVars, Welcome
<1>2. /\ client = c /\ hostEnd[c] = "open" /\ guestEnd[c] = "open"
      /\ phase \notin {"down", "accept", "command", "length", "close"}
  BY <1>1, SendsToClient
<1>3. Waiting(c) /\ Current(c) = "user"
  BY <1>1 DEF Waiting, Current
<1>4. phase # "send"
  BY <1>2, <1>3, SendingFile DEF Delivering
<1>5. Pending(c, "user")
  BY <1>2, <1>3, <1>4, EngineWaits
<1>6. phase = "SET_USER" /\ toHost[c] = <<>>
  BY <1>2, <1>4, <1>5 DEF Pending, At, In, CommandOf
<1>7. SetUser
  BY <1>6 DEF Serve, ServerStep, Accept, AcceptFails, Close, RecvCommand,
       RecvLength, SetRemotePath, SetFileName, CopyFileToGuest, RecvBlock,
       RecvDone, CopyFileFromGuest, SendBlock, SendDone
<1>8. SendOk
  BY <1>2, <1>7 DEF SetUser, Cut, FailsUnnoticed
<1>9. toHost'[c] = <<>> \o Reply("OK", 0)
  BY <1>1, <1>2, <1>6, <1>8, HostFields DEF SendOk, Send, ProcessEnds
<1>10. toHost'[c] = Reply("OK", 0)
  BY <1>9, ReplyTokens, ConcatEmptySeq DEF Results
<1>11. QED
  BY <1>1, <1>10, ReplyTokens DEF Results

LEMMA NextWelcome ==
  ASSUME Inv, Welcome, [Next]_vars, "passwd" \notin Faults
  PROVE  Welcome'
<1>1. CASE Serve
  BY <1>1, ServeWelcome
<1>2. ASSUME NEW c \in Calls, Host(c)
      PROVE  Welcome'
  <2>1. ASSUME NEW r \in Results, pc'[c] = "user?", toHost'[c] = Reply(r, 0)
        PROVE  FALSE
    <3>1. SendUser(c) /\ UNCHANGED toHost
      BY <1>2, <2>1, HostFields
         DEF Host, HostStep, Connect, SendUser, AwaitUser, SendPath, AwaitPath,
             SendName, AwaitName, OpenSource, TransmitBlock, AwaitCopy, OpenDest,
             SendGet, AwaitFile, ReceiveBlock, ReceiveDone, SendData, AwaitReply,
             NoCommandResult, Succeed, Fail, Return, Goto
    <3>2. toHost[c] = <<>>
      BY <3>1
         DEF SendUser, Inv, Conversation, Talk, Ends, HostSide, Sending, AtRest
    <3>3. Reply(r, 0) # <<>>
      BY DEF Reply
    <3>4. toHost'[c] = toHost[c]
      BY <3>1
    <3>5. QED
      BY <2>1, <3>2, <3>3, <3>4
  <2>2. QED
    BY <1>2, <2>1, HostUntouched DEF Welcome
<1>3. ASSUME NEW c \in Calls, Kill(c)
      PROVE  Welcome'
  BY <1>3, KillUntouched, HostFields DEF Kill, Return, Welcome
<1>4. CASE UNCHANGED <<hostVars, toHost>>
  BY <1>4 DEF Welcome, hostVars
<1>5. QED
  BY <1>1, <1>2, <1>3, <1>4
     DEF Next, Environment, Quiet, Truncate, Restart, Start, Crash, ProcessEnds,
         vars, socketVars

\* Which failures leave the code of an earlier call: a user name that was
\* refused, and a lookup without an operation.
LEMMA FailureSetsCode ==
  ASSUME Inv, Welcome, NEW c \in Calls, Host(c), Returns(c, "FALSE"),
         "vmlookup" \notin Faults
  PROVE  errcode'[c] # Stale
<1> USE HostFields DEF Host, Stale
<1>1. ASSUME NEW code, code # Stale, Fail(c, code)
      PROVE  errcode'[c] # Stale
  BY <1>1 DEF Fail, Return
<1>2. ASSUME NoCommandResult(c)
      PROVE  errcode'[c] # Stale
  BY <1>1, <1>2 DEF NoCommandResult
<1>3. ASSUME Succeed(c)
      PROVE  errcode'[c] # Stale
  BY <1>3 DEF Succeed, Fail, Return, Returns
<1>4. CASE Connect(c, Listening)
  BY <1>1, <1>4 DEF Connect, ConnectErrors, Returns
<1>5. CASE AwaitUser(c)
  <2>1. pc[c] = "user?" /\ hostEnd[c] = "open"
    BY <1>5 DEF AwaitUser, Inv, Conversation, Talk, Ends
  <2>2. ~(GetCommandResult(c) /\ ReplyResult(c) # "OK")
    <3>1. SUFFICES ASSUME Len(toHost[c]) >= 2
                   PROVE  ReplyResult(c) = "OK"
      BY DEF GetCommandResult
    <3>2. \E r \in Results : toHost[c] = Reply(r, 0)
      <4>1. toHost[c] # <<>> /\ Waiting(c) /\ Current(c) = "user" /\ Talk(c)
        BY <2>1, <3>1 DEF Waiting, Current, Inv, Conversation
      <4>2. QED
        BY <2>1, <4>1
           DEF Talk, HostSide, Pending, Answered, Delivering, Over, Results
    <3>3. QED
      BY <2>1, <3>2, ReplyTokens DEF Welcome, ReplyResult
  <2>3. NoCommandResult(c)
    BY <1>5, <2>2 DEF AwaitUser, AwaitReply, Goto, Returns
  <2>4. QED
    BY <1>2, <2>3
<1>6. CASE SendUser(c) \/ SendPath(c) \/ SendName(c) \/ SendGet(c)
  BY <1>1, <1>6
     DEF SendUser, SendPath, SendName, SendGet, SendData, Goto, Returns
<1>7. CASE AwaitPath(c) \/ AwaitName(c) \/ AwaitFile(c)
  BY <1>1, <1>2, <1>7
     DEF AwaitPath, AwaitName, AwaitFile, AwaitReply, Goto, Returns
<1>8. CASE OpenSource(c) \/ TransmitBlock(c)
  BY <1>1, <1>8 DEF OpenSource, TransmitBlock, SendData, Goto, Returns
<1>9. CASE AwaitCopy(c)
  BY <1>1, <1>2, <1>3, <1>9 DEF AwaitCopy
<1>10. CASE OpenDest(c)
  BY <1>10 DEF OpenDest, Goto, Returns
<1>11. CASE ReceiveBlock(c)
  BY <1>1, <1>3, <1>11 DEF ReceiveBlock, Goto, Returns
<1>12. CASE ReceiveDone(c)
  BY <1>3, <1>12 DEF ReceiveDone
<1>13. QED
  BY <1>4, <1>5, <1>6, <1>7, <1>8, <1>9, <1>10, <1>11, <1>12 DEF HostStep

\* A call that returns FALSE has set the code that GetHVCPLastError returns
\* (the __except handlers, SetUserName, GetVMID), as long as neither passwd nor
\* the lookup of the virtual machine fails.
THEOREM FailureHasCodeAlways ==
  ASSUME {"vmlookup", "passwd"} \cap Faults = {}
  PROVE  Spec => FailureHasCode
<1>1. Init => Inv /\ Welcome
  <2>1. Init => Welcome
    BY DEF Init, HostInit, Welcome
  <2>2. QED
    BY <2>1, InvInit
<1>2. Inv /\ Welcome /\ [Next]_vars => (Inv /\ Welcome)'
  BY InvNext, NextWelcome
<1>3. Inv /\ Welcome /\ [Next]_vars =>
        [\A c \in Calls : Returns(c, "FALSE") => errcode'[c] # Stale]_vars
  BY ReturnIsHost, FailureSetsCode
<1>4. QED
  BY <1>1, <1>2, <1>3, PTL DEF Spec, FailureHasCode

-----------------------------------------------------------------------------
(* How sessions end: Orderly.                                              *)

\* No step takes a file from its owner.
LEMMA OwnersStay ==
  ASSUME Inv, [Next]_vars, NEW p \in FilePaths, guestOwner[p] # NoFile
  PROVE  guestOwner'[p] # NoFile
<1> USE NoneAssumption DEF Inv, TypeOK, ServerTypeOK
<1>1. CASE CopyFileToGuest \/ RecvDone
  <2>1. path \in FilePaths /\ guestOwner[path] # NoFile =>
          guestOwner'[path] # NoFile
    BY <1>1 DEF CopyFileToGuest, RecvDone, fileSystem
  <2>2. \A q \in FilePaths : q # path => guestOwner'[q] = guestOwner[q]
    BY <1>1 DEF CopyFileToGuest, RecvDone, fileSystem
  <2>3. QED
    BY <2>1, <2>2
<1>2. CASE UNCHANGED guestOwner
  BY <1>2
<1>3. CASE Serve
  BY <1>1, <1>2, <1>3
     DEF Serve, ServerStep, Accept, AcceptFails, Close, RecvCommand, RecvLength,
         SetUser, SetRemotePath, SetFileName, RecvBlock, CopyFileFromGuest,
         SendBlock, SendDone, fileSystem
<1>4. QED
  BY <1>2, <1>3
     DEF Next, Restart, Start, Host, Environment, Crash, Truncate, Quiet, vars,
         serverVars, fileSystem

\* Nothing that the order of a session depends on is touched by the step.
LEMMA SameOrder ==
  ASSUME NEW e \in Calls, Order(e),
         req'[e] = req[e], pc'[e] = pc[e], hostEnd'[e] = hostEnd[e],
         guestEnd'[e] = guestEnd[e], toGuest'[e] = toGuest[e],
         toHost'[e] = toHost[e],
         client' = e <=> client = e, client = e => phase' = phase,
         guestOwner[Dest(e)] # NoFile => guestOwner'[Dest(e)] # NoFile
  PROVE  Order(e)'
<1>1. Upload(e)' = Upload(e) /\ Dest(e)' = Dest(e)
  BY DEF Upload, Dest, IsDirectory
<1>2. EndsWithRefusal(e)'
  BY <1>1 DEF Order, EndsWithRefusal
<1>3. NothingLeft(e)'
  BY <1>1 DEF Order, NothingLeft, Reading
<1>4. HasOwner(e)'
  BY <1>1 DEF Order, HasOwner, Written
<1>5. QED
  BY <1>2, <1>3, <1>4 DEF Order

\* Nothing was sent to a call that waits in the backlog.
LEMMA QueuedQuiet ==
  ASSUME Inv, Deliveries, NEW e \in Calls,
         guestEnd[e] = "queued", hostEnd[e] = "open"
  PROVE  toHost[e] = <<>> /\ (pc[e] = "data" => Upload(e))
<1>1. Talk(e) /\ (pc[e] = "data" => Upload(e))
  BY DEF Inv, Conversation, Deliveries, Download
<1>2. pc[e] \in Sending \/ Waiting(e)
  BY <1>1, HostFields DEF HostStates, Sending, Waiting, Talk, Ends
<1>3. QED
  BY <1>1, <1>2
     DEF Talk, HostSide, AtRest, Pending, Answered, Delivering, Over

\* While the daemon is at work on an upload, its caller is there.
LEMMA BusyIsOpen ==
  ASSUME Inv, Orderly, NEW c \in Calls, client = c, Upload(c),
         phase \notin {"command", "close"}
  PROVE  hostEnd[c] = "open"
  BY AtWork DEF Orderly, Order, NothingLeft

\* A session that ends leaves nothing to be read.
LEMMA EndedOrder ==
  ASSUME NEW e \in Calls, guestEnd'[e] \in {"deaf", "closed"},
         client' # e \/ phase' \notin {"recv", "close"},
         hostEnd'[e] = "open" =>
           /\ pc'[e] = "data" => Upload(e)'
           /\ toHost'[e] # <<>> =>
                \E r \in Results \ {"OK"} : toHost'[e] = Reply(r, 0)
  PROVE  Order(e)'
  BY DEF Order, EndsWithRefusal, NothingLeft, Reading, HasOwner, Written

\* So does the end of the process, unless its client was in the middle.
LEMMA ProcessEndsOrder ==
  ASSUME Inv, Deliveries, Orderly, ProcessEnds, UNCHANGED <<hostVars, hostEnd>>,
         NEW e \in Calls, client = e => hostEnd[e] # "open"
  PROVE  Order(e)'
<1>1. /\ guestEnd'[e] = IF guestEnd[e] = "none" THEN "none" ELSE "closed"
      /\ client' = NoClient /\ client' # e /\ toHost' = toHost
      /\ UNCHANGED <<req, pc>> /\ Upload(e)' = Upload(e)
  BY NoneAssumption DEF ProcessEnds, hostVars, Upload
<1>2. CASE hostEnd[e] = "open"
  <2>1. guestEnd[e] \in {"queued", "deaf", "closed"}
    BY <1>2
       DEF Inv, Conversation, Talk, Ends, SessionInv, OneSession, SocketTypeOK
  <2>2. /\ pc[e] = "data" => Upload(e)
        /\ toHost[e] # <<>> =>
             \E r \in Results \ {"OK"} : toHost[e] = Reply(r, 0)
    BY <1>2, <2>1, QueuedQuiet DEF Orderly, Order, EndsWithRefusal
  <2>3. QED
    BY <1>1, <2>1, <2>2, EndedOrder
<1>3. CASE hostEnd[e] # "open"
  BY <1>1, <1>3
     DEF Order, EndsWithRefusal, NothingLeft, Reading, HasOwner, Written
<1>4. QED
  BY <1>2, <1>3

\* A handler refuses its request.
LEMMA RefusalOrder ==
  ASSUME Inv, Deliveries, Orderly, NEW c \in Calls, client = c,
         phase \notin {"command", "close"},
         phase = "send" => hostEnd[c] # "open",
         NEW error \in Results \ {"OK"}, SendError(error),
         UNCHANGED <<hostVars, hostEnd>>
  PROVE  Order(c)'
<1>1. CASE ProcessEnds
  <2>1. hostEnd[c] # "open"
    <3>1. guestEnd[c] = "open" /\ guestEnd'[c] = "closed"
      BY <1>1, AtWork DEF ProcessEnds
    <3>2. guestEnd' # [guestEnd EXCEPT ![client] = "deaf"]
      BY <3>1 DEF Inv, SessionInv, SocketTypeOK
    <3>3. QED
      BY <3>2 DEF SendError, Send
  <2>2. QED
    BY <1>1, <2>1, ProcessEndsOrder
<1>2. CASE ~ProcessEnds
  <2>1. /\ phase' = "command" /\ guestEnd'[c] = "deaf"
        /\ UNCHANGED <<req, pc>> /\ Upload(c)' = Upload(c)
        /\ hostEnd[c] = "open" => toHost'[c] = toHost[c] \o Reply(error, 0)
    BY <1>2, HostFields
       DEF SendError, Send, Inv, SessionInv, SocketTypeOK, hostVars, Upload
  <2>2. ASSUME hostEnd[c] = "open"
        PROVE  (pc[c] = "data" => Upload(c)) /\ toHost'[c] = Reply(error, 0)
    <3>1. /\ guestEnd[c] = "open" /\ pc[c] \notin Sending
          /\ Waiting(c) => Pending(c, Current(c))
      BY <2>2, AtWork, EngineWaits
    <3>2. pc[c] = "data" => Upload(c)
      BY <2>2, <3>1 DEF Deliveries, Download, UnderWay
    <3>3. Waiting(c)
      BY <2>2, <3>1, <3>2, HostFields
         DEF HostStates, Sending, Waiting, Inv, Conversation, Talk, Ends
    <3>4. toHost[c] = <<>>
      BY <3>1, <3>3 DEF Pending
    <3>5. QED
      BY <2>1, <2>2, <3>2, <3>4, ReplyTokens, ConcatEmptySeq
  <2>3. QED
    BY <2>1, <2>2, EndedOrder
<1>3. QED
  BY <1>1, <1>2

\* A handler agrees.
LEMMA AgreementOrder ==
  ASSUME Inv, Deliveries, Orderly, Serve, NEW c \in Calls, client = c,
         phase \in {"SET_USER", "SET_REMOTE_PATH", "SET_FILE_NAME", "recv"},
         SendOk, UNCHANGED hostEnd
  PROVE  Order(c)'
<1>0. Talk(c) /\ guestEnd[c] = "open" /\ UNCHANGED hostVars
  BY AtWork DEF Serve
<1>1. CASE ProcessEnds
  <2>1. guestEnd'[c] = "closed"
    BY <1>0, <1>1 DEF ProcessEnds
  <2>2. guestEnd' # [guestEnd EXCEPT ![client] = "open"]
    BY <2>1 DEF Inv, SessionInv, SocketTypeOK
  <2>3. hostEnd[c] # "open"
    BY <2>2 DEF SendOk, Send
  <2>4. QED
    BY <1>0, <1>1, <2>3, ProcessEndsOrder
<1>2. CASE ~ProcessEnds
  <2>1. /\ phase' = "command" /\ guestEnd'[c] = "open"
        /\ UNCHANGED <<req, pc>> /\ Upload(c)' = Upload(c) /\ Dest(c)' = Dest(c)
    BY <1>0, <1>2
       DEF SendOk, Send, Inv, SessionInv, SocketTypeOK, hostVars, Upload, Dest,
           IsDirectory
  <2>2. EndsWithRefusal(c)'
    BY <2>1 DEF EndsWithRefusal
  <2>3. NothingLeft(c)'
    BY <2>1, BusyIsOpen DEF NothingLeft
  <2>4. ASSUME pc[c] = "data", Upload(c)
        PROVE  guestOwner'[Dest(c)] # NoFile
    <3>1. Pending(c, "copy")
      <4>1. hostEnd[c] = "open" /\ Waiting(c) /\ Current(c) = "copy"
        BY <1>0, <2>4 DEF Talk, Ends, Waiting, Current
      <4>2. QED
        BY <1>0, <4>1, EngineWaits
    <3>2. phase = "recv"
      BY <3>1 DEF Pending, At, In, CommandOf
    <3>3. guestOwner[Dest(c)] # NoFile
      BY <3>2 DEF Orderly, Order, HasOwner, Written
    <3>4. QED
      BY <3>3, OwnersStay, DestIsFile DEF Inv, Next
  <2>5. HasOwner(c)'
    BY <2>1, <2>4 DEF HasOwner, Written
  <2>6. QED
    BY <2>2, <2>3, <2>5 DEF Order
<1>3. QED
  BY <1>1, <1>2

\* What the daemon does to the connections of others.
LEMMA ServeElsewhere ==
  ASSUME Inv, Serve, NEW e \in Calls, client # e
  PROVE  /\ UNCHANGED <<hostVars, hostEnd>>
         /\ \/ /\ guestEnd'[e] = guestEnd[e] /\ toGuest'[e] = toGuest[e]
               /\ toHost'[e] = toHost[e] /\ client' # e
            \/ ProcessEnds
            \/ Accept /\ Head(backlog) = e
<1> USE HostFields, NoneAssumption DEF Serve, Inv, SessionInv, SocketTypeOK
<1>1. ASSUME NEW tokens, NEW end, NEW next, Send(tokens, end, next)
      PROVE  \/ /\ guestEnd'[e] = guestEnd[e] /\ toHost'[e] = toHost[e]
                /\ client' # e
             \/ ProcessEnds
  BY <1>1 DEF Send
<1>2. ASSUME NEW n, Receive(client, n)
      PROVE  toGuest'[e] = toGuest[e]
  BY <1>2 DEF Receive
<1>3. CASE SetUser \/ SetRemotePath \/ SetFileName
  BY <1>1, <1>2, <1>3 DEF SetUser, SetRemotePath, SetFileName, SendOk, SendError
<1>4. CASE CopyFileToGuest \/ RecvBlock \/ RecvDone
  BY <1>1, <1>2, <1>4 DEF CopyFileToGuest, RecvBlock, RecvDone, SendOk, SendError
<1>5. CASE CopyFileFromGuest \/ SendBlock
  BY <1>1, <1>5 DEF CopyFileFromGuest, SendBlock, SendError
<1>6. CASE RecvCommand \/ RecvLength \/ Close \/ SendDone
  BY <1>2, <1>6 DEF RecvCommand, RecvLength, Close, SendDone, socketVars
<1>7. CASE Accept \/ AcceptFails
  BY <1>7 DEF Accept, AcceptFails
<1>8. QED
  BY <1>3, <1>4, <1>5, <1>6, <1>7 DEF ServerStep

\* A new client has said and heard nothing.
LEMMA AcceptOrder ==
  ASSUME Inv, Deliveries, Orderly, Accept, UNCHANGED hostVars,
         NEW e \in Calls, Head(backlog) = e
  PROVE  Order(e)'
<1>1. /\ guestEnd[e] = "queued" /\ guestEnd'[e] = "open" /\ client = NoClient
      /\ client' = e /\ phase' = "command" /\ client # e
      /\ UNCHANGED <<hostEnd, toGuest, toHost, req, pc>>
  BY EmptySeq, NoneAssumption
     DEF Accept, Inv, SessionInv, OneSession, SocketTypeOK, hostVars
<1>2. hostEnd[e] = "open" => toHost[e] = <<>>
  BY <1>1, QueuedQuiet
<1>3. pc[e] = "data" => hostEnd[e] = "open"
  BY DEF Inv, Conversation, Talk, Ends
<1>4. EndsWithRefusal(e)' /\ HasOwner(e)'
  BY <1>1, <1>2, <1>3 DEF EndsWithRefusal, HasOwner, Written
<1>5. hostEnd[e] = "open" \/ ~Upload(e)
  BY <1>1 DEF Orderly, Order, NothingLeft, Reading
<1>6. NothingLeft(e)'
  BY <1>1, <1>5 DEF NothingLeft, Upload
<1>7. QED
  BY <1>4, <1>6 DEF Order

\* The daemon moves on, with the caller of its upload there.
LEMMA MovesOrder ==
  ASSUME Inv, Orderly, Serve, NEW c \in Calls, client = c, client' = c,
         guestEnd[c] = "open", guestEnd'[c] = "open", phase' # "close",
         Upload(c) => hostEnd[c] = "open" /\ toHost'[c] = toHost[c],
         phase' = "recv" /\ phase # "recv" => guestOwner'[Dest(c)] # NoFile
  PROVE  Order(c)'
<1>1. /\ UNCHANGED <<hostVars, hostEnd, req, pc>>
      /\ Upload(c)' = Upload(c) /\ Dest(c)' = Dest(c)
  BY ServeEndsOnly DEF hostVars, Upload, Dest, IsDirectory
<1>2. EndsWithRefusal(c)' /\ NothingLeft(c)'
  BY <1>1 DEF EndsWithRefusal, NothingLeft
<1>3. ASSUME Written(c)'
      PROVE  guestOwner'[Dest(c)] # NoFile
  <2>1. Written(c) \/ (phase' = "recv" /\ phase # "recv")
    BY <1>1, <1>3 DEF Written
  <2>2. CASE Written(c)
    <3>1. guestOwner[Dest(c)] # NoFile
      BY <2>2 DEF Orderly, Order, HasOwner
    <3>2. QED
      BY <3>1, OwnersStay, DestIsFile DEF Inv, Next
  <2>3. QED
    BY <2>1, <2>2
<1>4. QED
  BY <1>1, <1>2, <1>3 DEF Order, HasOwner

LEMMA RecvOrder ==
  ASSUME Inv, Deliveries, Orderly, Serve, NEW c \in Calls, client = c,
         RecvCommand \/ RecvLength
  PROVE  Order(c)'
<1>0. /\ Order(c) /\ Talk(c) /\ guestEnd[c] \in {"open", "deaf"} /\ c # NoClient
      /\ UNCHANGED <<hostVars, hostEnd, guestEnd, toHost, client, guestOwner>>
  BY NoneAssumption
     DEF RecvCommand, RecvLength, Serve, Orderly, fileSystem, Inv, Conversation,
         SessionInv, OneSession
<1>1. CASE phase' = "close"
  <2>1. hostEnd[c] = "open" => guestEnd[c] = "deaf"
    <3>1. CASE RecvCommand
      BY <1>0, <1>1, <3>1 DEF RecvCommand, Cut
    <3>2. CASE RecvLength
      <4>1. cmd \in HandledCommands
        BY <3>2, AtWork DEF In, CommandOf, RecvLength, HandledCommands, Stages
      <4>2. QED
        BY <1>1, <3>2, <4>1 DEF RecvLength, Cut, HandledCommands
    <3>3. QED
      BY <3>1, <3>2
  <2>2. Upload(c)' = Upload(c) /\ UNCHANGED <<req, pc>>
    BY <1>0 DEF hostVars, Upload
  <2>3. Dest(c)' = Dest(c)
    BY <2>2 DEF Dest, IsDirectory
  <2>4. EndsWithRefusal(c)'
    BY <1>0, <2>1, <2>2 DEF Order, EndsWithRefusal
  <2>5. NothingLeft(c)'
    BY <1>0, <1>1 DEF NothingLeft, Reading
  <2>6. HasOwner(c)'
    BY <1>0, <1>1, <2>2, <2>3 DEF Order, HasOwner, Written
  <2>7. QED
    BY <2>4, <2>5, <2>6 DEF Order
<1>2. CASE phase' # "close"
  <2>1. /\ guestEnd[c] = "open" /\ phase' # "recv" /\ toGuest[c] # <<>>
    BY <1>0, <1>2, AtWork, HostFields
       DEF RecvCommand, RecvLength, Arrived, HandledCommands
  <2>2. Upload(c) => hostEnd[c] = "open"
    BY <1>0, <2>1
       DEF Order, NothingLeft, Reading, RecvCommand, RecvLength
  <2>3. QED
    BY <1>0, <1>2, <2>1, <2>2, MovesOrder
<1>3. QED
  BY <1>1, <1>2

LEMMA CloseOrder ==
  ASSUME Inv, Orderly, Close, UNCHANGED hostVars, NEW c \in Calls, client = c
  PROVE  Order(c)'
<1>1. /\ guestEnd'[c] = "closed" /\ client' # c
      /\ UNCHANGED <<hostEnd, toHost, req, pc>> /\ Upload(c)' = Upload(c)
  BY NoneAssumption
     DEF Close, Inv, SessionInv, SocketTypeOK, hostVars, Upload
<1>2. hostEnd[c] = "open" =>
        /\ pc[c] = "data" => Upload(c)
        /\ toHost[c] # <<>> =>
             \E r \in Results \ {"OK"} : toHost[c] = Reply(r, 0)
  BY DEF Close, Orderly, Order, EndsWithRefusal
<1>3. QED
  BY <1>1, <1>2, EndedOrder

LEMMA StringOrder ==
  ASSUME Inv, Deliveries, Orderly, Serve, NEW c \in Calls, client = c,
         SetUser \/ SetRemotePath \/ SetFileName
  PROVE  Order(c)'
<1>1. UNCHANGED <<hostVars, hostEnd>>
      /\ phase \in {"SET_USER", "SET_REMOTE_PATH", "SET_FILE_NAME"}
  BY DEF SetUser, SetRemotePath, SetFileName, Serve
<1>2. SendOk \/ \E error \in Results \ {"OK"} : SendError(error)
  BY DEF SetUser, SetRemotePath, SetFileName, Results
<1>3. QED
  BY <1>1, <1>2, AgreementOrder, RefusalOrder

LEMMA StoreOrder ==
  ASSUME Inv, Deliveries, Orderly, Serve, NEW c \in Calls, client = c,
         CopyFileToGuest \/ RecvBlock \/ RecvDone
  PROVE  Order(c)'
<1>0. /\ phase \in {"COPY_FILE_TO_GUEST", "recv"} /\ guestEnd[c] = "open"
      /\ UNCHANGED <<hostVars, hostEnd>> /\ Upload(c) /\ path = Dest(c)
  <2>1. phase \in {"COPY_FILE_TO_GUEST", "recv"}
    BY DEF CopyFileToGuest, RecvBlock, RecvDone
  <2>2. PICK s \in Stages(c) : In(c, s) /\ Prepared(c, s)
    BY <2>1, AtWork
  <2>3. s = "copy"
    BY <2>1, <2>2 DEF In, CommandOf, Stages
  <2>4. Upload(c)
    BY <2>2, <2>3 DEF Stages
  <2>5. QED
    BY <2>1, <2>2, <2>3, <2>4, AtWork
       DEF Prepared, CopyFileToGuest, RecvBlock, RecvDone, Serve
<1>1. hostEnd[c] = "open"
  BY <1>0, BusyIsOpen
<1>2. CASE \E error \in Results \ {"OK"} : SendError(error)
  BY <1>0, <1>2, RefusalOrder
<1>3. CASE RecvDone
  BY <1>0, <1>3, AgreementOrder DEF RecvDone
<1>4. CASE /\ UNCHANGED <<client, guestEnd, toHost>>
           /\ phase' = "recv" /\ (phase = "recv" \/ CopyFileToGuest)
  <2>1. phase # "recv" => guestOwner'[Dest(c)] # NoFile
    <3>1. SUFFICES ASSUME CopyFileToGuest, phase # "recv"
                   PROVE  guestOwner'[path] # NoFile
      BY <1>0, <1>4
    <3>2. path \in FilePaths
      BY <1>0, DestIsFile DEF Inv
    <3>3. guestEnd'[c] = "open"
      BY <1>0, <1>4
    <3>4. guestOwner' = [guestOwner EXCEPT ![path] =
                           IF @ = NoFile THEN ServerUid ELSE @]
      BY <1>0, <1>4, <3>1
         DEF CopyFileToGuest, SendError, Send, ProcessEnds
    <3>5. QED
      BY <3>2, <3>4, NoneAssumption DEF Inv, TypeOK, ServerTypeOK, Uids
  <2>2. QED
    BY <1>0, <1>1, <1>4, <2>1, MovesOrder
<1>5. QED
  BY <1>2, <1>3, <1>4 DEF CopyFileToGuest, RecvBlock, Results

LEMMA FetchOrder ==
  ASSUME Inv, Deliveries, Orderly, Serve, Reliable, NEW c \in Calls, client = c,
         CopyFileFromGuest \/ SendBlock \/ SendDone
  PROVE  Order(c)'
<1>0. /\ phase \in {"COPY_FILE_FROM_GUEST", "send"} /\ guestEnd[c] = "open"
      /\ UNCHANGED <<hostVars, hostEnd>> /\ ~Upload(c) /\ path = req[c].rpath
  <2>1. phase \in {"COPY_FILE_FROM_GUEST", "send"}
    BY DEF CopyFileFromGuest, SendBlock, SendDone
  <2>2. PICK s \in Stages(c) : In(c, s) /\ Prepared(c, s)
    BY <2>1, AtWork
  <2>3. s = "get"
    BY <2>1, <2>2 DEF In, CommandOf, Stages
  <2>4. ~Upload(c)
    BY <2>2, <2>3 DEF Stages
  <2>5. QED
    BY <2>1, <2>2, <2>3, <2>4, AtWork
       DEF Prepared, CopyFileFromGuest, SendBlock, SendDone, Serve, socketVars
<1>1. ASSUME phase = "send", SendError("FILETRANSFER_ERROR"), SendBlock
      PROVE  hostEnd[c] # "open"
  <2>1. phase' # "send"
    BY <1>1 DEF SendError, Send, ProcessEnds
  <2>2. ~IsDirectory(path)
    BY <1>0, HostFields, RequestsAssumption DEF Reliable, Upload
  <2>3. "readerror" \notin Faults
    BY DEF Reliable
  <2>4. QED
    BY <1>1, <2>1, <2>2, <2>3 DEF SendBlock
<1>2. CASE SendError("FILETRANSFER_ERROR") /\ ~SendDone
  <2>1. phase = "send" => SendBlock
    BY <1>2 DEF CopyFileFromGuest
  <2>2. QED
    BY <1>0, <1>1, <1>2, <2>1, RefusalOrder DEF Results
<1>3. CASE Send(Reply("OK", FileSize(path)), "open", "send") /\ CopyFileFromGuest
  <2>1. CASE ProcessEnds
    <3>1. guestEnd' # [guestEnd EXCEPT ![client] = "open"]
      BY <1>0, <2>1 DEF ProcessEnds, Inv, SessionInv, SocketTypeOK
    <3>2. hostEnd[c] # "open"
      BY <1>3, <3>1 DEF Send
    <3>3. QED
      BY <1>0, <2>1, <3>2, ProcessEndsOrder
  <2>2. CASE ~ProcessEnds
    <3>1. phase' = "send" /\ guestEnd'[c] = "open" /\ client' = c
      BY <1>0, <1>3, <2>2 DEF Send, Inv, SessionInv, SocketTypeOK
    <3>2. QED
      BY <1>0, <3>1, MovesOrder
  <2>3. QED
    BY <2>1, <2>2
<1>4. CASE /\ UNCHANGED <<client, guestEnd>>
           /\ phase' \in {"send", "command"}
  BY <1>0, <1>4, MovesOrder
<1>5. QED
  BY <1>2, <1>3, <1>4 DEF CopyFileFromGuest, SendBlock, SendDone, socketVars

LEMMA ServeOrder ==
  ASSUME Inv, Deliveries, Orderly, Serve, Reliable
  PROVE  Orderly'
<1>1. SUFFICES ASSUME NEW e \in Calls
               PROVE  Order(e)'
  BY DEF Orderly
<1>2. CASE client # e
  <2>1. CASE Accept /\ Head(backlog) = e
    BY <2>1, AcceptOrder DEF Serve
  <2>2. CASE ProcessEnds
    BY <1>2, <2>2, ServeElsewhere, ProcessEndsOrder
  <2>3. CASE /\ guestEnd'[e] = guestEnd[e] /\ toGuest'[e] = toGuest[e]
             /\ toHost'[e] = toHost[e] /\ client' # e
    <3>1. UNCHANGED <<hostVars, hostEnd>> /\ Order(e)
      BY <1>2, ServeElsewhere DEF Orderly
    <3>2. guestOwner[Dest(e)] # NoFile => guestOwner'[Dest(e)] # NoFile
      BY OwnersStay, DestIsFile DEF Inv, Next
    <3>3. QED
      BY <1>2, <2>3, <3>1, <3>2, SameOrder DEF hostVars
  <2>4. QED
    BY <1>2, <2>1, <2>2, <2>3, ServeElsewhere
<1>3. CASE client = e
  <2>1. phase \notin {"down", "accept"}
    BY <1>3, NoneAssumption DEF Inv, SessionInv, OneSession
  <2>2. ServerStep /\ UNCHANGED hostVars /\ ~Accept /\ ~AcceptFails
    BY <2>1 DEF Serve, Accept, AcceptFails
  <2>3. QED
    BY <1>3, <2>2, RecvOrder, CloseOrder, StringOrder, StoreOrder, FetchOrder
       DEF ServerStep
<1>4. QED
  BY <1>2, <1>3

-----------------------------------------------------------------------------
\* A call returns while the daemon does not work for it.
LEMMA ReturnOrder ==
  ASSUME Orderly, NEW c \in Calls, pc'[c] = "returned", hostEnd'[c] # "open",
         UNCHANGED <<req, guestEnd, serverVars>>,
         Upload(c) /\ Reading(c) =>
           client = c /\ phase = "command" /\ toGuest'[c] = <<>>
  PROVE  Order(c)'
<1>1. /\ Upload(c)' = Upload(c) /\ Reading(c)' = Reading(c) /\ Dest(c)' = Dest(c)
      /\ UNCHANGED <<phase, client, guestOwner>>
  BY DEF Upload, Reading, Dest, IsDirectory, serverVars, fileSystem
<1>2. EndsWithRefusal(c)' /\ NothingLeft(c)'
  BY <1>1 DEF EndsWithRefusal, NothingLeft
<1>3. HasOwner(c)'
  BY <1>1 DEF Orderly, Order, HasOwner, Written
<1>4. QED
  BY <1>2, <1>3 DEF Order

LEMMA FailOrder ==
  ASSUME Inv, Orderly, NEW c \in Calls, NEW code,
         Fail(c, code) \/ NoCommandResult(c) \/ Succeed(c),
         UNCHANGED <<req, guestEnd, toGuest, serverVars>>,
         Upload(c) /\ Reading(c) =>
           client = c /\ phase = "command" /\ toGuest[c] = <<>>
  PROVE  Order(c)'
<1>1. pc'[c] = "returned" /\ hostEnd'[c] # "open"
  BY HostFields
     DEF Fail, NoCommandResult, Succeed, Return, Inv, SessionInv, SocketTypeOK
<1>2. QED
  BY <1>1, ReturnOrder

\* The engine goes on in its session.
LEMMA GoOrder ==
  ASSUME Inv, Orderly, NEW c \in Calls, hostEnd[c] = "open",
         hostEnd'[c] = "open", guestEnd'[c] = guestEnd[c],
         UNCHANGED <<req, serverVars>>,
         pc'[c] = "data" /\ guestEnd[c] \in {"deaf", "closed"} => Upload(c),
         guestEnd[c] \in {"deaf", "closed"} =>
           toHost'[c] = toHost[c],
         pc'[c] = "data" /\ Upload(c) =>
           toHost'[c] = <<>> \/ (pc[c] = "data" /\ toHost'[c] = toHost[c])
  PROVE  Order(c)'
<1>1. /\ Upload(c)' = Upload(c) /\ Dest(c)' = Dest(c) /\ Order(c)
      /\ UNCHANGED <<phase, client, guestOwner>>
  BY DEF Upload, Dest, IsDirectory, serverVars, fileSystem, Orderly
<1>2. EndsWithRefusal(c)' /\ NothingLeft(c)'
  BY <1>1 DEF EndsWithRefusal, NothingLeft, Order
<1>3. HasOwner(c)'
  BY <1>1 DEF Order, HasOwner, Written
<1>4. QED
  BY <1>2, <1>3 DEF Order

\* A reply that is not OK ends the session; one that is does not.
LEMMA ReplyOrder ==
  ASSUME Inv, Orderly, NEW c \in Calls, hostEnd[c] = "open", Waiting(c),
         Len(toHost[c]) >= 2
  PROVE  /\ ReplyResult(c) = "OK" => guestEnd[c] \notin {"deaf", "closed"}
         /\ Upload(c) /\ Reading(c) =>
              client = c /\ phase = "command" /\ toGuest[c] = <<>>
<1>0. Talk(c) /\ toHost[c] # <<>> /\ Order(c)
  BY DEF Inv, Conversation, Orderly
<1>1. guestEnd[c] \in {"deaf", "closed"} => ReplyResult(c) # "OK"
  BY <1>0, ReplyTokens DEF Order, EndsWithRefusal, ReplyResult
<1>2. Upload(c) => Current(c) # "get"
  BY <1>0 DEF Talk, Ends, Current, Waiting
<1>3. Upload(c) /\ Reading(c) => Answered(c, Current(c))
  BY <1>0, <1>2 DEF Talk, HostSide, Pending, Delivering, Over, Reading
<1>4. guestEnd[c] = "open" => client = c
  BY DEF Inv, SessionInv, OneSession
<1>5. QED
  BY <1>1, <1>3, <1>4 DEF Answered

\* A request is sent, or the guest's end is found closed.
LEMMA SendOrder ==
  ASSUME Inv, Orderly, NEW c \in Calls, NEW tokens, NEW next, NEW code,
         SendData(c, tokens, next, code), hostEnd[c] = "open",
         UNCHANGED <<req, guestEnd, toHost, serverVars>>,
         next = "data" => Upload(c) /\ (toHost[c] = <<>> \/ pc[c] = "data")
  PROVE  Order(c)'
<1>1. CASE Goto(c, next)
  <2>1. pc'[c] = next /\ hostEnd' = hostEnd
    BY <1>1, HostFields DEF Goto
  <2>2. QED
    BY <2>1, GoOrder
<1>2. CASE guestEnd[c] = "closed" /\ Fail(c, code) /\ UNCHANGED toGuest
  BY <1>2, FailOrder DEF Reading
<1>3. QED
  BY <1>1, <1>2 DEF SendData, SendMayFail

\* The reply to a request is taken.
LEMMA AwaitOrder ==
  ASSUME Inv, Orderly, NEW c \in Calls, NEW next, NEW code,
         AwaitReply(c, next, code), hostEnd[c] = "open", Waiting(c),
         UNCHANGED <<req, guestEnd, toGuest, serverVars>>,
         next = "data" => ~Upload(c)
  PROVE  Order(c)'
<1>1. CASE NoCommandResult(c)
  BY <1>1, FailOrder DEF NoCommandResult, HostEndOfStream, HostRecvFails, Reading
<1>2. CASE GetCommandResult(c) /\ ReplyResult(c) = "OK" /\ Goto(c, next)
  <2>1. pc'[c] = next /\ hostEnd' = hostEnd
    BY <1>2, HostFields DEF Goto
  <2>2. guestEnd[c] \notin {"deaf", "closed"}
    BY <1>2, ReplyOrder DEF GetCommandResult
  <2>3. QED
    BY <2>1, <2>2, GoOrder
<1>3. CASE GetCommandResult(c) /\ Fail(c, code)
  BY <1>3, ReplyOrder, FailOrder DEF GetCommandResult
<1>4. QED
  BY <1>1, <1>2, <1>3 DEF AwaitReply

LEMMA HostOrder ==
  ASSUME Inv, Deliveries, Orderly, Reliable, NEW c \in Calls, Host(c)
  PROVE  Order(c)'
<1>0. /\ Talk(c) /\ UNCHANGED serverVars /\ HostStep(c, Listening)
      /\ Order(c) /\ Download(c)
  BY DEF Host, Inv, Conversation, Orderly, Deliveries
<1>1. CASE Connect(c, Listening)
  <2>1. pc[c] = "connect" /\ guestEnd[c] = "none" /\ hostEnd[c] = "none"
        /\ UNCHANGED <<req, toGuest>> /\ client # c
    BY <1>0, <1>1 DEF Connect, Talk, Ends, Inv, SessionInv, OneSession
  <2>2. ASSUME NEW code, Fail(c, code), UNCHANGED guestEnd
        PROVE  Order(c)'
    BY <1>0, <2>1, <2>2, FailOrder DEF Reading
  <2>3. CASE hostEnd' = [hostEnd EXCEPT ![c] = "open"]
             /\ guestEnd' = [guestEnd EXCEPT ![c] = "queued"]
             /\ pc' = [pc EXCEPT ![c] = IF Upload(c) THEN "user" ELSE "path"]
    <3>1. /\ hostEnd'[c] = "open" /\ guestEnd'[c] = "queued" /\ pc'[c] # "data"
          /\ client' # c
      BY <1>0, <2>1, <2>3, HostFields
         DEF Inv, SessionInv, SocketTypeOK, serverVars
    <3>2. QED
      BY <3>1
         DEF Order, EndsWithRefusal, NothingLeft, HasOwner, Written
  <2>4. QED
    BY <1>1, <2>2, <2>3 DEF Connect
<1>2. pc[c] \notin {"connect", "returned"} => hostEnd[c] = "open"
  BY <1>0 DEF Talk, Ends
<1>3. CASE SendUser(c) \/ SendPath(c) \/ SendName(c) \/ SendGet(c)
  BY <1>0, <1>2, <1>3, SendOrder DEF SendUser, SendPath, SendName, SendGet
<1>4. CASE AwaitUser(c) \/ AwaitPath(c) \/ AwaitName(c) \/ AwaitFile(c)
  <2>1. Waiting(c) /\ hostEnd[c] = "open" /\ (pc[c] = "file?" => ~Upload(c))
    BY <1>0, <1>2, <1>4
       DEF AwaitUser, AwaitPath, AwaitName, AwaitFile, Waiting, Talk, Ends
  <2>2. UNCHANGED <<req, guestEnd, toGuest>>
        /\ \E next, code : AwaitReply(c, next, code)
                             /\ (next = "data" => ~Upload(c))
    BY <1>4, <2>1 DEF AwaitUser, AwaitPath, AwaitName, AwaitFile
  <2>3. QED
    BY <1>0, <2>1, <2>2, AwaitOrder
<1>5. CASE OpenSource(c)
  <2>1. /\ pc[c] = "source" /\ hostEnd[c] = "open" /\ AtRest(c) /\ Upload(c)
        /\ UNCHANGED <<req, guestEnd, toHost>>
    BY <1>0, <1>2, <1>5 DEF OpenSource, Talk, Ends, HostSide, Sending
  <2>2. Reading(c) => client = c /\ phase = "command" /\ toGuest[c] = <<>>
    BY <2>1 DEF AtRest, First, Reading, Inv, SessionInv, OneSession
  <2>3. CASE \E code : Fail(c, code) /\ UNCHANGED toGuest
    BY <1>0, <2>1, <2>2, <2>3, FailOrder
  <2>4. CASE \E tokens, code : SendData(c, tokens, "data", code)
    BY <1>0, <2>1, <2>4, SendOrder DEF AtRest
  <2>5. QED
    BY <1>5, <2>3, <2>4 DEF OpenSource
<1>6. CASE TransmitBlock(c)
  <2>1. /\ pc[c] = "data" /\ Upload(c) /\ UNCHANGED <<req, guestEnd, toHost>>
        /\ \/ \E tokens : SendData(c, tokens, "data", "ERR_COPY_FILE_TO_GUEST")
           \/ /\ SendMayFail(c) /\ UNCHANGED toGuest
              /\ Fail(c, "ERR_COPY_FILE_TO_GUEST")
    BY <1>6 DEF TransmitBlock, Reliable
  <2>2. \E tokens, code : SendData(c, tokens, "data", code)
    BY <2>1 DEF SendData
  <2>3. QED
    BY <1>0, <1>2, <2>1, <2>2, SendOrder
<1>7. CASE AwaitCopy(c)
  <2>1. /\ UNCHANGED <<req, guestEnd, toGuest>> /\ Waiting(c) /\ hostEnd[c] = "open"
    BY <1>2, <1>7 DEF AwaitCopy, Waiting
  <2>2. CASE NoCommandResult(c)
    BY <1>0, <2>1, <2>2, FailOrder
       DEF NoCommandResult, HostEndOfStream, HostRecvFails, Reading
  <2>3. CASE GetCommandResult(c) /\ (Succeed(c) \/ \E code : Fail(c, code))
    BY <1>0, <2>1, <2>3, ReplyOrder, FailOrder DEF GetCommandResult
  <2>4. QED
    BY <1>7, <2>2, <2>3 DEF AwaitCopy
<1>8. CASE OpenDest(c)
  <2>1. /\ hostEnd[c] = "open" /\ pc'[c] = "file"
        /\ UNCHANGED <<req, guestEnd, toHost, hostEnd>>
    BY <1>2, <1>8, HostFields DEF OpenDest, Goto
  <2>2. QED
    BY <1>0, <2>1, GoOrder
<1>9. CASE ReceiveBlock(c)
  <2>1. /\ pc[c] = "data" /\ ~Upload(c) /\ hostEnd[c] = "open"
        /\ UNCHANGED <<req, guestEnd, toGuest>>
        /\ guestEnd[c] \notin {"deaf", "closed"} \/ UNCHANGED toHost
    BY <1>0, <1>2, <1>9 DEF ReceiveBlock, Order, EndsWithRefusal
  <2>2. CASE Succeed(c) \/ \E code : Fail(c, code)
    BY <1>0, <2>1, <2>2, FailOrder
  <2>3. CASE Goto(c, "data")
    <3>1. guestEnd[c] \notin {"deaf", "closed"}
      BY <1>0, <2>1 DEF Order, EndsWithRefusal
    <3>2. hostEnd' = hostEnd
      BY <2>3 DEF Goto
    <3>3. QED
      BY <1>0, <2>1, <3>1, <3>2, GoOrder
  <2>4. QED
    BY <1>9, <2>2, <2>3 DEF ReceiveBlock
<1>10. CASE ReceiveDone(c)
  BY <1>0, <1>10, FailOrder DEF ReceiveDone
<1>11. QED
  BY <1>0, <1>1, <1>3, <1>4, <1>5, <1>6, <1>7, <1>8, <1>9, <1>10 DEF HostStep

LEMMA NextOrder ==
  ASSUME Inv, Deliveries, Orderly, [Next]_vars, Reliable
  PROVE  Orderly'
<1>1. CASE Serve
  BY <1>1, ServeOrder
<1>2. ASSUME NEW c \in Calls, Host(c)
      PROVE  Orderly'
  <2>1. ASSUME NEW e \in Calls, e # c
        PROVE  Order(e)'
    BY <1>2, <2>1, HostUntouched, SameOrder
       DEF Orderly, Host, serverVars, fileSystem
  <2>2. QED
    BY <1>2, <2>1, HostOrder DEF Orderly
<1>3. CASE UNCHANGED <<socketVars, hostVars, client, fileSystem>>
           /\ (client = NoClient \/ UNCHANGED phase)
  <2>1. ASSUME NEW e \in Calls
        PROVE  Order(e)'
    BY <1>3, <2>1, SameOrder, NoneAssumption
       DEF Orderly, socketVars, hostVars, fileSystem
  <2>2. QED
    BY <2>1 DEF Orderly
<1>4. phase = "down" => client = NoClient
  BY DEF Inv, SessionInv, OneSession
<1>5. ~Crash /\ (\A c \in Calls : ~Kill(c)) /\ (\A p \in FilePaths : ~Truncate(p))
  BY DEF Reliable, Crash, Kill, Truncate, Inv, TypeOK, ServerTypeOK
<1>6. QED
  BY <1>1, <1>2, <1>3, <1>4, <1>5
     DEF Next, Environment, Quiet, Restart, Start, vars, serverVars

LEMMA InitOrder ==
  ASSUME Init
  PROVE  Orderly
  BY DEF Init, SocketInit, ServerInit, HostInit, Orderly, Order,
         EndsWithRefusal, NothingLeft, Reading, HasOwner, Written

\* Where nothing from outside interferes, only a refusal (the catch blocks of
\* command-proc.cpp) or the end of the process ends a session its caller is
\* in, an upload returns when the daemon is done with all it was sent, and
\* the file it writes has an owner from the open of recv_file on.
THEOREM OrderlyAlways ==
  ASSUME Reliable
  PROVE  Spec => []Orderly
<1>1. Init => Inv /\ Deliveries /\ Orderly
  BY InvInit, InitDelivery, InitOrder
<1>2. Inv /\ Deliveries /\ Orderly /\ [Next]_vars =>
        (Inv /\ Deliveries /\ Orderly)'
  BY InvNext, NextDelivery, NextOrder DEF Reliable
<1>3. QED
  BY <1>1, <1>2, PTL DEF Spec

-----------------------------------------------------------------------------
(* The step of CopyService that a step of the two programs is.             *)

\* A step that touches no file but the one in flux, and no result.
LEMMA NoServiceStep ==
  ASSUME UNCHANGED <<req, ret, hostFile>>,
         \A p \in FilePaths : Writing(p)' = Writing(p),
         \A p \in FilePaths : ~Writing(p) =>
           guestFile'[p] = guestFile[p] /\ guestOwner'[p] = guestOwner[p],
         (phase' = "recv") = (phase = "recv"),
         phase = "recv" => client' = client
  PROVE  UNCHANGED Service!vars
<1>1. ServiceJob' = ServiceJob
  BY DEF ServiceJob, JobOf, IsDirectory
<1>2. ServiceFile' = ServiceFile /\ ServiceOwner' = ServiceOwner
  BY DEF ServiceFile, ServiceOwner
<1>3. ServiceWriter' = ServiceWriter
  BY DEF ServiceWriter
<1>4. ServiceDelivered' = ServiceDelivered
  BY DEF ServiceDelivered, Upload
<1>5. QED
  BY <1>1, <1>2, <1>3, <1>4 DEF Service!vars

\* What a call asks the service for.
LEMMA JobFacts ==
  ASSUME Inv, NEW c \in Calls
  PROVE  /\ ServiceJob[c] = JobOf(c, req[c])
         /\ ServiceJob[c].op = req[c].op
         /\ ServiceJob[c].path = Dest(c) /\ Dest(c) \in FilePaths
         /\ ServiceJob[c].content = Source(c)
         /\ RightTarget(c) => target \in ServiceJob[c].owners
         /\ \A uid \in Uids : (KnownUser(c) => uid = WantedUid(c)) =>
              uid \in ServiceJob[c].owners
  BY DestIsFile
     DEF ServiceJob, JobOf, Dest, Source, RightTarget, KnownUser, WantedUid, Inv,
         TypeOK, ServerTypeOK

\* The daemon stops to write, or starts.
LEMMA WriteStep ==
  ASSUME Inv, NEW c \in Calls, path = Dest(c), path' = path,
         UNCHANGED <<req, ret, hostFile>>,
         \A p \in FilePaths : p # path =>
           guestFile'[p] = guestFile[p] /\ guestOwner'[p] = guestOwner[p]
  PROVE  /\ UNCHANGED <<ServiceJob, ServiceDelivered>>
         /\ phase' = "recv" =>
              /\ ServiceFile' = [ServiceFile EXCEPT ![Dest(c)] = InFlux]
              /\ ServiceOwner' = [ServiceOwner EXCEPT ![Dest(c)] = InFlux]
         /\ phase' # "recv" =>
              /\ ServiceFile' = [ServiceFile EXCEPT ![Dest(c)] = guestFile'[path]]
              /\ ServiceOwner' =
                   [ServiceOwner EXCEPT ![Dest(c)] = guestOwner'[path]]
<1>1. ServiceJob' = ServiceJob
  BY DEF ServiceJob, JobOf, IsDirectory
<1>2. ServiceDelivered' = ServiceDelivered
  BY DEF ServiceDelivered, Upload
<1>3. phase' = "recv" =>
        /\ ServiceFile' = [ServiceFile EXCEPT ![Dest(c)] = InFlux]
        /\ ServiceOwner' = [ServiceOwner EXCEPT ![Dest(c)] = InFlux]
  BY DEF ServiceFile, ServiceOwner, Writing
<1>4. phase' # "recv" =>
        /\ ServiceFile' = [ServiceFile EXCEPT ![Dest(c)] = guestFile'[path]]
        /\ ServiceOwner' = [ServiceOwner EXCEPT ![Dest(c)] = guestOwner'[path]]
  BY DEF ServiceFile, ServiceOwner, Writing
<1>5. QED
  BY <1>1, <1>2, <1>3, <1>4

\* While recv_file is at work, so is the upload of its client.
LEMMA Busy ==
  ASSUME Inv, Orderly, NEW c \in Calls, client = c,
         phase \in {"COPY_FILE_TO_GUEST", "recv"}
  PROVE  /\ Upload(c) /\ path = Dest(c) /\ path \in FilePaths
         /\ hostEnd[c] = "open" /\ guestEnd[c] = "open"
         /\ pc[c] = "data" /\ ret[c] = "none" /\ toHost[c] = <<>>
<1>1. PICK s \in Stages(c) : In(c, s) /\ Prepared(c, s)
  BY AtWork
<1>2. s = "copy"
  BY <1>1 DEF In, CommandOf, Stages
<1>3. Upload(c) /\ path = Dest(c) /\ path \in FilePaths
  BY <1>1, <1>2, DestIsFile DEF Stages, Prepared, Inv
<1>4. hostEnd[c] = "open" /\ guestEnd[c] = "open" /\ Talk(c)
  BY <1>3, BusyIsOpen, AtWork
<1>5. pc[c] = "data" /\ ret[c] = "none"
  BY <1>1, <1>2, <1>4 DEF Prepared, Talk, Ends
<1>6. toHost[c] = <<>>
  BY <1>3, <1>4, <1>5, EngineWaits DEF Waiting, Pending
<1>7. QED
  BY <1>3, <1>4, <1>5, <1>6

\* recv_file opens the file: the upload starts to write.
LEMMA OpenStep ==
  ASSUME Inv, Orderly, NEW c \in Calls, client = c, client' = c,
         CopyFileToGuest, phase' = "recv", UNCHANGED hostVars
  PROVE  Service!Open(c)
<1>1. /\ phase = "COPY_FILE_TO_GUEST" /\ phase # "recv" /\ path' = path
      /\ \A p \in FilePaths : p # path =>
           guestFile'[p] = guestFile[p] /\ guestOwner'[p] = guestOwner[p]
  BY DEF CopyFileToGuest, fileSystem, Inv, TypeOK, ServerTypeOK
<1>2. Upload(c) /\ path = Dest(c) /\ ret[c] = "none"
  BY <1>1, Busy
<1>3. /\ ServiceJob[c].op = "upload" /\ ServiceJob[c].path = Dest(c)
  BY <1>2, JobFacts DEF Upload
<1>4. ServiceWriter = NoClient /\ ServiceWriter' = c
  BY <1>1 DEF ServiceWriter
<1>5. /\ UNCHANGED <<ServiceJob, ServiceDelivered>>
      /\ ServiceFile' = [ServiceFile EXCEPT ![Dest(c)] = InFlux]
      /\ ServiceOwner' = [ServiceOwner EXCEPT ![Dest(c)] = InFlux]
  BY <1>1, <1>2, WriteStep DEF hostVars
<1>6. QED
  BY <1>2, <1>3, <1>4, <1>5 DEF Service!Open, Service!Put, hostVars

\* recv_file fails in the middle of the file.
LEMMA TearStep ==
  ASSUME Inv, Orderly, NEW c \in Calls, client = c, phase = "recv",
         phase' # "recv", remains > 0, path' = path,
         UNCHANGED <<hostVars, fileSystem>>
  PROVE  Service!Tear(c)
<1>1. Upload(c) /\ path = Dest(c) /\ path \in FilePaths
  BY Busy
<1>2. In(c, "copy")
  BY AtWork, LoopOfRequest
<1>3. PICK n \in Nat : n = req[c].size - remains /\ n \in 0..req[c].size - 1
  <2>1. remains \in Nat /\ req[c].size \in Nat /\ remains <= req[c].size
    BY <1>2, Sizes DEF In, Inv, TypeOK, ServerTypeOK
  <2>2. QED
    BY <2>1
<1>4. Len(Source(c)) = req[c].size
  BY HostFields, RequestsAssumption DEF Source, Blocks
<1>5. guestFile[path] = SubSeq(Source(c), 1, n)
  BY <1>3, TalkStores DEF StoresSource
<1>6. guestOwner[path] \in Uids
  BY <1>1 DEF Orderly, Order, HasOwner, Written, Inv, TypeOK, ServerTypeOK
<1>7. /\ UNCHANGED <<ServiceJob, ServiceDelivered>>
      /\ ServiceFile' = [ServiceFile EXCEPT ![Dest(c)] = guestFile[path]]
      /\ ServiceOwner' = [ServiceOwner EXCEPT ![Dest(c)] = guestOwner[path]]
  BY <1>1, WriteStep DEF hostVars, fileSystem
<1>8. ServiceWriter = c /\ ServiceWriter' = NoClient
  BY DEF ServiceWriter
<1>9. /\ ServiceJob[c].path = Dest(c) /\ ServiceJob[c].content = Source(c)
  BY JobFacts
<1>10. Service!Put(c, SubSeq(ServiceJob[c].content, 1, n), guestOwner[path])
  BY <1>5, <1>7, <1>9 DEF Service!Put, hostVars
<1>11. n \in 0..Len(ServiceJob[c].content) - 1
  BY <1>3, <1>4, <1>9
<1>12. QED
  BY <1>6, <1>8, <1>10, <1>11 DEF Service!Tear

\* recv_file is done: the whole file, and its owner.
LEMMA CommitStep ==
  ASSUME Inv, Orderly, NEW c \in Calls, client = c, phase = "recv",
         phase' # "recv", remains = 0, path' = path,
         guestOwner' = [guestOwner EXCEPT ![path] = target],
         UNCHANGED <<hostVars, guestFile>>
  PROVE  Service!Commit(c)
<1>1. /\ Upload(c) /\ path = Dest(c) /\ path \in FilePaths
      /\ guestFile[path] = Source(c) /\ RightTarget(c)
  BY Busy, FileIsSource
<1>2. guestOwner'[path] = target
      /\ \A p \in FilePaths : p # path => guestOwner'[p] = guestOwner[p]
  BY <1>1 DEF Inv, TypeOK, ServerTypeOK
<1>3. /\ UNCHANGED <<ServiceJob, ServiceDelivered>>
      /\ ServiceFile' = [ServiceFile EXCEPT ![Dest(c)] = Source(c)]
      /\ ServiceOwner' = [ServiceOwner EXCEPT ![Dest(c)] = target]
  BY <1>1, <1>2, WriteStep DEF hostVars
<1>4. ServiceWriter = c /\ ServiceWriter' = NoClient
  BY DEF ServiceWriter
<1>5. /\ ServiceJob[c].path = Dest(c) /\ ServiceJob[c].content = Source(c)
      /\ target \in ServiceJob[c].owners
  BY <1>1, JobFacts
<1>6. Service!Put(c, ServiceJob[c].content, target)
  BY <1>3, <1>5 DEF Service!Put, hostVars
<1>7. QED
  BY <1>4, <1>5, <1>6 DEF Service!Commit

\* A step of recv_file.
LEMMA WritingStep ==
  ASSUME Inv, Orderly, NEW c \in Calls, client = c, UNCHANGED hostVars,
         RecvBlock \/ RecvDone, Reliable
  PROVE  Service!Write(c) \/ UNCHANGED Service!vars
<1>1. /\ phase = "recv" /\ hostEnd[c] = "open" /\ path' = path
  BY Busy DEF RecvBlock, RecvDone
<1>2. ASSUME RecvBlock, SendError("FILETRANSFER_ERROR"), UNCHANGED guestFile,
             remains > 0
      PROVE  Service!Tear(c)
  <2>1. phase' # "recv"
    BY <1>2 DEF SendError, Send, ProcessEnds
  <2>2. UNCHANGED fileSystem
    BY <1>2 DEF RecvBlock, fileSystem
  <2>3. QED
    BY <1>1, <1>2, <2>1, <2>2, TearStep
<1>3. ASSUME RecvBlock, phase' = "recv", client' = c
      PROVE  UNCHANGED Service!vars
  <2>1. guestOwner' = guestOwner
        /\ \A p \in FilePaths : p # path => guestFile'[p] = guestFile[p]
    BY <1>3 DEF RecvBlock, Inv, TypeOK, ServerTypeOK
  <2>2. QED
    BY <1>1, <1>3, <2>1, NoServiceStep DEF Writing, hostVars
<1>4. ASSUME RecvDone
      PROVE  Service!Commit(c)
  <2>1. phase' # "recv"
    BY <1>4 DEF RecvDone, SendOk, Send, ProcessEnds
  <2>2. guestOwner' = [guestOwner EXCEPT ![path] = target]
    BY <1>4 DEF RecvDone, Reliable
  <2>3. QED
    BY <1>1, <1>4, <2>1, <2>2, CommitStep DEF RecvDone
<1>5. QED
  BY <1>1, <1>2, <1>3, <1>4 DEF RecvBlock, Service!Write

\* Whatever else the daemon does, the files and who writes them stay.
LEMMA QuietStep ==
  ASSUME UNCHANGED <<hostVars, fileSystem>>, phase # "recv", phase' # "recv"
  PROVE  UNCHANGED Service!vars
  BY NoServiceStep DEF hostVars, fileSystem, Writing

LEMMA ServeStep ==
  ASSUME Inv, Orderly, Serve, Reliable
  PROVE  Service!Next \/ UNCHANGED Service!vars
<1> USE DEF Serve
<1>1. ASSUME NEW tokens, NEW end, NEW next, next # "recv", Send(tokens, end, next)
      PROVE  phase' # "recv"
  BY <1>1 DEF Send, ProcessEnds
<1>2. CASE RecvBlock \/ RecvDone
  <2>1. client \in Calls
    BY <1>2, ClientAtWork DEF RecvBlock, RecvDone
  <2>2. QED
    BY <1>2, <2>1, WritingStep DEF Service!Next
<1>3. CASE CopyFileToGuest
  <2>1. client \in Calls /\ phase # "recv"
    BY <1>3, ClientAtWork DEF CopyFileToGuest, HandledCommands
  <2>2. CASE phase' = "recv" /\ UNCHANGED client
    BY <1>3, <2>1, <2>2, OpenStep DEF Service!Next
  <2>3. CASE SendError("FILETRANSFER_ERROR") /\ UNCHANGED fileSystem
    BY <1>1, <2>1, <2>3, QuietStep DEF SendError
  <2>4. QED
    BY <1>3, <2>2, <2>3 DEF CopyFileToGuest
<1>4. CASE UNCHANGED fileSystem /\ phase # "recv" /\ phase' # "recv"
  BY <1>4, QuietStep
<1>5. CASE SetUser \/ SetRemotePath \/ SetFileName
  BY <1>1, <1>4, <1>5 DEF SetUser, SetRemotePath, SetFileName, SendOk, SendError
<1>6. CASE CopyFileFromGuest \/ SendBlock \/ SendDone
  BY <1>1, <1>4, <1>6 DEF CopyFileFromGuest, SendBlock, SendDone, SendError
<1>7. CASE Accept \/ AcceptFails \/ Close \/ RecvCommand \/ RecvLength
  BY <1>4, <1>7
     DEF Accept, AcceptFails, ProcessEnds, Close, RecvCommand, RecvLength,
         HandledCommands
<1>8. QED
  BY <1>2, <1>3, <1>5, <1>6, <1>7 DEF ServerStep

\* A call does not return while recv_file writes its file.
LEMMA NotWriting ==
  ASSUME Inv, Orderly, Reliable, NEW c \in Calls, Host(c),
         NEW result \in {"TRUE", "FALSE"}, Returns(c, result)
  PROVE  ServiceWriter # c
<1>1. SUFFICES ASSUME phase = "recv", client = c
               PROVE  FALSE
  BY NoneAssumption DEF ServiceWriter
<1>2. /\ Upload(c) /\ pc[c] = "data" /\ guestEnd[c] = "open" /\ toHost[c] = <<>>
  BY <1>1, Busy
<1>3. TransmitBlock(c) \/ AwaitCopy(c)
  BY <1>2 DEF Host, HostStep, Connect, SendUser, AwaitUser, SendPath, AwaitPath,
       SendName, AwaitName, OpenSource, OpenDest, SendGet, AwaitFile,
       ReceiveBlock, ReceiveDone
<1>4. ~AwaitCopy(c)
  BY <1>2 DEF AwaitCopy, GetCommandResult, NoCommandResult, HostEndOfStream,
       HostRecvFails
<1>5. UNCHANGED ret
  BY <1>2, <1>3, <1>4
     DEF TransmitBlock, SendData, SendMayFail, Goto, Reliable
<1>6. QED
  BY <1>5 DEF Returns

\* A step of the engine leaves the files of the guest alone, and what other
\* calls have brought.
LEMMA HostSame ==
  ASSUME Inv, NEW c \in Calls, Host(c)
  PROVE  /\ UNCHANGED <<ServiceJob, ServiceFile, ServiceOwner, ServiceWriter>>
         /\ ret[c] = "none" /\ req' = req
         /\ \A e \in Calls : e # c =>
              /\ ret'[e] = ret[e]
              /\ ServiceDelivered'[e] = ServiceDelivered[e]
<1>1. UNCHANGED serverVars /\ UNCHANGED req
  BY DEF Host, HostStep, Connect, SendUser, AwaitUser, SendPath, AwaitPath,
         SendName, AwaitName, OpenSource, TransmitBlock, AwaitCopy, OpenDest,
         SendGet, AwaitFile, ReceiveBlock, ReceiveDone
<1>2. UNCHANGED <<ServiceJob, ServiceFile, ServiceOwner, ServiceWriter>>
  BY <1>1 DEF ServiceJob, JobOf, IsDirectory, ServiceFile, ServiceOwner,
       ServiceWriter, Writing, serverVars, fileSystem
<1>3. pc[c] # "returned"
  BY DEF Host, HostStep, Connect, SendUser, AwaitUser, SendPath, AwaitPath,
         SendName, AwaitName, OpenSource, TransmitBlock, AwaitCopy, OpenDest,
         SendGet, AwaitFile, ReceiveBlock, ReceiveDone
<1>4. ret[c] = "none"
  BY <1>3 DEF Inv, Conversation, Talk, Ends
<1>5. ASSUME NEW e \in Calls, e # c
      PROVE  /\ ret'[e] = ret[e]
             /\ ServiceDelivered'[e] = ServiceDelivered[e]
  BY <1>1, <1>5, HostUntouched, HostUntouchedFiles DEF ServiceDelivered, Upload
<1>6. QED
  BY <1>1, <1>2, <1>4, <1>5

\* An upload returns TRUE.
LEMMA UploadStep ==
  ASSUME Inv, Deliveries, Orderly, Reliable, NEW c \in Calls, Host(c),
         Returns(c, "TRUE"), Upload(c)
  PROVE  /\ ServiceFile[Dest(c)] = Source(c)
         /\ ServiceOwner[Dest(c)] \in ServiceJob[c].owners
<1>1. AwaitCopy(c)
  BY HostFields
     DEF Host, HostStep, Returns, Connect, SendUser, AwaitUser, SendPath,
         AwaitPath, SendName, AwaitName, OpenSource, TransmitBlock, OpenDest,
         SendGet, AwaitFile, ReceiveBlock, ReceiveDone, SendData, AwaitReply,
         NoCommandResult, Fail, Return, Goto
<1>2. GetCommandResult(c) /\ ReplyResult(c) = "OK"
  BY <1>1, HostFields DEF AwaitCopy, NoCommandResult, Fail, Return, Returns
<1>3. /\ Talk(c) /\ Waiting(c) /\ Current(c) = "copy" /\ hostEnd[c] = "open"
      /\ pc[c] = "data" /\ Len(toHost[c]) >= 2 /\ toHost[c] # <<>>
  BY <1>1, <1>2, HostFields
     DEF AwaitCopy, GetCommandResult, Inv, Conversation, Talk, Ends, Waiting,
         Current
<1>4. guestEnd[c] \notin {"deaf", "closed"}
  BY <1>2, <1>3, ReplyOrder
<1>5. guestEnd[c] = "open" /\ phase = "command" /\ Stored(c)
  BY <1>3, <1>4 DEF Talk, HostSide, Pending, Answered, Delivering, Over
<1>6. guestFile[Dest(c)] = Source(c)
      /\ (KnownUser(c) => guestOwner[Dest(c)] = WantedUid(c))
  BY <1>5 DEF Stored, Reliable
<1>7. guestOwner[Dest(c)] \in Uids
  BY <1>3, <1>5, DestIsFile
     DEF Orderly, Order, HasOwner, Written, Inv, TypeOK, ServerTypeOK
<1>8. ServiceFile[Dest(c)] = guestFile[Dest(c)]
      /\ ServiceOwner[Dest(c)] = guestOwner[Dest(c)]
  BY <1>5, JobFacts DEF ServiceFile, ServiceOwner, Writing
<1>9. QED
  BY <1>6, <1>7, <1>8, JobFacts

\* A download returns TRUE.
LEMMA DownloadStep ==
  ASSUME Inv, Deliveries, Orderly, Reliable, NEW c \in Calls, Host(c),
         Returns(c, "TRUE"), ~Upload(c)
  PROVE  /\ ServiceFile[Dest(c)] # InFlux
         /\ hostFile'[c] = ServiceFile[Dest(c)]
<1>1. ReceiveBlock(c) \/ ReceiveDone(c)
  BY HostFields
     DEF Host, HostStep, Returns, Connect, SendUser, AwaitUser, SendPath,
         AwaitPath, SendName, AwaitName, OpenSource, TransmitBlock, AwaitCopy,
         OpenDest, SendGet, AwaitFile, SendData, AwaitReply,
         NoCommandResult, Fail, Return, Goto
<1>2. pc[c] = "data" /\ hostEnd[c] = "open" /\ Talk(c)
  BY <1>1 DEF ReceiveBlock, ReceiveDone, Inv, Conversation, Talk, Ends
<1>3. guestEnd[c] = "open"
  BY <1>2 DEF Talk, Ends, Deliveries, Download, Orderly, Order,
       EndsWithRefusal, Inv, SessionInv, SocketTypeOK
<1>4. UnderWay(c) /\ hostFile'[c] = guestFile[req[c].rpath]
  BY <1>3, ReturnsFaithful
<1>5. phase # "recv"
  BY <1>4 DEF Deliveries, Download
<1>6. ~IsDirectory(req[c].rpath)
  BY HostFields, RequestsAssumption DEF Upload, Reliable
<1>7. Dest(c) = req[c].rpath /\ Dest(c) \in FilePaths
  BY <1>6, DestIsFile DEF Dest, Inv
<1>8. ServiceFile[Dest(c)] = guestFile[Dest(c)]
  BY <1>5, <1>7 DEF ServiceFile, Writing
<1>9. guestFile[Dest(c)] \in Seq(BlockTokens)
  BY <1>7 DEF Inv, TypeOK, ServerTypeOK
<1>10. QED
  BY <1>4, <1>7, <1>8, <1>9, FluxAssumption

LEMMA HostStepOfService ==
  ASSUME Inv, Deliveries, Orderly, Reliable, NEW c \in Calls, Host(c)
  PROVE  Service!Next \/ UNCHANGED Service!vars
<1>1. ret'[c] \in {"none", "TRUE", "FALSE"} /\ HostTypeOK'
  <2>1. HostTypeOK'
    BY HostTypes
  <2>2. ret'[c] # "killed"
    BY HostSame, HostFields
       DEF Host, HostStep, Connect, SendUser, AwaitUser, SendPath, AwaitPath,
           SendName, AwaitName, OpenSource, TransmitBlock, AwaitCopy, OpenDest,
           SendGet, AwaitFile, ReceiveBlock, ReceiveDone, SendData, AwaitReply,
           NoCommandResult, Succeed, Fail, Return, Goto
  <2>3. QED
    BY <2>1, <2>2 DEF HostTypeOK
<1>2. CASE ret'[c] = "none"
  <2>1. ret' = ret
    BY <1>1, <1>2, HostSame, HostFields DEF HostTypeOK
  <2>2. ServiceDelivered'[c] = ServiceDelivered[c]
    BY <1>2, HostSame DEF ServiceDelivered
  <2>3. ServiceDelivered' = ServiceDelivered
    BY <2>2, HostSame DEF ServiceDelivered
  <2>4. QED
    BY <2>1, <2>3, HostSame DEF Service!vars
<1>3. CASE ret'[c] = "FALSE"
  <2>1. ret' = [ret EXCEPT ![c] = "FALSE"]
    BY <1>1, <1>3, HostSame, HostFields DEF HostTypeOK
  <2>2. ServiceDelivered'[c] = ServiceDelivered[c]
    BY <1>3, HostSame DEF ServiceDelivered
  <2>3. ServiceDelivered' = ServiceDelivered
    BY <2>2, HostSame DEF ServiceDelivered
  <2>4. ServiceWriter # c
    BY <1>3, HostSame, NotWriting DEF Returns
  <2>5. Service!ReturnFalse(c)
    BY <2>1, <2>3, <2>4, HostSame DEF Service!ReturnFalse
  <2>6. QED
    BY <2>5 DEF Service!Next, Service!Return
<1>4. CASE ret'[c] = "TRUE"
  <2>1. /\ ret' = [ret EXCEPT ![c] = "TRUE"]
        /\ Returns(c, "TRUE")
    BY <1>1, <1>4, HostSame, HostFields DEF HostTypeOK, Returns
  <2>2. ServiceWriter # c
    BY <2>1, NotWriting
  <2>3. ServiceJob[c].op = req[c].op /\ ServiceJob[c].path = Dest(c)
        /\ ServiceJob[c].content = Source(c) /\ Upload(c)' = Upload(c)
    BY JobFacts, HostSame DEF Upload
  <2>4. CASE Upload(c)
    <3>1. ServiceDelivered' = ServiceDelivered
      BY <2>3, <2>4, HostSame DEF ServiceDelivered
    <3>2. Service!ReturnTrue(c)
      BY <2>1, <2>2, <2>3, <2>4, <3>1, UploadStep, HostSame
         DEF Service!ReturnTrue, Upload
    <3>3. QED
      BY <3>2 DEF Service!Next, Service!Return
  <2>5. CASE ~Upload(c)
    <3>1. ServiceDelivered'[c] = ServiceFile[Dest(c)] /\ ServiceFile[Dest(c)] # InFlux
      BY <1>4, <2>1, <2>3, <2>5, DownloadStep DEF ServiceDelivered
    <3>2. ServiceDelivered' = [ServiceDelivered EXCEPT ![c] = ServiceFile[Dest(c)]]
      BY <3>1, HostSame DEF ServiceDelivered
    <3>3. Service!ReturnTrue(c)
      BY <2>1, <2>2, <2>3, <2>5, <3>1, <3>2, HostSame
         DEF Service!ReturnTrue, Upload
    <3>4. QED
      BY <3>3 DEF Service!Next, Service!Return
  <2>6. QED
    BY <2>4, <2>5
<1>5. QED
  BY <1>1, <1>2, <1>3, <1>4

LEMMA NextStep ==
  ASSUME Inv, Deliveries, Orderly, Reliable, [Next]_vars
  PROVE  [Service!Next]_(Service!vars)
<1>1. CASE Serve
  BY <1>1, ServeStep
<1>2. ASSUME NEW c \in Calls, Host(c)
      PROVE  [Service!Next]_(Service!vars)
  BY <1>2, HostStepOfService
<1>3. CASE UNCHANGED <<hostVars, fileSystem>>
           /\ (UNCHANGED <<phase, path, client>> \/ (phase # "recv" /\ phase' # "recv"))
  BY <1>3, NoServiceStep, QuietStep DEF hostVars, fileSystem, Writing
<1>4. ~Crash /\ (\A c \in Calls : ~Kill(c)) /\ (\A p \in FilePaths : ~Truncate(p))
  BY DEF Reliable, Crash, Kill, Truncate, Inv, TypeOK, ServerTypeOK
<1>5. QED
  BY <1>1, <1>2, <1>3, <1>4
     DEF Next, Environment, Quiet, Restart, Start, vars, serverVars

LEMMA InitStep ==
  ASSUME Init
  PROVE  Service!Init
<1>1. TypeOK
  BY InitTypes
<1>2. ServiceJob \in [Calls -> {JobOf(c, r) : c \in Calls, r \in Requests}]
  BY <1>1 DEF ServiceJob, TypeOK, HostTypeOK
<1>3. ASSUME NEW p \in FilePaths
      PROVE  ServiceFile[p] # InFlux /\ ServiceOwner[p] # InFlux
  <2>1. phase # "recv"
    BY DEF Init, ServerInit
  <2>2. guestFile[p] \in Seq(BlockTokens) /\ guestOwner[p] \in Uids \cup {NoFile}
    BY <1>1 DEF TypeOK, ServerTypeOK
  <2>3. QED
    BY <2>1, <2>2, FluxAssumption DEF ServiceFile, ServiceOwner, Writing
<1>4. /\ ServiceWriter = NoClient /\ ret = [c \in Calls |-> "none"]
      /\ ServiceDelivered = [c \in Calls |-> <<>>]
  BY DEF Init, ServerInit, HostInit, ServiceWriter, ServiceDelivered
<1>5. QED
  BY <1>2, <1>3, <1>4 DEF Service!Init

\* The two programs implement CopyService: recv_file holds one file in flux
\* for one upload, and leaves the whole of it under its owner or a part;
\* CopyFileToGuest returns TRUE only for the former, CopyFileFromGuest only
\* with a whole version, and neither while recv_file is at work for it.
THEOREM ServiceStepsAlways ==
  ASSUME Reliable
  PROVE  Spec => ServiceSteps
<1>1. Init => Inv /\ Deliveries /\ Orderly
  BY InvInit, InitDelivery, InitOrder
<1>2. Inv /\ Deliveries /\ Orderly /\ [Next]_vars =>
        (Inv /\ Deliveries /\ Orderly)'
  BY InvNext, NextDelivery, NextOrder DEF Reliable
<1>3. Inv /\ Deliveries /\ Orderly /\ [Next]_vars =>
        [Service!Next]_(Service!vars)
  BY NextStep
<1>4. Init => Service!Init
  BY InitStep
<1>5. QED
  BY <1>1, <1>2, <1>3, <1>4, PTL DEF Spec, ServiceSteps, Service!Steps
=============================================================================
