------------------------- MODULE TransferLoopsProofs -------------------------
(***************************************************************************)
(* The byte counts of TransferLoops, for every size of a file and whatever *)
(* the limits of the calls that move it.  One inductive invariant ties the *)
(* counters of a loop to the stream: LoopsInv.                             *)
(***************************************************************************)
EXTENDS TransferLoops, TLAPS

\* The TransmitFile loop between two calls, and inside one.
UploadSender ==
  op = "upload" =>
    /\ sender \in {"loop", "call"} => unsent + offset = size /\ pos = sent
    /\ sender = "loop" => pos = offset /\ (unsent = 0 => size = 0)
    /\ sender = "call" =>
         /\ toWrite \leq unsent
         /\ toWrite = 0 => size = 0 /\ pos + inCall = size
         /\ toWrite > 0 => pos + inCall = offset + toWrite

\* The loop of send_file.
DownloadSender ==
  op = "download" =>
    /\ sender # "call"
    /\ sender = "loop" => unsent + pos = size /\ pos = sent

Stream ==
  /\ sender # "failed" => sent \leq size
  /\ stored \leq sent /\ stored + missing = size

ReceiverDone ==
  receiver = "done" => missing = 0 \/ (op = "download" /\ SenderGone)

LoopsInv ==
  /\ TypeOK /\ sender # "refused"
  /\ UploadSender /\ DownloadSender /\ Stream /\ ReceiverDone

-----------------------------------------------------------------------------
\* No chunk is cut by its conversion to a DWORD (hvcp-internal.cpp:265).
LEMMA ChunkLemma ==
  ASSUME NEW a \in Nat, a \leq TransmitLimit
  PROVE  a % DwordSize = a
  BY LoopsAssumption, SMT

LEMMA ChunkIs == ASSUME TypeOK PROVE Chunk = Least(unsent, TransmitLimit)
<1>1. unsent \in Nat /\ TransmitLimit \in Nat
  BY LoopsAssumption DEF TypeOK
<1>2. Least(unsent, TransmitLimit) \in Nat
      /\ Least(unsent, TransmitLimit) \leq TransmitLimit
  BY <1>1 DEF Least
<1>3. QED BY <1>2, ChunkLemma DEF Chunk

LEMMA LoopsInvInit == Init => LoopsInv
  BY LoopsAssumption
  DEF Init, LoopsInv, TypeOK, UploadSender, DownloadSender, Stream, ReceiverDone

\* Every step keeps the invariant, one case per action.
LEMMA LoopsInvNext == LoopsInv /\ [Next]_vars => LoopsInv'
<1> SUFFICES ASSUME LoopsInv, [Next]_vars PROVE LoopsInv'
  OBVIOUS
<1> USE LoopsAssumption
<1> USE DEF LoopsInv, TypeOK, UploadSender, DownloadSender, Stream,
            ReceiverDone, source, senderVars, SenderGone, ReceiverGone
<1>1. CASE CallTransmitFile
  <2>1. Chunk = Least(unsent, TransmitLimit)
    BY ChunkIs
  <2>2. /\ Chunk \in Nat /\ Chunk \leq TransmitLimit /\ Chunk \leq unsent
        /\ Chunk = 0 => unsent = 0
    BY <2>1 DEF Least
  <2> HIDE DEF Least
  <2>3. QED BY <1>1, <2>2 DEF CallTransmitFile
<1>2. CASE TransmitSome
  <2>1. PICK n \in Sendable(inCall) :
          inCall' = inCall - n /\ pos' = pos + n /\ sent' = sent + n
    BY <1>2 DEF TransmitSome
  <2>2. n \in Nat /\ n \leq inCall
    BY <2>1 DEF Sendable, Least, InStream
  <2>3. QED BY <1>2, <2>1, <2>2 DEF TransmitSome
<1>3. CASE TransmitFileReturns
  BY <1>3 DEF TransmitFileReturns, Seek
<1>4. CASE TransmitFileFails
  BY <1>4 DEF TransmitFileFails
<1>5. CASE SendfileSome
  <2>1. CASE unsent = 0 /\ UNCHANGED <<unsent, pos, sent>>
    BY <1>5, <2>1 DEF SendfileSome
  <2>2. ASSUME NEW n \in Sendable(Least(ToWrite, length - pos)),
               unsent' = unsent - n, pos' = pos + n, sent' = sent + n
        PROVE  LoopsInv'
    <3>1. n \in Nat /\ n \leq unsent
      BY <2>2 DEF Sendable, Least, InStream, ToWrite
    <3>2. QED BY <1>5, <2>2, <3>1 DEF SendfileSome
  <2>3. QED BY <1>5, <2>1, <2>2 DEF SendfileSome
<1>6. CASE SendfileNothing
  BY <1>6 DEF SendfileNothing, vars
<1>7. CASE SendfileFails
  BY <1>7 DEF SendfileFails
<1>8. ASSUME NEW n \in 1..Least(Asked, InStream), Take(n),
             UNCHANGED <<source, senderVars>>
      PROVE  LoopsInv'
  <2>1. n \in Nat /\ n \leq missing /\ stored + n \leq sent
    BY <1>8 DEF Least, Asked, InStream
  <2>2. QED BY <1>8, <2>1 DEF Take
<1>9. CASE RecvFile
  BY <1>8, <1>9 DEF RecvFile, Stop, RecvNothing
<1>10. CASE ReceiveLoop
  BY <1>8, <1>10 DEF ReceiveLoop, Stop
<1>11. CASE RecvFails
  BY <1>11 DEF RecvFails, Stop
<1>12. CASE SenderDies
  BY <1>12 DEF SenderDies
<1>13. CASE ReceiverDies
  BY <1>13 DEF ReceiverDies, Stop
<1>14. CASE Resize
  BY <1>14 DEF Resize
<1>15. CASE UNCHANGED vars
  BY <1>15 DEF vars
<1>16. QED
  BY <1>1, <1>2, <1>3, <1>4, <1>5, <1>6, <1>7, <1>9, <1>10, <1>11, <1>12,
     <1>13, <1>14, <1>15 DEF Next, Sending, Receiving, Over

LEMMA LoopsInvAlways == Spec => []LoopsInv
  BY LoopsInvInit, LoopsInvNext, PTL DEF Spec

-----------------------------------------------------------------------------
\* No counter of the four loops goes below zero, so the unsigned remains of
\* the daemon never wraps around.
THEOREM LoopsTypeOKAlways == Spec => []TypeOK
  BY LoopsInvAlways, PTL DEF LoopsInv

\* Nothing of a file is sent twice or left out, wherever the limits cut it.
THEOREM InOrderAlways == Spec => []InOrder
<1>1. LoopsInv => InOrder
  BY DEF LoopsInv, TypeOK, UploadSender, DownloadSender, InOrder
<1>2. QED BY <1>1, LoopsInvAlways, PTL

\* TransmitFile gets chunks that it accepts, of a file of any size.
THEOREM ChunkFitsAlways == Spec => []ChunkFits
<1>1. LoopsInv => ChunkFits
  BY DEF LoopsInv, TypeOK, UploadSender, DownloadSender, ChunkFits
<1>2. QED BY <1>1, LoopsInvAlways, PTL

\* The announced size is never exceeded.
THEOREM NotTooManyAlways == Spec => []NotTooMany
<1>1. LoopsInv => NotTooMany
  BY DEF LoopsInv, Stream, NotTooMany
<1>2. QED BY <1>1, LoopsInvAlways, PTL

\* A receiving loop that ends has the file, or lost its sender.
THEOREM WholeFileAlways == Spec => []WholeFile
<1>1. LoopsInv => WholeFile
  BY DEF LoopsInv, TypeOK, Stream, ReceiverDone, WholeFile
<1>2. QED BY <1>1, LoopsInvAlways, PTL
=============================================================================
