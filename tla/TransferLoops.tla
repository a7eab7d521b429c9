---------------------------- MODULE TransferLoops ----------------------------
(***************************************************************************)
(* The four loops that move a file, as they count bytes: TransmitFile of   *)
(* the engine against recv_file of the daemon for an upload, send_file     *)
(* against the receiving loop of the engine for a download.  HvcpSystem    *)
(* moves whole blocks; here every call moves what its limits, the other    *)
(* side and the stream allow.  A byte is its position in the file.         *)
(***************************************************************************)
EXTENDS Integers

CONSTANTS
  Sizes,          \* sizes of files
  TransmitLimit,  \* transmitfile_limit, the most TransmitFile accepts
  SendfileLimit,  \* sendfile_limit, the most one sendfile64 moves
  DwordSize,      \* one more than the largest DWORD
  BlockSize,      \* TRANSMIT_BLOCK_SZ
  Room,           \* bytes the stream holds before the sender blocks
  ReplySize,      \* bytes of a reply
  Faults

LoopFaults == {"hostread", "readerror", "diskfull", "hostio", "reset",
               "senderdies", "receiverdies", "resize"}

ASSUME LoopsAssumption ==
  /\ Sizes \subseteq Nat
  /\ {TransmitLimit, SendfileLimit, BlockSize, Room, ReplySize}
       \subseteq Nat \ {0}
  /\ DwordSize \in Nat /\ TransmitLimit < DwordSize
  /\ Faults \subseteq LoopFaults

VARIABLES
  op, size,         \* the direction, and the size that was announced
  length,           \* the length of the source now
  sender, receiver, \* the two loops
  unsent,           \* remains of the sending loop
  pos,              \* where the source is read next: file pointer, or ofs
  offset, toWrite,  \* locals of the TransmitFile loop
  inCall,           \* what a TransmitFile under way has still to send
  sent,             \* how many bytes went into the stream
  stored,           \* how many bytes were taken out of it and written
  missing           \* remains, remaining of the receiving loop

source     == <<op, size, length>>
senderVars == <<sender, unsent, pos, offset, toWrite, inCall, sent>>
vars       == <<source, senderVars, receiver, stored, missing>>

Init ==
  /\ op \in {"upload", "download"} /\ size \in Sizes /\ length = size
  /\ sender = "loop" /\ receiver = "loop"
  /\ unsent = size /\ pos = 0 /\ offset = 0 /\ toWrite = 0 /\ inCall = 0
  /\ sent = 0 /\ stored = 0 /\ missing = size

Least(a, b) == IF a < b THEN a ELSE b

InStream     == sent - stored
SenderGone   == sender \in {"failed", "gone"}
ReceiverGone == receiver \in {"failed", "gone"}

\* How many bytes one call of the sender may move, asked for at most n.
Sendable(n) == 1..Least(n, Room - InStream)

-----------------------------------------------------------------------------
(* CopyFileToGuestInternal: the loop around TransmitFile                   *)

ChunkUnbounded == unsent % DwordSize   \* mutant
Chunk == Least(unsent, TransmitLimit) % DwordSize

\* A call for 0 bytes is one for the rest of the file.
CallTransmitFile ==
  /\ op = "upload" /\ sender = "loop"
  /\ toWrite' = Chunk
  /\ inCall' = IF Chunk = 0 THEN size - pos ELSE Chunk
  /\ sender' = IF Chunk > TransmitLimit THEN "refused" ELSE "call"
  /\ UNCHANGED <<source, unsent, pos, offset, sent, receiver, stored, missing>>

TransmitSome ==
  /\ sender = "call" /\ ~ReceiverGone
  /\ \E n \in Sendable(inCall) :
       /\ inCall' = inCall - n /\ pos' = pos + n /\ sent' = sent + n
  /\ UNCHANGED <<source, sender, unsent, offset, toWrite, receiver, stored, missing>>

\* Mutant: the file pointer is left to TransmitFile, which may not move it.
SeekNot(p) == pos' \in {offset, pos}
Seek(p)    == pos' = p

\* TransmitFile returned TRUE: the pointer is set to where the next chunk
\* begins.
TransmitFileReturns ==
  /\ sender = "call" /\ inCall = 0
  /\ unsent' = unsent - toWrite
  /\ offset' = offset + toWrite
  /\ Seek(offset + toWrite)
  /\ sender' = IF unsent' > 0 THEN "loop" ELSE "done"
  /\ UNCHANGED <<source, toWrite, inCall, sent, receiver, stored, missing>>

\* It returned FALSE: the engine disconnects.
TransmitFileFails ==
  /\ sender = "call" /\ ("hostread" \in Faults \/ ReceiverGone)
  /\ sender' = "failed"
  /\ UNCHANGED <<source, unsent, pos, offset, toWrite, inCall, sent, receiver,
                 stored, missing>>

-----------------------------------------------------------------------------
(* send_file                                                               *)

ToWriteLimit == SendfileLimit   \* mutant: the limit alone
ToWrite == Least(unsent, SendfileLimit)

\* An iteration; sendfile64 advances ofs by what it returns.
SendfileSome ==
  /\ op = "download" /\ sender = "loop" /\ ~ReceiverGone
  /\ \/ \E n \in Sendable(Least(ToWrite, length - pos)) :
          /\ unsent' = unsent - n /\ pos' = pos + n /\ sent' = sent + n
     \/ unsent = 0 /\ UNCHANGED <<unsent, pos, sent>>
  /\ sender' = IF unsent' > 0 THEN "loop" ELSE "done"
  /\ UNCHANGED <<source, offset, toWrite, inCall, receiver, stored, missing>>

\* At the end of a file that got shorter it returns 0, and the loop goes on.
SendfileNothing ==
  /\ op = "download" /\ sender = "loop" /\ unsent > 0 /\ pos >= length
  /\ UNCHANGED vars

\* It returned -1: the reply that reports this goes into the stream.
SendfileFails ==
  /\ op = "download" /\ sender = "loop"
  /\ "readerror" \in Faults \/ ReceiverGone
  /\ sender' = "failed"
  /\ sent' = IF ReceiverGone THEN sent ELSE sent + ReplySize
  /\ UNCHANGED <<source, unsent, pos, offset, toWrite, inCall, receiver, stored,
                 missing>>

-----------------------------------------------------------------------------
(* recv_file, and the receiving loop of CopyFileFromGuestInternal          *)

AskedBlock == BlockSize   \* mutant: the buffer, whatever remains
Asked == Least(BlockSize, missing)

TakeUncounted(n) ==   \* mutant
  /\ stored' = stored + n /\ missing' = missing
  /\ receiver' = IF missing' > 0 THEN "loop" ELSE "done"
Take(n) ==
  /\ stored' = stored + n /\ missing' = missing - n
  /\ receiver' = IF missing' > 0 THEN "loop" ELSE "done"

Stop(how) == receiver' = how /\ UNCHANGED <<stored, missing>>

RecvFails ==
  /\ receiver = "loop" /\ SenderGone /\ "reset" \in Faults
  /\ Stop("failed")
  /\ UNCHANGED <<source, senderVars>>

\* recv_file takes a recv of 0 for nothing at all.
RecvNothingBreaks == Stop("done")   \* mutant: as the engine's loop does
RecvNothing == Stop("loop")

RecvFile ==
  /\ op = "upload" /\ receiver = "loop"
  /\ \/ \E n \in 1..Least(Asked, InStream) :
          Take(n) \/ ("diskfull" \in Faults /\ Stop("failed"))
     \/ missing = 0 /\ Stop("done")
     \/ missing > 0 /\ SenderGone /\ InStream = 0 /\ RecvNothing
  /\ UNCHANGED <<source, senderVars>>

\* A recv of 0 breaks out of the loop, and the call returns TRUE.
ReceiveLoop ==
  /\ op = "download" /\ receiver = "loop"
  /\ \/ \E n \in 1..Least(Asked, InStream) :
          Take(n) \/ ("hostio" \in Faults /\ Stop("failed"))
     \/ missing = 0 /\ Stop("done")
     \/ missing > 0 /\ SenderGone /\ InStream = 0 /\ Stop("done")
  /\ UNCHANGED <<source, senderVars>>

-----------------------------------------------------------------------------
(* From outside: the death of a process, after which the last bytes it     *)
(* sent may be lost, and a guest file that somebody else changes.          *)

SenderDies ==
  /\ "senderdies" \in Faults /\ sender \in {"loop", "call", "done"}
  /\ sender' = "gone"
  /\ sent' \in stored..sent
  /\ UNCHANGED <<source, unsent, pos, offset, toWrite, inCall, receiver, stored,
                 missing>>

ReceiverDies ==
  /\ "receiverdies" \in Faults /\ receiver = "loop"
  /\ Stop("gone")
  /\ UNCHANGED <<source, senderVars>>

Resize ==
  /\ "resize" \in Faults /\ op = "download"
  /\ length' \in Sizes
  /\ UNCHANGED <<op, size, senderVars, receiver, stored, missing>>

Sending ==
  \/ CallTransmitFile \/ TransmitSome \/ TransmitFileReturns \/ TransmitFileFails
  \/ SendfileSome \/ SendfileNothing \/ SendfileFails
Receiving == RecvFile \/ ReceiveLoop \/ RecvFails

Over ==
  /\ sender \notin {"loop", "call"} /\ receiver # "loop"
  /\ UNCHANGED vars

Next == Sending \/ Receiving \/ SenderDies \/ ReceiverDies \/ Resize \/ Over

\* Both loops run; nothing from outside has to happen.
Spec == Init /\ [][Next]_vars /\ WF_vars(Sending) /\ WF_vars(Receiving)

-----------------------------------------------------------------------------
TypeOK ==
  /\ op \in {"upload", "download"} /\ {size, length, unsent} \subseteq Nat
  /\ sender \in {"loop", "call", "done", "failed", "refused", "gone"}
  /\ receiver \in {"loop", "done", "failed", "gone"}
  /\ {pos, offset, toWrite, inCall, sent, stored, missing} \subseteq Nat

\* What a sending loop reads next is the byte that goes into the stream next:
\* whatever limits cut the file into chunks, and wherever TransmitFile leaves
\* the file pointer, nothing is sent twice and nothing is left out.
InOrder == sender \in {"loop", "call"} => pos = sent

\* TransmitFile is never asked for more than it accepts, nor for 0 bytes,
\* which would mean the rest of the file, unless the file is empty.
ChunkFits == sender # "refused" /\ (sender = "call" /\ toWrite = 0 => size = 0)

\* No byte of a file goes into the stream after those that were announced:
\* the daemon would take it for a command, the engine for a reply.
NotTooMany == sender # "failed" => sent <= size

\* A receiving loop that ended without an error has the whole file, unless it
\* is a download whose connection ended or whose daemon failed.
WholeFile ==
  receiver = "done" => stored = size \/ (op = "download" /\ SenderGone)

\* Both loops end, unless an upload has lost its sender or the file of a
\* download stays too short: there recv_file and send_file go on for ever.
Starved == \/ op = "upload" /\ SenderGone
           \/ op = "download" /\ length < size
LoopsEnd == <>[]~Starved => <>(sender \notin {"loop", "call"} /\ receiver # "loop")
=============================================================================
