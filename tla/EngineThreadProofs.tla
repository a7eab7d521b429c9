--------------------------- MODULE EngineThreadProofs --------------------------
(***************************************************************************)
(* What one thread holds, returns and reports over any number of calls,    *)
(* for any set of error numbers, however the steps of each call go.        *)
(***************************************************************************)
EXTENDS EngineThread, SequenceTheorems, TLAPS

FileStep == IF op = "upload" THEN 13 ELSE 11

\* What a call holds at its step at.
Holding ==
  {r \in Resources :
     \/ r = "wsa" /\ at > 1
     \/ r = "socket" /\ at > 2
     \/ r = "operation" /\ at \in {4, 5}
     \/ r = "query" /\ at = 5
     \/ r = "document" /\ at = 6
     \/ r = "file" /\ at > FileStep /\ first = NoFailure}

\* A call under way: it holds just that, errcode is what it was, and only a
\* download goes on after a failure.
UnderWay ==
  op # "none" =>
    /\ at \in 1..Len(Steps(op)) /\ result = "none" /\ errcode = before
    /\ \A r \in Resources : held[r] = IF r \in Holding THEN 1 ELSE 0
    /\ first # NoFailure =>
         op = "download" /\ at > 11 /\ first \in Failures(op) /\ DestCreate(first)

ThreadInv == TypeOK /\ Released /\ CodeOfFailure /\ DetailsOfFailure /\ UnderWay

-----------------------------------------------------------------------------
(* The steps                                                               *)

UploadSteps ==
  <<"SetUserName", "SetRemotePath", "SetFileName", "CreateFile", "send",
    "TransmitFile", "GetCommandResult">>
DownloadSteps ==
  <<"SetRemotePath", "CreateFile", "CopyFileFromGuest", "recv", "WriteFile">>

StepNames ==
  {"WSAStartup", "socket", "HcsCreateOperation", "HcsEnumerateComputeSystems",
   "HcsWaitForOperationResult", "parse", "Id", "CLSIDFromString", "connect",
   "SetUserName", "SetRemotePath", "SetFileName", "CreateFile", "send",
   "TransmitFile", "GetCommandResult", "CopyFileFromGuest", "recv", "WriteFile"}

\* Where each step of a call stands.
LEMMA ConnectPlaces ==
  /\ ConnectSteps \in Seq(StepNames) /\ Len(ConnectSteps) = 9
  /\ ConnectSteps[1] = "WSAStartup" /\ ConnectSteps[2] = "socket"
  /\ ConnectSteps[3] = "HcsCreateOperation"
  /\ ConnectSteps[4] = "HcsEnumerateComputeSystems"
  /\ ConnectSteps[5] = "HcsWaitForOperationResult"
  /\ ConnectSteps[6] = "parse" /\ ConnectSteps[7] = "Id"
  /\ ConnectSteps[8] = "CLSIDFromString" /\ ConnectSteps[9] = "connect"
BY DEF ConnectSteps, StepNames

LEMMA UploadPlaces ==
  /\ Len(Steps("upload")) = 16
  /\ \A k \in 1..9 : Steps("upload")[k] = ConnectSteps[k]
  /\ Steps("upload")[10] = "SetUserName" /\ Steps("upload")[11] = "SetRemotePath"
  /\ Steps("upload")[12] = "SetFileName" /\ Steps("upload")[13] = "CreateFile"
  /\ Steps("upload")[14] = "send" /\ Steps("upload")[15] = "TransmitFile"
  /\ Steps("upload")[16] = "GetCommandResult"
<1>1. UploadSteps \in Seq(StepNames) /\ Len(UploadSteps) = 7
  BY DEF UploadSteps, StepNames
<1>2. Steps("upload") = ConnectSteps \o UploadSteps
  BY DEF Steps, UploadSteps
<1>3. /\ Len(ConnectSteps \o UploadSteps) = 16
      /\ \A k \in 1..9 : (ConnectSteps \o UploadSteps)[k] = ConnectSteps[k]
      /\ \A k \in 10..16 : (ConnectSteps \o UploadSteps)[k] = UploadSteps[k - 9]
  <2>1. ConnectSteps \in Seq(StepNames) /\ Len(ConnectSteps) = 9
    BY ConnectPlaces
  <2>2. /\ Len(ConnectSteps \o UploadSteps) = Len(ConnectSteps) + Len(UploadSteps)
        /\ \A k \in 1..Len(ConnectSteps) + Len(UploadSteps) : (ConnectSteps \o UploadSteps)[k] =
             IF k <= Len(ConnectSteps) THEN ConnectSteps[k]
                                       ELSE UploadSteps[k - Len(ConnectSteps)]
    BY <1>1, <2>1, ConcatProperties
  <2>3. Len(ConnectSteps) + Len(UploadSteps) = 16
    BY <1>1, <2>1
  <2> DEFINE all == ConnectSteps \o UploadSteps
  <2>4. \A k \in 1..16 : all[k] = IF k <= 9 THEN ConnectSteps[k] ELSE UploadSteps[k - 9]
    BY <2>1, <2>2, <2>3
  <2>5. Len(all) = 16
    BY <2>2, <2>3
  <2> HIDE DEF all
  <2>6. /\ \A k \in 1..9 : all[k] = ConnectSteps[k]
        /\ \A k \in 10..16 : all[k] = UploadSteps[k - 9]
    BY <2>4
  <2> QED BY <2>5, <2>6 DEF all
<1>4. /\ UploadSteps[1] = "SetUserName" /\ UploadSteps[2] = "SetRemotePath"
      /\ UploadSteps[3] = "SetFileName" /\ UploadSteps[4] = "CreateFile"
      /\ UploadSteps[5] = "send" /\ UploadSteps[6] = "TransmitFile"
      /\ UploadSteps[7] = "GetCommandResult"
  BY DEF UploadSteps
<1>5. Len(Steps("upload")) = 16 /\ \A k \in 1..9 : Steps("upload")[k] = ConnectSteps[k]
  BY <1>2, <1>3
<1>6. Steps("upload")[10] = UploadSteps[1]
  <2>1. 10 \in 10..16 /\ 10 - 9 = 1
    OBVIOUS
  <2> QED BY <1>2, <1>3, <2>1, Zenon
<1>7. Steps("upload")[11] = UploadSteps[2]
  <2>1. 11 \in 10..16 /\ 11 - 9 = 2
    OBVIOUS
  <2> QED BY <1>2, <1>3, <2>1, Zenon
<1>8. Steps("upload")[12] = UploadSteps[3]
  <2>1. 12 \in 10..16 /\ 12 - 9 = 3
    OBVIOUS
  <2> QED BY <1>2, <1>3, <2>1, Zenon
<1>9. Steps("upload")[13] = UploadSteps[4]
  <2>1. 13 \in 10..16 /\ 13 - 9 = 4
    OBVIOUS
  <2> QED BY <1>2, <1>3, <2>1, Zenon
<1>10. Steps("upload")[14] = UploadSteps[5]
  <2>1. 14 \in 10..16 /\ 14 - 9 = 5
    OBVIOUS
  <2> QED BY <1>2, <1>3, <2>1, Zenon
<1>11. Steps("upload")[15] = UploadSteps[6]
  <2>1. 15 \in 10..16 /\ 15 - 9 = 6
    OBVIOUS
  <2> QED BY <1>2, <1>3, <2>1, Zenon
<1>12. Steps("upload")[16] = UploadSteps[7]
  <2>1. 16 \in 10..16 /\ 16 - 9 = 7
    OBVIOUS
  <2> QED BY <1>2, <1>3, <2>1, Zenon
<1> QED BY <1>4, <1>5, <1>6, <1>7, <1>8, <1>9, <1>10, <1>11, <1>12


LEMMA DownloadPlaces ==
  /\ Len(Steps("download")) = 14
  /\ \A k \in 1..9 : Steps("download")[k] = ConnectSteps[k]
  /\ Steps("download")[10] = "SetRemotePath" /\ Steps("download")[11] = "CreateFile"
  /\ Steps("download")[12] = "CopyFileFromGuest" /\ Steps("download")[13] = "recv"
  /\ Steps("download")[14] = "WriteFile"
<1>1. DownloadSteps \in Seq(StepNames) /\ Len(DownloadSteps) = 5
  BY DEF DownloadSteps, StepNames
<1>2. Steps("download") = ConnectSteps \o DownloadSteps
  BY DEF Steps, DownloadSteps
<1>3. /\ Len(ConnectSteps \o DownloadSteps) = 14
      /\ \A k \in 1..9 : (ConnectSteps \o DownloadSteps)[k] = ConnectSteps[k]
      /\ \A k \in 10..14 : (ConnectSteps \o DownloadSteps)[k] = DownloadSteps[k - 9]
  <2>1. ConnectSteps \in Seq(StepNames) /\ Len(ConnectSteps) = 9
    BY ConnectPlaces
  <2>2. /\ Len(ConnectSteps \o DownloadSteps) = Len(ConnectSteps) + Len(DownloadSteps)
        /\ \A k \in 1..Len(ConnectSteps) + Len(DownloadSteps) : (ConnectSteps \o DownloadSteps)[k] =
             IF k <= Len(ConnectSteps) THEN ConnectSteps[k]
                                       ELSE DownloadSteps[k - Len(ConnectSteps)]
    BY <1>1, <2>1, ConcatProperties
  <2>3. Len(ConnectSteps) + Len(DownloadSteps) = 14
    BY <1>1, <2>1
  <2> QED BY <2>1, <2>2, <2>3
<1>4. /\ DownloadSteps[1] = "SetRemotePath" /\ DownloadSteps[2] = "CreateFile"
      /\ DownloadSteps[3] = "CopyFileFromGuest" /\ DownloadSteps[4] = "recv"
      /\ DownloadSteps[5] = "WriteFile"
  BY DEF DownloadSteps
<1>5. Len(Steps("download")) = 14 /\ \A k \in 1..9 : Steps("download")[k] = ConnectSteps[k]
  BY <1>2, <1>3
<1>6. Steps("download")[10] = DownloadSteps[1]
  <2>1. 10 \in 10..14 /\ 10 - 9 = 1
    OBVIOUS
  <2> QED BY <1>2, <1>3, <2>1, Zenon
<1>7. Steps("download")[11] = DownloadSteps[2]
  <2>1. 11 \in 10..14 /\ 11 - 9 = 2
    OBVIOUS
  <2> QED BY <1>2, <1>3, <2>1, Zenon
<1>8. Steps("download")[12] = DownloadSteps[3]
  <2>1. 12 \in 10..14 /\ 12 - 9 = 3
    OBVIOUS
  <2> QED BY <1>2, <1>3, <2>1, Zenon
<1>9. Steps("download")[13] = DownloadSteps[4]
  <2>1. 13 \in 10..14 /\ 13 - 9 = 4
    OBVIOUS
  <2> QED BY <1>2, <1>3, <2>1, Zenon
<1>10. Steps("download")[14] = DownloadSteps[5]
  <2>1. 14 \in 10..14 /\ 14 - 9 = 5
    OBVIOUS
  <2> QED BY <1>2, <1>3, <2>1, Zenon
<1> QED BY <1>4, <1>5, <1>6, <1>7, <1>8, <1>9, <1>10

\* The step a call is at.
LEMMA StepIs ==
  ASSUME op \in {"upload", "download"}, at \in 1..Len(Steps(op))
  PROVE  /\ Len(Steps(op)) = IF op = "upload" THEN 16 ELSE 14
         /\ at \in 1..Len(Steps(op))
         /\ at = 1 => Step = "WSAStartup"
         /\ at = 2 => Step = "socket"
         /\ at = 3 => Step = "HcsCreateOperation"
         /\ at = 4 => Step = "HcsEnumerateComputeSystems"
         /\ at = 5 => Step = "HcsWaitForOperationResult"
         /\ at = 6 => Step = "parse"
         /\ at = 7 => Step = "Id"
         /\ at = 8 => Step = "CLSIDFromString"
         /\ at = 9 => Step = "connect"
         /\ at > 9 => at = 10 \/ at = 11 \/ at = 12 \/ at = 13 \/ at = 14
                      \/ (op = "upload" /\ (at = 15 \/ at = 16))
         /\ op = "upload" =>
              /\ at = 10 => Step = "SetUserName"
              /\ at = 11 => Step = "SetRemotePath"
              /\ at = 12 => Step = "SetFileName"
              /\ at = 13 => Step = "CreateFile"
              /\ at = 14 => Step = "send"
              /\ at = 15 => Step = "TransmitFile"
              /\ at = 16 => Step = "GetCommandResult"
         /\ op = "download" =>
              /\ at = 10 => Step = "SetRemotePath"
              /\ at = 11 => Step = "CreateFile"
              /\ at = 12 => Step = "CopyFileFromGuest"
              /\ at = 13 => Step = "recv"
              /\ at = 14 => Step = "WriteFile"
<1>1. CASE op = "upload"
  <2>1. Len(Steps(op)) = 16 /\ at \in 1..16
    BY <1>1, UploadPlaces
  <2>2. \A k \in 1..9 : Steps(op)[k] = ConnectSteps[k]
    BY <1>1, UploadPlaces
  <2>3. /\ Steps(op)[1] = "WSAStartup"
        /\ Steps(op)[2] = "socket"
        /\ Steps(op)[3] = "HcsCreateOperation"
        /\ Steps(op)[4] = "HcsEnumerateComputeSystems"
        /\ Steps(op)[5] = "HcsWaitForOperationResult"
        /\ Steps(op)[6] = "parse"
        /\ Steps(op)[7] = "Id"
        /\ Steps(op)[8] = "CLSIDFromString"
        /\ Steps(op)[9] = "connect"
    BY <2>2, ConnectPlaces
  <2>4. at > 9 => at = 10 \/ at = 11 \/ at = 12 \/ at = 13 \/ at = 14 \/ at = 15 \/ at = 16
    BY <2>1
  <2> QED BY <1>1, <2>1, <2>3, <2>4, UploadPlaces DEF Step
<1>2. CASE op = "download"
  <2>1. Len(Steps(op)) = 14 /\ at \in 1..14
    BY <1>2, DownloadPlaces
  <2>2. \A k \in 1..9 : Steps(op)[k] = ConnectSteps[k]
    BY <1>2, DownloadPlaces
  <2>3. /\ Steps(op)[1] = "WSAStartup"
        /\ Steps(op)[2] = "socket"
        /\ Steps(op)[3] = "HcsCreateOperation"
        /\ Steps(op)[4] = "HcsEnumerateComputeSystems"
        /\ Steps(op)[5] = "HcsWaitForOperationResult"
        /\ Steps(op)[6] = "parse"
        /\ Steps(op)[7] = "Id"
        /\ Steps(op)[8] = "CLSIDFromString"
        /\ Steps(op)[9] = "connect"
    BY <2>2, ConnectPlaces
  <2>4. at > 9 => at = 10 \/ at = 11 \/ at = 12 \/ at = 13 \/ at = 14
    BY <2>1
  <2> QED BY <1>2, <2>1, <2>3, <2>4, DownloadPlaces DEF Step
<1> QED BY <1>1, <1>2

\* The rows of Table.
LEMMA Rows ==
  /\ Table("WSAStartup") = Uses({}, {"wsa"}, {})
  /\ Table("socket") = Uses({}, {"socket"}, {})
  /\ Table("HcsCreateOperation") = Uses({}, {"operation"}, {})
  /\ Table("HcsEnumerateComputeSystems") = Uses({"query"}, {}, {})
  /\ Table("HcsWaitForOperationResult") = Uses({}, {"document"}, {"query", "operation"})
  /\ Table("parse") = Uses({}, {}, {"document"})
  /\ Table("Id") = Uses({}, {}, {})
  /\ Table("CLSIDFromString") = Uses({"vmid"}, {}, {"vmid"})
  /\ Table("connect") = Uses({}, {}, {})
  /\ Table("SetUserName") = Uses({"user"}, {}, {"user"})
  /\ Table("SetRemotePath") = Uses({"path"}, {}, {"path"})
  /\ Table("SetFileName") = Uses({"name"}, {}, {"name"})
  /\ Table("CreateFile") = Uses({}, {"file"}, {})
  /\ Table("send") = Uses({}, {}, {})
  /\ Table("TransmitFile") = Uses({}, {}, {})
  /\ Table("GetCommandResult") = Uses({}, {}, {})
  /\ Table("CopyFileFromGuest") = Uses({}, {}, {})
  /\ Table("recv") = Uses({}, {}, {})
  /\ Table("WriteFile") = Uses({}, {}, {})
BY DEF Table

LEMMA Fields ==
  ASSUME NEW t, NEW g, NEW v
  PROVE  /\ Uses(t, g, v).takes = t /\ Uses(t, g, v).gains = g
         /\ Uses(t, g, v).gives = v
BY DEF Uses

Times(r, S) == IF r \in S THEN 1 ELSE 0

LEMMA HoldIs ==
  ASSUME NEW gained, NEW given, Hold(gained, given), NEW r \in Resources
  PROVE  held'[r] = held[r] + Times(r, Table(Step).takes) + Times(r, gained)
                      - Times(r, given)
BY DEF Hold, Times

\* The steps that give back what they take, and no more: the others are the
\* six at which a call comes by something it keeps, or gives up later.
LEMMA Idle ==
  ASSUME op \in {"upload", "download"}, at \in 1..Len(Steps(op)), at > 6, at # FileStep
  PROVE  /\ Table(Step).takes = Table(Step).gives /\ Table(Step).gains = {}
         /\ Table(Step).takes \in {{}, {"vmid"}, {"user"}, {"path"}, {"name"}}
         /\ Step \notin {"HcsEnumerateComputeSystems", "WSAStartup", "socket"}
<1>1. Step \in {"Id", "CLSIDFromString", "connect", "SetUserName", "SetRemotePath",
                "SetFileName", "send", "TransmitFile", "GetCommandResult",
                "CopyFileFromGuest", "recv", "WriteFile"}
  <2>1. at \in Nat /\ (at = 7 \/ at = 8 \/ at = 9 \/ at > 9)
    OBVIOUS
  <2>2. CASE op = "upload"
    BY <2>1, <2>2, StepIs DEF FileStep
  <2>3. CASE op = "download"
    BY <2>1, <2>3, StepIs DEF FileStep
  <2> QED BY <2>2, <2>3
<1> QED BY <1>1, Rows, Fields

\* What the next step holds.
LEMMA SucceedHolds ==
  ASSUME ThreadInv, Succeed, NEW r \in Resources
  PROVE  held'[r] = IF r \in Holding' THEN 1 ELSE 0
<1>1. /\ op \in {"upload", "download"} /\ at \in 1..Len(Steps(op)) /\ at \in Nat
      /\ at < Len(Steps(op)) /\ at' = at + 1 /\ op' = op /\ first' = first
      /\ held[r] = IF r \in Holding THEN 1 ELSE 0
      /\ first # NoFailure => op = "download" /\ at > 11
  BY DEF ThreadInv, TypeOK, UnderWay, Succeed
<1>2. held'[r] = held[r] + Times(r, Table(Step).takes) + Times(r, Table(Step).gains)
                   - Times(r, Table(Step).gives)
  BY HoldIs DEF Succeed
<1>3. CASE at = 1
  <2>1. Step = "WSAStartup"
    BY <1>1, <1>3, StepIs
  <2> QED BY <1>1, <1>2, <1>3, <2>1, Rows, Fields DEF Times, Holding, FileStep
<1>4. CASE at = 2
  <2>1. Step = "socket"
    BY <1>1, <1>4, StepIs
  <2> QED BY <1>1, <1>2, <1>4, <2>1, Rows, Fields DEF Times, Holding, FileStep
<1>5. CASE at = 3
  <2>1. Step = "HcsCreateOperation"
    BY <1>1, <1>5, StepIs
  <2> QED BY <1>1, <1>2, <1>5, <2>1, Rows, Fields DEF Times, Holding, FileStep
<1>6. CASE at = 4
  <2>1. Step = "HcsEnumerateComputeSystems"
    BY <1>1, <1>6, StepIs
  <2> QED BY <1>1, <1>2, <1>6, <2>1, Rows, Fields DEF Times, Holding, FileStep
<1>7. CASE at = 5
  <2>1. Step = "HcsWaitForOperationResult"
    BY <1>1, <1>7, StepIs
  <2>2. /\ Table(Step).takes = {} /\ Table(Step).gains = {"document"}
        /\ Table(Step).gives = {"query", "operation"}
    BY <2>1, Rows, Fields
  <2> QED BY <1>1, <1>2, <1>7, <2>2 DEF Times, Holding, FileStep
<1>8. CASE at = 6
  <2>1. Step = "parse"
    BY <1>1, <1>8, StepIs
  <2> QED BY <1>1, <1>2, <1>8, <2>1, Rows, Fields DEF Times, Holding, FileStep
<1>9. CASE at > 6 /\ at # FileStep
  <2>1. Table(Step).takes = Table(Step).gives /\ Table(Step).gains = {}
    BY <1>1, <1>9, Idle
  <2>2. held'[r] = held[r]
    BY <1>1, <1>2, <2>1 DEF Times
  <2>3. r \in Holding' <=> r \in Holding
    BY <1>1, <1>9 DEF Holding, FileStep
  <2> QED BY <1>1, <2>2, <2>3
<1>10. CASE at = FileStep
  <2>1. Step = "CreateFile" /\ first = NoFailure
    BY <1>1, <1>10, StepIs DEF FileStep
  <2>2. at > 6
    BY <1>10 DEF FileStep
  <2> QED BY <1>1, <1>2, <1>10, <2>1, <2>2, Rows, Fields DEF Times, Holding, FileStep
<1> QED BY <1>1, <1>3, <1>4, <1>5, <1>6, <1>7, <1>8, <1>9, <1>10

\* A call that ends, at whatever step, has given everything back but what it
\* gained with the failure.
LEMMA EndHolds ==
  ASSUME ThreadInv, op # "none", NEW g, Hold(g, AtEnd(Step)), NEW r \in Resources,
         g = {} \/ (g = {"document"} /\ at = 5)
  PROVE  held'[r] = IF r \in g THEN 1 ELSE 0
<1>1. /\ op \in {"upload", "download"} /\ at \in 1..Len(Steps(op)) /\ at \in Nat
      /\ held[r] = IF r \in Holding THEN 1 ELSE 0
      /\ "file" \in Resources /\ held["file"] = IF "file" \in Holding THEN 1 ELSE 0
      /\ first # NoFailure => op = "download" /\ at > 11
  BY DEF ThreadInv, TypeOK, UnderWay, Resources
<1>2. held'[r] = held[r] + Times(r, Table(Step).takes) + Times(r, g)
                   - Times(r, AtEnd(Step))
  BY HoldIs
<1>3. r \in AtEnd(Step) <=>
        \/ r \in Table(Step).gives \/ r \in Unwound(Step) \/ r \in Disconnected(Step)
        \/ r = "file" /\ "file" \in Holding
  BY <1>1 DEF AtEnd, FileOpen
<1>4. CASE at = 1
  <2>1. Step = "WSAStartup"
    BY <1>1, <1>4, StepIs
  <2> QED BY <1>1, <1>2, <1>3, <1>4, <2>1, Rows, Fields
          DEF Times, Holding, FileStep, Unwound, Disconnected
<1>5. CASE at = 2
  <2>1. Step = "socket"
    BY <1>1, <1>5, StepIs
  <2> QED BY <1>1, <1>2, <1>3, <1>5, <2>1, Rows, Fields
          DEF Times, Holding, FileStep, Unwound, Disconnected
<1>6. CASE at = 3
  <2>1. Step = "HcsCreateOperation"
    BY <1>1, <1>6, StepIs
  <2> QED BY <1>1, <1>2, <1>3, <1>6, <2>1, Rows, Fields
          DEF Times, Holding, FileStep, Unwound, Disconnected
<1>7. CASE at = 4
  <2>1. Step = "HcsEnumerateComputeSystems"
    BY <1>1, <1>7, StepIs
  <2> QED BY <1>1, <1>2, <1>3, <1>7, <2>1, Rows, Fields
          DEF Times, Holding, FileStep, Unwound, Disconnected
<1>8. CASE at = 5
  <2>1. Step = "HcsWaitForOperationResult"
    BY <1>1, <1>8, StepIs
  <2> QED BY <1>1, <1>2, <1>3, <1>8, <2>1, Rows, Fields
          DEF Times, Holding, FileStep, Unwound, Disconnected
<1>9. CASE at = 6
  <2>1. Step = "parse"
    BY <1>1, <1>9, StepIs
  <2> QED BY <1>1, <1>2, <1>3, <1>9, <2>1, Rows, Fields
          DEF Times, Holding, FileStep, Unwound, Disconnected
<1>10. CASE at > 6 /\ at # FileStep
  <2>1. /\ Table(Step).takes = Table(Step).gives
        /\ Table(Step).takes \in {{}, {"vmid"}, {"user"}, {"path"}, {"name"}}
        /\ Step \notin {"HcsEnumerateComputeSystems", "WSAStartup", "socket"}
    BY <1>1, <1>10, Idle
  <2>2. Unwound(Step) = {} /\ Disconnected(Step) = {"wsa", "socket"}
    BY <2>1 DEF Unwound, Disconnected
  <2>3. /\ g = {}
        /\ r \in Holding
             <=> r \in {"wsa", "socket"} \/ (r = "file" /\ "file" \in Holding)
    BY <1>1, <1>10 DEF Holding
  <2>4. CASE r \in Table(Step).takes
    <3>1. r \notin Holding
      BY <2>1, <2>3, <2>4
    <3> QED BY <1>1, <1>2, <1>3, <2>1, <2>3, <2>4, <3>1 DEF Times
  <2>5. CASE r \notin Table(Step).takes
    BY <1>1, <1>2, <1>3, <2>1, <2>2, <2>3, <2>5 DEF Times
  <2> QED BY <2>4, <2>5
<1>11. CASE at = FileStep
  <2>1. Step = "CreateFile" /\ at > 6
    BY <1>1, <1>11, StepIs DEF FileStep
  <2> QED BY <1>1, <1>2, <1>3, <1>11, <2>1, Rows, Fields
          DEF Times, Holding, FileStep, Unwound, Disconnected
<1> QED BY <1>1, <1>4, <1>5, <1>6, <1>7, <1>8, <1>9, <1>10, <1>11
-----------------------------------------------------------------------------
(* The failures                                                            *)

LEMMA GetVMIDNames ==
  GetVMIDSteps = {"HcsCreateOperation", "HcsEnumerateComputeSystems",
                  "HcsWaitForOperationResult", "parse", "Id", "CLSIDFromString"}
<1>1. \A i \in 3..8 : i = 3 \/ i = 4 \/ i = 5 \/ i = 6 \/ i = 7 \/ i = 8
  OBVIOUS
<1>2. 3 \in 3..8 /\ 4 \in 3..8 /\ 5 \in 3..8 /\ 6 \in 3..8 /\ 7 \in 3..8 /\ 8 \in 3..8
  OBVIOUS
<1>3. \A i \in 3..8 : ConnectSteps[i] \in
        {"HcsCreateOperation", "HcsEnumerateComputeSystems",
         "HcsWaitForOperationResult", "parse", "Id", "CLSIDFromString"}
  BY <1>1, ConnectPlaces
<1>4. \A s \in {"HcsCreateOperation", "HcsEnumerateComputeSystems",
         "HcsWaitForOperationResult", "parse", "Id", "CLSIDFromString"} :
        \E i \in 3..8 : ConnectSteps[i] = s
  BY <1>2, ConnectPlaces
<1> QED BY <1>3, <1>4 DEF GetVMIDSteps

\* The failures of a request.
LEMMA RequestFails ==
  ASSUME NEW s, NEW x, NEW f \in Request(s, x)
  PROVE  /\ f[1] = s
         /\ f[3] \in {"ERR_SEND_DATA", "ERR_GET_CMD_RESULT",
                      "ERR_GET_CMD_RESULT_INSUFFICIENT_DATA", x}
         /\ f[2] \in {"error", "send", "recv"}
              => f[3] \in {"ERR_SEND_DATA", "ERR_GET_CMD_RESULT"}
BY DEF Request, Answer

LEMMA AnswerFails ==
  ASSUME NEW s, NEW x, NEW f \in Answer(s, x)
  PROVE  f \in Request(s, x)
BY DEF Request

\* The failures that are not one of a request.
Others(o) ==
  {<<"WSAStartup", "error", "ERR_CONNECT_WSA_STARTUP">>,
   <<"socket", "error", "ERR_CONNECT_SOCKET">>,
   <<"HcsCreateOperation", "null", "kept">>,
   <<"HcsEnumerateComputeSystems", "hresult", "ERR_GETVMID_ENUM_SYSTEMS">>,
   <<"HcsWaitForOperationResult", "hresult", "ERR_GETVMID_HCS_RESULT">>,
   <<"parse", "json", "ERR_GETVMID_JSON_PARSE">>,
   <<"Id", "throws", "exception">>,
   <<"CLSIDFromString", "hresult", "ERR_GETVMID_CLSID">>,
   <<"connect", "error", "ERR_CONNECT_CONNECT">>,
   <<"CreateFile", "error", IF o = "upload"
                              THEN "ERR_COPY_FILE_TO_GUEST_SRC_OPEN"
                              ELSE "ERR_COPY_FILE_FROM_GUEST_DEST_CREATE">>,
   <<"send", "error", "ERR_COPY_FILE_TO_GUEST">>,
   <<"TransmitFile", "error", "ERR_COPY_FILE_TO_GUEST">>,
   <<"recv", "error", "ERR_COPY_FILE_FROM_GUEST">>,
   <<"WriteFile", "error", "ERR_COPY_FILE_FROM_GUEST_WRITE_FILE">>}

LEMMA OtherFails ==
  ASSUME NEW o \in {"upload", "download"}, NEW f \in Others(o)
  PROVE  /\ DestCreate(f) => o = "download" /\ f[1] = "CreateFile"
         /\ f[2] \in {"error", "send", "recv"} => f[3] # "kept"
BY DEF Others, DestCreate

\* Every failure is one of the two kinds.
LEMMA FailureKinds ==
  ASSUME NEW o \in {"upload", "download"}, NEW f \in Failures(o)
  PROVE  \/ f \in Others(o)
         \/ f \in Request("SetUserName", "kept")
         \/ f \in Request("SetRemotePath", "ERR_INALID_REMOETE_PATH")
         \/ f \in Request("SetFileName", "ERR_COPY_FILE_TO_GUEST")
         \/ f \in Request("CopyFileFromGuest", "ERR_COPY_FILE_FROM_GUEST")
         \/ f \in Answer("GetCommandResult", "ERR_COPY_FILE_TO_GUEST_SEND_FILE")
BY Zenon DEF Failures, Others

\* A failure has a code or is one of the two that have none; a destination
\* that cannot be created is one of a download; and the error of a step, or of
\* a request, has a code.
LEMMA FailureFacts ==
  ASSUME NEW o \in {"upload", "download"}, NEW f \in Failures(o)
  PROVE  /\ f[3] # "kept" => f[3] \in Codes
         /\ DestCreate(f) => o = "download" /\ f[1] = "CreateFile" /\ f[3] # "kept"
         /\ f[2] \in {"error", "send", "recv"} => f[3] # "kept"
         /\ f # NoFailure /\ f \in Failures("upload") \cup Failures("download")
<1>1. f # NoFailure /\ f \in Failures("upload") \cup Failures("download")
  BY ThreadAssumption
<1>2. f[3] # "kept" => f[3] \in Codes
  BY <1>1 DEF Codes
<1>3. ASSUME NEW s, NEW x, f \in Request(s, x),
             x # "ERR_COPY_FILE_FROM_GUEST_DEST_CREATE"
      PROVE  /\ ~DestCreate(f)
             /\ f[2] \in {"error", "send", "recv"} => f[3] # "kept"
  BY <1>3, RequestFails DEF DestCreate
<1>4. /\ DestCreate(f) => o = "download" /\ f[1] = "CreateFile"
      /\ f[2] \in {"error", "send", "recv"} => f[3] # "kept"
  BY <1>3, OtherFails, FailureKinds, AnswerFails
<1> QED BY <1>1, <1>2, <1>4 DEF DestCreate
-----------------------------------------------------------------------------
(* The invariant                                                           *)

LEMMA HeldType ==
  ASSUME NEW gained, NEW given, Hold(gained, given),
         \A r \in Resources : held'[r] \in {0, 1}
  PROVE  held' \in [Resources -> {0, 1}]
<1>1. held' = [r \in Resources |-> held'[r]]
  BY DEF Hold
<1> QED BY <1>1

LEMMA ThreadInit == Init => ThreadInv
<1> SUFFICES ASSUME Init PROVE ThreadInv
  OBVIOUS
<1>1. /\ op = "none" /\ at = 0 /\ held = Nothing /\ result = "none" /\ first = NoFailure
      /\ errcode = NoCode /\ before = NoCode /\ errdetails = NoError /\ osError = NoError
  BY DEF Init
<1>2. held \in [Resources -> {0, 1}] /\ \A r \in Resources : held[r] = 0
  BY <1>1 DEF Nothing
<1>3. TypeOK
  BY <1>1, <1>2 DEF TypeOK, AnyError
<1> QED BY <1>1, <1>2, <1>3
        DEF ThreadInv, Released, CodeOfFailure, DetailsOfFailure, UnderWay, Ended, Resources

\* The actions, one by one.
LEMMA CallKeeps ==
  ASSUME ThreadInv, NEW o \in {"upload", "download"}, Call(o)
  PROVE  ThreadInv'
<1>1. /\ op' = o /\ at' = 1 /\ result' = "none" /\ held' = Nothing
      /\ first' = NoFailure /\ osError' = NoError /\ before' = errcode
      /\ errcode' = errcode /\ errdetails' = errdetails
  BY DEF Call
<1>2. held' \in [Resources -> {0, 1}] /\ \A r \in Resources : held'[r] = 0
  BY <1>1 DEF Nothing
<1>3. TypeOK'
  BY <1>1, <1>2 DEF ThreadInv, TypeOK, AnyError
<1>4. 1 \in 1..Len(Steps(o))
  BY UploadPlaces, DownloadPlaces
<1>5. \A r \in Resources : r \notin Holding'
  BY <1>1 DEF Holding, FileStep
<1>6. UnderWay'
  BY <1>1, <1>2, <1>4, <1>5 DEF UnderWay
<1> QED BY <1>1, <1>2, <1>3, <1>6
        DEF ThreadInv, Released, CodeOfFailure, DetailsOfFailure, Ended, Resources

LEMMA SucceedKeeps == ThreadInv /\ Succeed => ThreadInv'
<1> SUFFICES ASSUME ThreadInv, Succeed PROVE ThreadInv'
  OBVIOUS
<1>1. /\ op \in {"upload", "download"} /\ at \in 1..Len(Steps(op)) /\ result = "none"
      /\ errcode = before /\ at < Len(Steps(op)) /\ at' = at + 1
      /\ UNCHANGED <<op, errcode, errdetails, result, first, osError, before>>
      /\ first # NoFailure =>
           op = "download" /\ at > 11 /\ first \in Failures(op) /\ DestCreate(first)
  BY DEF ThreadInv, TypeOK, UnderWay, Succeed
<1>2. \A r \in Resources : held'[r] = IF r \in Holding' THEN 1 ELSE 0
  BY SucceedHolds
<1>3. at' \in 1..Len(Steps(op')) /\ at' \in 0..16 /\ at' \in Nat /\ at' > at
  <2>1. Len(Steps(op)) \in 14..16
    BY <1>1, StepIs
  <2>2. \A n \in 14..16 : at \in 1..n /\ at < n =>
          at + 1 \in 1..n /\ at + 1 \in 0..16 /\ at + 1 \in Nat /\ at + 1 > at
    OBVIOUS
  <2> QED BY <1>1, <2>1, <2>2
<1>4. held' \in [Resources -> {0, 1}]
  BY <1>2, HeldType DEF Succeed
<1>5. TypeOK'
  BY <1>1, <1>3, <1>4 DEF ThreadInv, TypeOK
<1>6. UnderWay'
  <2>1. first' # NoFailure =>
          op' = "download" /\ at' > 11 /\ first' \in Failures(op') /\ DestCreate(first')
    BY <1>1, <1>3 DEF DestCreate
  <2> QED BY <1>1, <1>2, <1>3, <2>1 DEF UnderWay
<1>7. held'["socket"] <= held'["wsa"]
  BY <1>2, <1>3 DEF Holding, Resources
<1> QED BY <1>1, <1>5, <1>6, <1>7
        DEF ThreadInv, Released, CodeOfFailure, DetailsOfFailure, Ended

LEMMA CreateDestFailsKeeps ==
  ASSUME ThreadInv, op # "none", NEW f \in Failures(op), NEW e \in Errors,
         CreateDestFails(f, e)
  PROVE  ThreadInv'
<1>1. /\ op \in {"upload", "download"} /\ at \in 1..Len(Steps(op)) /\ result = "none"
      /\ errcode = before /\ at' = at + 1 /\ f[1] = Step /\ DestCreate(f)
      /\ first' = f /\ osError' = e
      /\ UNCHANGED <<op, held, errcode, errdetails, result, before>>
      /\ first # NoFailure => op = "download" /\ at > 11
      /\ \A r \in Resources : held[r] = IF r \in Holding THEN 1 ELSE 0
  BY DEF ThreadInv, TypeOK, UnderWay, CreateDestFails
<1>2. op = "download" /\ Step = "CreateFile" /\ f # NoFailure
  BY <1>1, FailureFacts
<1>3. at = 11 /\ Len(Steps(op)) = 14
  <2>1. /\ at = 1 \/ at = 2 \/ at = 3 \/ at = 4 \/ at = 5 \/ at = 6 \/ at = 7 \/ at = 8
           \/ at = 9 \/ at > 9
    BY <1>1
  <2> QED BY <1>1, <1>2, <2>1, StepIs
<1>4. TypeOK'
  BY <1>1, <1>2, <1>3 DEF ThreadInv, TypeOK, AnyError
<1>5. \A r \in Resources : r \in Holding' <=> r \in Holding
  BY <1>1, <1>2, <1>3 DEF Holding, FileStep
<1>6. UnderWay'
  <2>1. at' \in 1..Len(Steps(op')) /\ at' > 11
    BY <1>1, <1>3
  <2>2. first' \in Failures(op') /\ DestCreate(first')
    BY <1>1 DEF DestCreate
  <2> QED BY <1>1, <1>2, <1>5, <2>1, <2>2 DEF UnderWay
<1>7. held'["socket"] <= held'["wsa"]
  BY <1>1 DEF ThreadInv, Released
<1> QED BY <1>1, <1>4, <1>6, <1>7
        DEF ThreadInv, Released, CodeOfFailure, DetailsOfFailure, Ended

\* A call that returns holds nothing any more but a document that came with a
\* failing HcsWaitForOperationResult.
LEMMA EndReleases ==
  ASSUME ThreadInv, op # "none", NEW g, Hold(g, AtEnd(Step)),
         g = {} \/ (g = {"document"} /\ at = 5),
         g # {} => first'[1] = "HcsWaitForOperationResult"
  PROVE  held' \in [Resources -> {0, 1}] /\ Released'
<1>1. \A r \in Resources : held'[r] = IF r \in g THEN 1 ELSE 0
  BY EndHolds
<1>2. held' \in [Resources -> {0, 1}]
  BY <1>1, HeldType
<1>3. held'["socket"] = 0 /\ held'["wsa"] = 0
  BY <1>1 DEF Resources
<1>4. \A r \in Resources :
        held'[r] = 0 \/ (r = "document" /\ first'[1] = "HcsWaitForOperationResult")
  BY <1>1
<1> QED BY <1>2, <1>3, <1>4 DEF Released

LEMMA SucceedLastKeeps == ThreadInv /\ SucceedLast => ThreadInv'
<1> SUFFICES ASSUME ThreadInv, SucceedLast PROVE ThreadInv'
  OBVIOUS
<1>1. /\ op # "none" /\ first = NoFailure /\ Hold({}, AtEnd(Step))
      /\ op' = "none" /\ at' = 0 /\ result' = "TRUE" /\ before' = before
      /\ UNCHANGED <<errcode, errdetails, first, osError>> /\ errcode = before
  BY DEF ThreadInv, UnderWay, SucceedLast, Return
<1>2. held' \in [Resources -> {0, 1}] /\ Released'
  BY <1>1, EndReleases
<1>3. TypeOK'
  BY <1>1, <1>2 DEF ThreadInv, TypeOK
<1> QED BY <1>1, <1>2, <1>3
        DEF ThreadInv, CodeOfFailure, DetailsOfFailure, UnderWay, Ended

LEMMA FailForDestKeeps == ThreadInv /\ FailForDest => ThreadInv'
<1> SUFFICES ASSUME ThreadInv, FailForDest PROVE ThreadInv'
  OBVIOUS
<1>1. /\ op # "none" /\ first # NoFailure /\ Hold({}, AtEnd(Step))
      /\ op' = "none" /\ at' = 0 /\ result' = "FALSE" /\ before' = before
      /\ errcode' = first[3] /\ errdetails' \in AnyError
      /\ first' = first /\ osError' = osError
      /\ op = "download" /\ first \in Failures(op) /\ DestCreate(first)
  BY DEF ThreadInv, UnderWay, FailForDest, Return
<1>2. held' \in [Resources -> {0, 1}] /\ Released'
  BY <1>1, EndReleases
<1>3. first[3] # "kept" /\ first[3] \in Codes
  BY <1>1, FailureFacts
<1>4. TypeOK'
  BY <1>1, <1>2, <1>3 DEF ThreadInv, TypeOK
<1>5. DestCreate(first')
  BY <1>1 DEF DestCreate
<1> QED BY <1>1, <1>2, <1>3, <1>4, <1>5
        DEF ThreadInv, CodeOfFailure, DetailsOfFailure, UnderWay, Ended

LEMMA FailKeeps ==
  ASSUME ThreadInv, op # "none", NEW f \in Failures(op), NEW e \in Errors, Fail(f, e)
  PROVE  ThreadInv'
<1>1. /\ first = NoFailure /\ f[1] = Step /\ ~DestCreate(f)
      /\ first' = f /\ osError' = e
      /\ errcode' = IF Coded(f) THEN f[3] ELSE errcode
      /\ errdetails' \in Details(f, e)
      /\ op' = "none" /\ at' = 0 /\ result' = "FALSE" /\ before' = before
  BY DEF Fail, Return
<1>2. /\ op \in {"upload", "download"} /\ at \in 1..Len(Steps(op))
      /\ errcode = before /\ "file" \in Resources
      /\ \A r \in Resources : held[r] = IF r \in Holding THEN 1 ELSE 0
      /\ errcode \in Codes \cup {NoCode} /\ before \in Codes \cup {NoCode}
      /\ errdetails \in AnyError
  BY DEF ThreadInv, TypeOK, UnderWay, Resources
<1>3. /\ f[3] # "kept" => f[3] \in Codes
      /\ f[2] \in {"error", "send", "recv"} => f[3] # "kept"
      /\ f \in Failures("upload") \cup Failures("download")
  BY <1>2, FailureFacts
<1>4. held' \in [Resources -> {0, 1}] /\ Released'
  <2>1. PICK g \in Gained(f) : Hold(g, AtEnd(Step))
    BY DEF Fail
  <2>2. g = {} \/ (g = {"document"} /\ f[1] = "HcsWaitForOperationResult")
    BY <2>1 DEF Gained
  <2>3. Step = "HcsWaitForOperationResult" => at = 5
    <3>1. at = 1 \/ at = 2 \/ at = 3 \/ at = 4 \/ at = 5 \/ at = 6 \/ at = 7 \/ at = 8
             \/ at = 9 \/ at > 9
      BY <1>2
    <3> QED BY <1>2, <3>1, StepIs
  <2> QED BY <1>1, <2>1, <2>2, <2>3, EndReleases
<1>5. LastError(f, e) \subseteq AnyError /\ Details(f, e) \subseteq AnyError
  BY <1>2 DEF Details, LastError, AnyError
<1>6. TypeOK'
  BY <1>1, <1>2, <1>3, <1>4, <1>5 DEF ThreadInv, TypeOK, Coded, AnyError
<1>7. CodeOfFailure'
  BY <1>1, <1>2 DEF CodeOfFailure, Ended, Coded
<1>8. DetailsOfFailure'
  <2>1. SUFFICES ASSUME f[1] \in ReadInTime, f[2] \in {"error", "send", "recv"}
                 PROVE  errdetails' = e
    BY <1>1 DEF DetailsOfFailure
  <2>2. f[1] \notin GetVMIDSteps /\ Coded(f)
    BY <1>3, <2>1, GetVMIDNames DEF ReadInTime, Coded
  <2>3. FileOpen = {}
    <3>1. at <= FileStep
      <4>1. at = 1 \/ at = 2 \/ at = 3 \/ at = 4 \/ at = 5 \/ at = 6 \/ at = 7 \/ at = 8
               \/ at = 9 \/ at > 9
        BY <1>2
      <4>2. CASE op = "upload"
        BY <1>1, <1>2, <2>1, <4>1, <4>2, StepIs DEF FileStep, ReadInTime
      <4>3. CASE op = "download"
        BY <1>1, <1>2, <2>1, <4>1, <4>3, StepIs DEF FileStep, ReadInTime
      <4> QED BY <1>2, <4>2, <4>3
    <3>2. "file" \notin Holding
      BY <1>2, <3>1 DEF Holding, FileStep
    <3> QED BY <1>2, <3>2 DEF FileOpen
  <2>4. Table(f[1]).gives \ {"user"} = {}
    BY <2>1, Rows, Fields DEF ReadInTime
  <2>5. LastError(f, e) = {e}
    BY <2>1, <2>3, <2>4 DEF LastError, Between
  <2>6. Details(f, e) = {e}
    BY <2>1, <2>2, <2>5 DEF Details
  <2> QED BY <1>1, <2>6
<1> QED BY <1>1, <1>4, <1>6, <1>7, <1>8 DEF ThreadInv, UnderWay

LEMMA ThreadStep == ThreadInv /\ [Next]_vars => ThreadInv'
<1> SUFFICES ASSUME ThreadInv, [Next]_vars PROVE ThreadInv'
  OBVIOUS
<1>1. CASE UNCHANGED vars
  <2>1. /\ op' = op /\ at' = at /\ held' = held /\ errcode' = errcode
        /\ errdetails' = errdetails /\ result' = result /\ first' = first
        /\ osError' = osError /\ before' = before
    BY <1>1 DEF vars
  <2> QED BY <2>1 DEF ThreadInv, TypeOK, Released, CodeOfFailure, DetailsOfFailure,
                      UnderWay, Ended, Holding, FileStep, DestCreate
<1> QED BY <1>1, CallKeeps, SucceedKeeps, SucceedLastKeeps, FailForDestKeeps,
           CreateDestFailsKeeps, FailKeeps DEF Next

LEMMA ThreadAlways == Spec => []ThreadInv
<1>1. Init => ThreadInv
  BY ThreadInit
<1>2. ThreadInv /\ [Next]_vars => ThreadInv'
  BY ThreadStep
<1> QED BY <1>1, <1>2, PTL DEF Spec

-----------------------------------------------------------------------------
\* Every call counts what it holds as the code does: nothing is acquired twice
\* and nothing given back that is not held, also after failures.
THEOREM ThreadTypeOKAlways == Spec => []TypeOK
<1>1. ThreadInv => TypeOK
  BY DEF ThreadInv
<1> QED BY <1>1, ThreadAlways, PTL

\* CopyFileToGuest and CopyFileFromGuest give back the handles, the memory,
\* the socket and Winsock on every way out, but for one document.
THEOREM ReleasedAlways == Spec => []Released
<1>1. ThreadInv => Released
  BY DEF ThreadInv
<1> QED BY <1>1, ThreadAlways, PTL

\* GetHVCPLastError tells the code of the first step of this call that failed.
THEOREM CodeOfFailureAlways == Spec => []CodeOfFailure
<1>1. ThreadInv => CodeOfFailure
  BY DEF ThreadInv
<1> QED BY <1>1, ThreadAlways, PTL

\* And its details, where the handlers read them in time.
THEOREM DetailsOfFailureAlways == Spec => []DetailsOfFailure
<1>1. ThreadInv => DetailsOfFailure
  BY DEF ThreadInv
<1> QED BY <1>1, ThreadAlways, PTL
=============================================================================
