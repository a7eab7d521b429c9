----------------------------- MODULE EngineThread -----------------------------
(***************************************************************************)
(* One thread that calls the engine again and again: what a call acquires  *)
(* and gives back on every way out, through __try, __finally and __except, *)
(* and what it leaves in errcode and errdetails, which are the thread's    *)
(* and survive from call to call.  HostEngine has the same steps against   *)
(* a daemon; here the systems only let a step succeed or fail.             *)
(***************************************************************************)
EXTENDS Integers, Sequences

CONSTANTS
  Errors,      \* error numbers of Windows
  NoError,     \* 0
  NoCode,      \* errcode of a thread that has made no call
  NoFailure

Resources == {"wsa", "socket", "operation", "query", "document", "vmid",
              "user", "path", "name", "file"}

ConnectSteps ==
  <<"WSAStartup", "socket", "HcsCreateOperation", "HcsEnumerateComputeSystems",
    "HcsWaitForOperationResult", "parse", "Id", "CLSIDFromString", "connect">>
GetVMIDSteps == {ConnectSteps[i] : i \in 3..8}

Steps(op) == ConnectSteps \o
  IF op = "upload"
    THEN <<"SetUserName", "SetRemotePath", "SetFileName", "CreateFile", "send",
           "TransmitFile", "GetCommandResult">>
    ELSE <<"SetRemotePath", "CreateFile", "CopyFileFromGuest", "recv",
           "WriteFile">>

\* GetCommandResult, and the code when the answer is not OK; before it,
\* SendData.
Answer(step, refused) ==
  {<<step, "recv", "ERR_GET_CMD_RESULT">>,
   <<step, "short", "ERR_GET_CMD_RESULT_INSUFFICIENT_DATA">>,
   <<step, "refused", refused>>}
Request(step, refused) ==
  {<<step, "send", "ERR_SEND_DATA">>} \cup Answer(step, refused)

\* How a step can fail, and the code for it.  "kept" is none: GetVMID without
\* an operation, and a user name that is refused.
Failures(op) ==
  {<<"WSAStartup", "error", "ERR_CONNECT_WSA_STARTUP">>,
   <<"socket", "error", "ERR_CONNECT_SOCKET">>,
   <<"HcsCreateOperation", "null", "kept">>,
   <<"HcsEnumerateComputeSystems", "hresult", "ERR_GETVMID_ENUM_SYSTEMS">>,
   <<"HcsWaitForOperationResult", "hresult", "ERR_GETVMID_HCS_RESULT">>,
   <<"parse", "json", "ERR_GETVMID_JSON_PARSE">>,
   <<"Id", "throws", "exception">>,
   <<"CLSIDFromString", "hresult", "ERR_GETVMID_CLSID">>,
   <<"connect", "error", "ERR_CONNECT_CONNECT">>}
  \cup Request("SetUserName", "kept")
  \cup Request("SetRemotePath", "ERR_INALID_REMOETE_PATH")
  \cup Request("SetFileName", "ERR_COPY_FILE_TO_GUEST")
  \cup Request("CopyFileFromGuest", "ERR_COPY_FILE_FROM_GUEST")
  \cup Answer("GetCommandResult", "ERR_COPY_FILE_TO_GUEST_SEND_FILE")
  \cup {<<"CreateFile", "error", IF op = "upload"
                                   THEN "ERR_COPY_FILE_TO_GUEST_SRC_OPEN"
                                   ELSE "ERR_COPY_FILE_FROM_GUEST_DEST_CREATE">>,
        <<"send", "error", "ERR_COPY_FILE_TO_GUEST">>,
        <<"TransmitFile", "error", "ERR_COPY_FILE_TO_GUEST">>,
        <<"recv", "error", "ERR_COPY_FILE_FROM_GUEST">>,
        <<"WriteFile", "error", "ERR_COPY_FILE_FROM_GUEST_WRITE_FILE">>}

ASSUME ThreadAssumption ==
  NoError \notin Errors /\ NoFailure \notin Failures("upload") \cup Failures("download")

VARIABLES
  op,         \* the call under way, "none" between two calls
  at,         \* the number of its step
  held,       \* how often each resource is held by it
  errcode, errdetails,
  result,     \* what the last call returned
  first,      \* the first step of the call that failed
  osError,    \* and the error number it failed with
  before      \* errcode when the call began

vars == <<op, at, held, errcode, errdetails, result, first, osError, before>>

Nothing == [r \in Resources |-> 0]

Init ==
  /\ op = "none" /\ at = 0 /\ held = Nothing
  /\ errcode = NoCode /\ errdetails = NoError /\ result = "none"
  /\ first = NoFailure /\ osError = NoError /\ before = NoCode

Step == Steps(op)[at]

\* What a step allocates on its way, what it gains when it succeeds, and what
\* it gives back whether it succeeded or not.
Uses(takes, gains, gives) == [takes |-> takes, gains |-> gains, gives |-> gives]
Table(s) ==
  CASE s = "WSAStartup" -> Uses({}, {"wsa"}, {})
    [] s = "socket" -> Uses({}, {"socket"}, {})
    [] s = "HcsCreateOperation" -> Uses({}, {"operation"}, {})
    [] s = "HcsEnumerateComputeSystems" -> Uses({"query"}, {}, {})
    [] s = "HcsWaitForOperationResult" -> Uses({}, {"document"}, {"query", "operation"})
    [] s = "parse" -> Uses({}, {}, {"document"})
    [] s = "CLSIDFromString" -> Uses({"vmid"}, {}, {"vmid"})
    [] s = "SetUserName" -> Uses({"user"}, {}, {"user"})
    [] s = "SetRemotePath" -> Uses({"path"}, {}, {"path"})
    [] s = "SetFileName" -> Uses({"name"}, {}, {"name"})
    [] s = "CreateFile" -> Uses({}, {"file"}, {})
    [] OTHER -> Uses({}, {}, {})

\* What else is given back at the end of a call: in GetVMID, by the __finally
\* around the transfer, and by the handler of ConnectToGuest or Disconnect.
NotUnwound(s) == {}   \* mutant
Unwound(s) == IF s = "HcsEnumerateComputeSystems" THEN {"query", "operation"}
                                                  ELSE {}
FileOpen == IF held["file"] > 0 THEN {"file"} ELSE {}

DisconnectedAnyway(s) == {"wsa", "socket"}   \* mutant
Disconnected(s) ==
  CASE s = "WSAStartup" -> {} [] s = "socket" -> {"wsa"}
    [] OTHER -> {"wsa", "socket"}

AtEnd(s) == Table(s).gives \cup Unwound(s) \cup FileOpen \cup Disconnected(s)

Hold(gained, given) ==
  LET Times(r, S) == IF r \in S THEN 1 ELSE 0
  IN  held' = [r \in Resources |->
        held[r] + Times(r, Table(Step).takes) + Times(r, gained) - Times(r, given)]

-----------------------------------------------------------------------------
(* A call begins, and its steps succeed                                    *)

Call(o) ==
  /\ op = "none" /\ op' = o /\ at' = 1 /\ result' = "none"
  /\ held' = Nothing /\ first' = NoFailure /\ osError' = NoError
  /\ before' = errcode
  /\ UNCHANGED <<errcode, errdetails>>

Succeed ==
  /\ op # "none" /\ at < Len(Steps(op))
  /\ at' = at + 1
  /\ Hold(Table(Step).gains, Table(Step).gives)
  /\ UNCHANGED <<op, errcode, errdetails, result, first, osError, before>>

\* A destination that cannot be created is found out at the end only.
DestCreate(f) == f[3] = "ERR_COPY_FILE_FROM_GUEST_DEST_CREATE"
CreateDestFails(f, e) ==
  /\ f[1] = Step /\ DestCreate(f)
  /\ at' = at + 1 /\ first' = f /\ osError' = e
  /\ UNCHANGED <<op, held, errcode, errdetails, result, before>>

-----------------------------------------------------------------------------
(* A call ends                                                             *)

Return(value) == op' = "none" /\ at' = 0 /\ result' = value /\ UNCHANGED before

SucceedLast ==
  /\ op # "none" /\ at = Len(Steps(op)) /\ first = NoFailure
  /\ Hold({}, AtEnd(Step)) /\ Return("TRUE")
  /\ UNCHANGED <<errcode, errdetails, first, osError>>

\* GetLastError in a handler: the error of the step, unless something was
\* given back in between or the step failed without one.
AnyError == Errors \cup {NoError}
BetweenClosed(s) ==   \* mutant: closesocket comes before WSAGetLastError
  IF s = "connect" THEN {"socket"} ELSE (Table(s).gives \ {"user"}) \cup FileOpen
Between(s) == (Table(s).gives \ {"user"}) \cup FileOpen
LastError(f, e) ==
  IF f[2] \in {"error", "send", "recv"} /\ Between(f[1]) = {} THEN {e}
                                                             ELSE AnyError

\* The handlers.  The one of ConnectToGuest goes by the code, so that a code
\* of an earlier call can make it read the error of no connect.
CodedNotParse(f) == f[3] \notin {"kept", "ERR_GETVMID_JSON_PARSE"}   \* mutant
Coded(f) == f[3] # "kept"
Details(f, e) ==
  CASE f[1] \notin GetVMIDSteps /\ Coded(f) -> LastError(f, e)
    [] f[1] \in GetVMIDSteps /\ f[2] \in {"hresult", "json"} -> {NoError}
    [] f[2] = "null" /\ errcode = "ERR_CONNECT_CONNECT" -> AnyError
    [] OTHER -> {errdetails}

\* A failing HcsWaitForOperationResult may have handed out a document.
Gained(f) ==
  IF f[1] = "HcsWaitForOperationResult" THEN {{}, {"document"}} ELSE {{}}

\* A step fails, and the call with it.
Fail(f, e) ==
  /\ first = NoFailure /\ f[1] = Step /\ ~DestCreate(f)
  /\ first' = f /\ osError' = e
  /\ errcode' = IF Coded(f) THEN f[3] ELSE errcode
  /\ errdetails' \in Details(f, e)
  /\ \E g \in Gained(f) : Hold(g, AtEnd(Step))
  /\ Return("FALSE")

\* The __finally of a download raises for a destination that could not be
\* created, whether everything after it succeeded or a later step failed.
FailForDest ==
  /\ op # "none" /\ first # NoFailure
  /\ at = Len(Steps(op)) \/ \E f \in Failures(op) : f[1] = Step
  /\ errcode' = first[3] /\ errdetails' \in AnyError
  /\ Hold({}, AtEnd(Step)) /\ Return("FALSE")
  /\ UNCHANGED <<first, osError>>

Next ==
  \/ \E o \in {"upload", "download"} : Call(o)
  \/ Succeed \/ SucceedLast \/ FailForDest
  \/ /\ op # "none"
     /\ \E f \in Failures(op), e \in Errors : CreateDestFails(f, e) \/ Fail(f, e)

Spec == Init /\ [][Next]_vars

-----------------------------------------------------------------------------
Codes == {f[3] : f \in Failures("upload") \cup Failures("download")} \ {"kept"}
Ended == op = "none" /\ result # "none"

\* Nothing is acquired twice, and nothing given back that is not held.
TypeOK ==
  /\ op \in {"none", "upload", "download"} /\ at \in 0..16
  /\ held \in [Resources -> {0, 1}]
  /\ {errcode, before} \subseteq Codes \cup {NoCode}
  /\ {errdetails, osError} \subseteq AnyError
  /\ result \in {"none", "TRUE", "FALSE"}
  /\ first \in {NoFailure} \cup Failures("upload") \cup Failures("download")

\* A call gives back whatever it acquired, on every way out, but for the
\* document that comes with a failing HcsWaitForOperationResult; and it never
\* has a socket without Winsock.
Released ==
  /\ Ended => \A r \in Resources :
       held[r] = 0 \/ (r = "document" /\ first[1] = "HcsWaitForOperationResult")
  /\ held["socket"] <= held["wsa"]

\* After FALSE, errcode is the code of the step of this call that failed
\* first, also when a later one failed as well; after TRUE, nothing had failed
\* and errcode is what it was.  Of a refused user name, and of GetVMID without
\* an operation, it says nothing: the code is then that of an earlier call.
CodeOfFailure ==
  Ended => IF result = "TRUE" THEN first = NoFailure /\ errcode = before
                              ELSE first[3] # "kept" => errcode = first[3]

\* "errcode should be set in GetVMID()", says ConnectToGuest where it raises
\* it: so a call that fails because GetVMID returned CLSID_NULL has one of the
\* codes of GetVMID.
VMIDCodes ==
  {f[3] : f \in {g \in Failures("upload") :
                   g[1] \in GetVMIDSteps /\ g[2] \in {"hresult", "json"}}}
GetVMIDSetsCode ==
  /\ Ended /\ result = "FALSE"
  /\ first[1] \in GetVMIDSteps /\ first[2] # "throws"
  => errcode \in VMIDCodes

\* errdetails is the error number of that step where the handler comes to
\* read it before anything is given back: Winsock, the socket, connect, the
\* two ends of the user's request and the source file.
ReadInTime ==
  {"WSAStartup", "socket", "connect", "SetUserName", "CreateFile"}
DetailsOfFailure ==
  (/\ Ended /\ result = "FALSE" /\ ~DestCreate(first)
   /\ first[1] \in ReadInTime /\ first[2] \in {"error", "send", "recv"})
  => errdetails = osError
=============================================================================
