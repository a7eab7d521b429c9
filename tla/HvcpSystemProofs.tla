-------------------------- MODULE HvcpSystemProofs --------------------------
(***************************************************************************)
(* Proofs about HvcpSystem, for any number of calls, any requests, any     *)
(* files and any combination of faults.                                    *)
(***************************************************************************)
EXTENDS HvcpSystem, SequenceTheorems, TLAPS

\* The phases in which the daemon serves a client.
Serving == Phases \ {"down", "accept"}

\* OneSession is not inductive: whether Connect queues a call that is not
\* queued already depends on where the call is, and every step on the types
\* of what it changes.
SessionInv ==
  /\ phase \in Phases
  /\ client \in Calls \cup {NoClient}
  /\ SocketTypeOK
  /\ pc \in [Calls -> HostStates]
  /\ \A c \in Calls : pc[c] = "connect" => guestEnd[c] = "none"
  /\ OneSession

LEMMA SessionInit == Init => SessionInv
  BY NoneAssumption, BacklogAssumption
     DEF Init, SocketInit, ServerInit, HostInit, SessionInv, SocketTypeOK,
         OneSession, Phases, HostStates

-----------------------------------------------------------------------------
(* The shapes of a step.                                                   *)

\* A step that goes on with the same client keeps the sessions.
LEMMA SameClient ==
  ASSUME SessionInv, client # NoClient,
         NEW next \in Serving, phase' = next,
         NEW end \in {"open", "deaf"},
         guestEnd' = [guestEnd EXCEPT ![client] = end],
         UNCHANGED <<client, backlog, hostEnd, pc>>
  PROVE  SessionInv'
  BY DEF SessionInv, SocketTypeOK, OneSession, Serving, Phases

LEMMA SameSession ==
  ASSUME SessionInv, client # NoClient,
         NEW next \in Serving, phase' = next,
         UNCHANGED <<client, guestEnd, backlog, hostEnd, pc>>
  PROVE  SessionInv'
  BY DEF SessionInv, SocketTypeOK, OneSession, Serving, Phases

\* The end of the process ends every session.
LEMMA EndOfProcess ==
  ASSUME SessionInv, ProcessEnds, UNCHANGED <<hostEnd, pc>>
  PROVE  SessionInv'
  BY BacklogAssumption, NoneAssumption
     DEF SessionInv, SocketTypeOK, OneSession, ProcessEnds, Phases

\* The end of a handler is one or the other.
LEMMA EndOfHandler ==
  ASSUME SessionInv, client # NoClient,
         NEW tokens, NEW next \in Serving, NEW end \in {"open", "deaf"},
         Send(tokens, end, next), UNCHANGED <<hostEnd, pc>>
  PROVE  SessionInv'
  BY SameClient, EndOfProcess DEF Send

LEMMA EndOfRequest ==
  ASSUME SessionInv, client # NoClient,
         UNCHANGED <<hostEnd, pc>>,
         SendOk \/ \E error \in Results : SendError(error)
  PROVE  SessionInv'
  BY EndOfHandler DEF SendOk, SendError, Serving, Phases

\* A step of the engine moves one call on, and at most closes its end.
LEMMA CallMoves ==
  ASSUME SessionInv, NEW c \in Calls, NEW next \in HostStates \ {"connect"},
         pc' = [pc EXCEPT ![c] = next],
         hostEnd' \in [Calls -> {"none", "open", "closed"}],
         UNCHANGED <<guestEnd, backlog, phase, client>>
  PROVE  SessionInv'
<1>1. pc' \in [Calls -> HostStates]
  BY DEF SessionInv
<1>2. \A e \in Calls : pc'[e] = "connect" => guestEnd'[e] = "none"
  BY DEF SessionInv
<1>3. OneSession'
  BY DEF SessionInv, OneSession
<1>4. QED
  BY <1>1, <1>2, <1>3 DEF SessionInv, SocketTypeOK

LEMMA CallReturns ==
  ASSUME SessionInv, NEW c \in Calls, NEW result, NEW code,
         Return(c, result, code),
         UNCHANGED <<guestEnd, backlog, phase, client>>
  PROVE  SessionInv'
  BY CallMoves DEF Return, HostStates, SessionInv, SocketTypeOK

LEMMA CallGoes ==
  ASSUME SessionInv, NEW c \in Calls, NEW next \in HostStates \ {"connect"},
         Goto(c, next),
         UNCHANGED <<guestEnd, backlog, phase, client>>
  PROVE  SessionInv'
  BY CallMoves DEF Goto, SessionInv, SocketTypeOK

-----------------------------------------------------------------------------
(* The steps of the daemon.                                                *)

LEMMA ServeSession ==
  ASSUME SessionInv, Serve
  PROVE  SessionInv'
<1> USE DEF Serve
<1>0. UNCHANGED pc
  BY DEF hostVars
<1>1. CASE Accept
  <2>1. backlog # <<>> /\ backlog \in Seq(Calls)
    BY <1>1 DEF Accept, SessionInv, SocketTypeOK
  <2>2. /\ Head(backlog) = backlog[1] /\ Head(backlog) \in Calls
        /\ Tail(backlog) \in Seq(Calls)
        /\ Len(Tail(backlog)) = Len(backlog) - 1
        /\ \A i \in 1..Len(Tail(backlog)) : Tail(backlog)[i] = backlog[i + 1]
        /\ Len(backlog) \in Nat \ {0}
    BY <2>1
  <2>3. PICK c \in Calls : c = Head(backlog)
    BY <2>2
  <2>4. /\ phase' = "command" /\ client' = c /\ backlog' = Tail(backlog)
        /\ guestEnd' = [guestEnd EXCEPT ![c] = "open"]
        /\ UNCHANGED <<hostEnd, pc>>
        /\ client = NoClient /\ guestEnd[c] = "queued"
    BY <1>0, <1>1, <2>2, <2>3 DEF Accept, SessionInv, OneSession
  <2>5. \A e \in Calls : guestEnd'[e] \in {"open", "deaf"} <=> client' = e
    BY <2>4, NoneAssumption DEF SessionInv, SocketTypeOK, OneSession
  <2>6. \A e \in Calls : guestEnd'[e] = "queued" <=>
                             \E i \in 1..Len(backlog') : backlog'[i] = e
    <3>1. \A e \in Calls : e # c =>
            ((\E i \in 1..Len(backlog) : backlog[i] = e) <=>
               \E i \in 1..Len(backlog') : backlog'[i] = e)
      <4>1. ASSUME NEW e \in Calls, e # c,
                   NEW i \in 1..Len(backlog), backlog[i] = e
            PROVE  i - 1 \in 1..Len(backlog') /\ backlog'[i - 1] = e
        BY <2>2, <2>3, <2>4, <4>1
      <4>2. ASSUME NEW e \in Calls,
                   NEW i \in 1..Len(backlog'), backlog'[i] = e
            PROVE  i + 1 \in 1..Len(backlog) /\ backlog[i + 1] = e
        BY <2>2, <2>4, <4>2
      <4>3. QED
        BY <4>1, <4>2
    <3>2. ~\E i \in 1..Len(backlog') : backlog'[i] = c
      BY <2>2, <2>3, <2>4 DEF SessionInv, OneSession
    <3>3. QED
      BY <2>4, <3>1, <3>2 DEF SessionInv, SocketTypeOK, OneSession
  <2>7. \A i, j \in 1..Len(backlog') : backlog'[i] = backlog'[j] => i = j
    BY <2>2, <2>4 DEF SessionInv, OneSession
  <2>8. OneSession'
    BY <2>2, <2>4, <2>5, <2>6, <2>7, NoneAssumption, BacklogAssumption
       DEF SessionInv, OneSession
  <2>9. QED
    BY <2>2, <2>4, <2>8 DEF SessionInv, SocketTypeOK, Phases
<1>2. CASE AcceptFails
  BY <1>0, <1>2, EndOfProcess DEF AcceptFails
<1>3. CASE Close
  BY <1>0, <1>3, NoneAssumption
     DEF Close, SessionInv, SocketTypeOK, OneSession, Phases
<1>4. CASE RecvCommand
  BY <1>0, <1>4, SameSession
     DEF RecvCommand, SessionInv, OneSession, Serving, Phases
<1>5. CASE RecvLength
  BY <1>0, <1>5, SameSession
     DEF RecvLength, SessionInv, OneSession, Serving, Phases, HandledCommands
<1>6. CASE SetUser
  BY <1>0, <1>6, EndOfRequest
     DEF SetUser, SessionInv, OneSession, Results
<1>7. CASE SetRemotePath
  BY <1>0, <1>7, EndOfRequest
     DEF SetRemotePath, SessionInv, OneSession, Results
<1>8. CASE SetFileName
  BY <1>0, <1>8, EndOfRequest
     DEF SetFileName, SessionInv, OneSession, Results
<1>9. CASE CopyFileToGuest
  BY <1>0, <1>9, EndOfRequest, SameSession
     DEF CopyFileToGuest, SessionInv, OneSession, Results, Serving, Phases
<1>10. CASE RecvBlock
  BY <1>0, <1>10, EndOfRequest, SameSession
     DEF RecvBlock, SessionInv, OneSession, Results, Serving, Phases
<1>11. CASE RecvDone
  BY <1>0, <1>11, EndOfRequest
     DEF RecvDone, SessionInv, OneSession
<1>12. CASE CopyFileFromGuest
  BY <1>0, <1>12, EndOfRequest, EndOfHandler
     DEF CopyFileFromGuest, SessionInv, OneSession, Results, Serving, Phases
<1>13. CASE SendBlock
  BY <1>0, <1>13, EndOfRequest, SameSession
     DEF SendBlock, SessionInv, OneSession, Results, Serving, Phases
<1>14. CASE SendDone
  BY <1>0, <1>14, SameSession
     DEF SendDone, SessionInv, OneSession, Serving, Phases, socketVars
<1>15. QED
  BY <1>1, <1>2, <1>3, <1>4, <1>5, <1>6, <1>7, <1>8, <1>9, <1>10, <1>11,
     <1>12, <1>13, <1>14 DEF ServerStep

-----------------------------------------------------------------------------
(* The steps of the engine.                                                *)

\* Connect is the only step of the engine that changes the backlog.
LEMMA ConnectSession ==
  ASSUME SessionInv, NEW c \in Calls, Connect(c, Listening),
         UNCHANGED <<phase, client>>
  PROVE  SessionInv'
<1>1. ASSUME NEW result, NEW code, Return(c, result, code),
             UNCHANGED <<guestEnd, backlog>>
      PROVE  SessionInv'
  BY <1>1, CallReturns
<1>2. ASSUME Listening, Len(backlog) <= Backlog, pc[c] = "connect",
             NEW next \in {"user", "path"},
             pc' = [pc EXCEPT ![c] = next],
             hostEnd'  = [hostEnd EXCEPT ![c] = "open"],
             guestEnd' = [guestEnd EXCEPT ![c] = "queued"],
             backlog'  = Append(backlog, c)
      PROVE  SessionInv'
  <2>1. /\ backlog' \in Seq(Calls)
        /\ Len(backlog') = Len(backlog) + 1 /\ Len(backlog) \in Nat
        /\ backlog'[Len(backlog) + 1] = c
        /\ \A i \in 1..Len(backlog) : backlog'[i] = backlog[i]
    BY <1>2 DEF SessionInv, SocketTypeOK
  <2>2. guestEnd[c] = "none" /\ client # c
        /\ \A i \in 1..Len(backlog) : backlog[i] # c
    BY <1>2 DEF SessionInv, OneSession
  <2>3. \A e \in Calls : guestEnd'[e] \in {"open", "deaf"} <=> client' = e
    BY <1>2, <2>2 DEF SessionInv, SocketTypeOK, OneSession
  <2>4. \A e \in Calls : guestEnd'[e] = "queued" <=>
                             \E i \in 1..Len(backlog') : backlog'[i] = e
    BY <1>2, <2>1, <2>2 DEF SessionInv, SocketTypeOK, OneSession
  <2>5. \A i, j \in 1..Len(backlog') : backlog'[i] = backlog'[j] => i = j
    BY <2>1, <2>2 DEF SessionInv, OneSession
  <2>6. OneSession'
    BY <1>2, <2>1, <2>3, <2>4, <2>5, BacklogAssumption
       DEF SessionInv, OneSession, Listening
  <2>7. pc' \in [Calls -> HostStates]
        /\ \A e \in Calls : pc'[e] = "connect" => guestEnd'[e] = "none"
    BY <1>2 DEF SessionInv, SocketTypeOK, HostStates
  <2>8. QED
    BY <1>2, <2>1, <2>6, <2>7 DEF SessionInv, SocketTypeOK
<1>3. QED
  BY <1>1, <1>2 DEF Connect, Fail

\* Every other step goes on, or returns.
LEMMA CallGoesOn ==
  ASSUME SessionInv, NEW c \in Calls,
         UNCHANGED <<guestEnd, backlog, phase, client>>,
         \/ \E next \in HostStates \ {"connect"} : Goto(c, next)
         \/ \E code : Fail(c, code)
         \/ Succeed(c)
  PROVE  SessionInv'
  BY CallGoes, CallReturns DEF Fail, Succeed

LEMMA HostSession ==
  ASSUME SessionInv, NEW c \in Calls, Host(c)
  PROVE  SessionInv'
<1> USE DEF Host
<1>0. UNCHANGED <<phase, client>>
  BY DEF serverVars
<1>1. CASE Connect(c, Listening)
  BY <1>0, <1>1, ConnectSession
<1>2. CASE SendUser(c)
  BY <1>0, <1>2, CallGoesOn DEF SendUser, SendData, HostStates
<1>3. CASE AwaitUser(c)
  BY <1>0, <1>3, CallGoesOn DEF AwaitUser, AwaitReply, NoCommandResult, HostStates
<1>4. CASE SendPath(c)
  BY <1>0, <1>4, CallGoesOn DEF SendPath, SendData, HostStates
<1>5. CASE AwaitPath(c)
  BY <1>0, <1>5, CallGoesOn DEF AwaitPath, AwaitReply, NoCommandResult, HostStates
<1>6. CASE SendName(c)
  BY <1>0, <1>6, CallGoesOn DEF SendName, SendData, HostStates
<1>7. CASE AwaitName(c)
  BY <1>0, <1>7, CallGoesOn DEF AwaitName, AwaitReply, NoCommandResult, HostStates
<1>8. CASE OpenSource(c)
  BY <1>0, <1>8, CallGoesOn DEF OpenSource, SendData, HostStates
<1>9. CASE TransmitBlock(c)
  BY <1>0, <1>9, CallGoesOn DEF TransmitBlock, SendData, HostStates
<1>10. CASE AwaitCopy(c)
  BY <1>0, <1>10, CallGoesOn DEF AwaitCopy, NoCommandResult
<1>11. CASE OpenDest(c)
  BY <1>0, <1>11, CallMoves DEF OpenDest, Goto, HostStates, SessionInv, SocketTypeOK
<1>12. CASE SendGet(c)
  BY <1>0, <1>12, CallGoesOn DEF SendGet, SendData, HostStates
<1>13. CASE AwaitFile(c)
  BY <1>0, <1>13, CallGoesOn DEF AwaitFile, AwaitReply, NoCommandResult, HostStates
<1>14. CASE ReceiveBlock(c)
  BY <1>0, <1>14, CallGoesOn DEF ReceiveBlock, HostStates
<1>15. CASE ReceiveDone(c)
  BY <1>0, <1>15, CallGoesOn DEF ReceiveDone
<1>16. QED
  BY <1>1, <1>2, <1>3, <1>4, <1>5, <1>6, <1>7, <1>8, <1>9, <1>10, <1>11,
     <1>12, <1>13, <1>14, <1>15 DEF HostStep

-----------------------------------------------------------------------------
(* The specification.                                                      *)

LEMMA NextSession ==
  ASSUME SessionInv, [Next]_vars
  PROVE  SessionInv'
<1>1. CASE Serve
  BY <1>1, ServeSession
<1>2. CASE Restart
  <2>1. phase = "down" /\ phase' = "accept"
        /\ UNCHANGED <<client, guestEnd, backlog, hostEnd, pc>>
    BY <1>2 DEF Restart, Start, socketVars, hostVars
  <2>2. QED
    BY <2>1 DEF SessionInv, SocketTypeOK, OneSession, Phases
<1>3. CASE \E c \in Calls : Host(c)
  BY <1>3, HostSession
<1>4. CASE Environment
  <2>1. CASE Crash /\ UNCHANGED hostVars
    BY <2>1, EndOfProcess DEF Crash, hostVars
  <2>2. CASE \E p \in FilePaths : Truncate(p) /\ UNCHANGED hostVars
    <3>1. UNCHANGED <<phase, client, guestEnd, backlog, hostEnd, pc>>
      BY <2>2 DEF Truncate, socketVars, hostVars
    <3>2. QED
      BY <3>1 DEF SessionInv, SocketTypeOK, OneSession
  <2>3. CASE \E c \in Calls : Kill(c) /\ UNCHANGED serverVars
    BY <2>3, CallReturns DEF Kill, serverVars
  <2>4. QED
    BY <1>4, <2>1, <2>2, <2>3 DEF Environment
<1>5. CASE Quiet \/ UNCHANGED vars
  <2>1. UNCHANGED <<phase, client, guestEnd, backlog, hostEnd, pc>>
    BY <1>5 DEF Quiet, vars, socketVars, serverVars, hostVars
  <2>2. QED
    BY <2>1 DEF SessionInv, SocketTypeOK, OneSession
<1>6. QED
  BY <1>1, <1>2, <1>3, <1>4, <1>5 DEF Next

\* The daemon serves one client at a time and the backlog holds who waits,
\* through every crash and restart: accept_client, for any number of calls.
THEOREM OneSessionAlways == Spec => []OneSession
<1>1. Init => SessionInv
  BY SessionInit
<1>2. SessionInv /\ [Next]_vars => SessionInv'
  BY NextSession
<1>3. SessionInv => OneSession
  BY DEF SessionInv
<1>4. QED
  BY <1>1, <1>2, <1>3, PTL DEF Spec
=============================================================================
