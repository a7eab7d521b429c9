----------------------------- MODULE CopyService ----------------------------
(***************************************************************************)
(* What hvcp promises to its callers, without connections, requests,       *)
(* replies or blocks: a file of the guest is a whole version, or in flux   *)
(* under the one upload that writes it, or what a failed upload left; TRUE *)
(* means that a whole version was moved.  HvcpService shows that the two   *)
(* programs implement it.                                                  *)
(***************************************************************************)
EXTENDS Integers, Sequences

CONSTANTS
  Calls,     \* calls of the engine's API
  Files,     \* paths of the guest
  Owners,    \* users of the guest
  Jobs,      \* what a call may ask for: [op, path, content, owners]
  InFlux,    \* the content and the owner of a file that is being written
  Nobody     \* the writer when no file is

VARIABLES
  job,       \* what each call asks for
  file,      \* the files of the guest
  owner,     \* and their owners
  writer,    \* the upload whose file is in flux
  delivered, \* what a download that returned TRUE has brought to the host
  outcome    \* "none" until the call returned "TRUE" or "FALSE"

vars == <<job, file, owner, writer, delivered, outcome>>

Init ==
  /\ job \in [Calls -> Jobs]
  /\ \A p \in Files : file[p] # InFlux /\ owner[p] # InFlux
  /\ writer = Nobody
  /\ delivered = [c \in Calls |-> <<>>]
  /\ outcome = [c \in Calls |-> "none"]

Put(c, content, user) ==
  /\ file'  = [file  EXCEPT ![job[c].path] = content]
  /\ owner' = [owner EXCEPT ![job[c].path] = user]
  /\ UNCHANGED <<job, delivered, outcome>>

\* An upload starts to write, when no other one does.
Open(c) ==
  /\ job[c].op = "upload" /\ outcome[c] = "none" /\ writer = Nobody
  /\ writer' = c
  /\ Put(c, InFlux, InFlux)

\* It ends with the whole content and the owner that was asked for ...
Commit(c) ==
  /\ writer = c /\ writer' = Nobody
  /\ \E user \in job[c].owners : Put(c, job[c].content, user)

\* ... or with less.
Tear(c) ==
  /\ writer = c /\ writer' = Nobody
  /\ \E n \in 0..Len(job[c].content) - 1, user \in Owners :
       Put(c, SubSeq(job[c].content, 1, n), user)

ReturnTrue(c) ==
  LET p == job[c].path IN
  /\ outcome[c] = "none" /\ writer # c
  /\ outcome' = [outcome EXCEPT ![c] = "TRUE"]
  /\ IF job[c].op = "upload"
       THEN /\ file[p] = job[c].content /\ owner[p] \in job[c].owners
            /\ UNCHANGED delivered
       ELSE /\ file[p] # InFlux
            /\ delivered' = [delivered EXCEPT ![c] = file[p]]
  /\ UNCHANGED <<job, file, owner, writer>>

ReturnFalse(c) ==
  /\ outcome[c] = "none" /\ writer # c
  /\ outcome' = [outcome EXCEPT ![c] = "FALSE"]
  /\ UNCHANGED <<job, file, owner, writer, delivered>>

Write(c)  == Commit(c) \/ Tear(c)
Return(c) == ReturnTrue(c) \/ ReturnFalse(c)

Next == \E c \in Calls : Open(c) \/ Write(c) \/ Return(c)

\* What may happen, and what must.
Steps == Init /\ [][Next]_vars

Spec ==
  /\ Steps
  /\ \A c \in Calls : WF_vars(Write(c)) /\ WF_vars(Return(c))
=============================================================================
