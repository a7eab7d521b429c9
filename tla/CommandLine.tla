----------------------------- MODULE CommandLine -----------------------------
(***************************************************************************)
(* hvcp.exe: which of its two arguments it takes for a remote one, how it  *)
(* divides that into user, virtual machine and path, which function of the *)
(* engine it calls, and its exit code; or the help text, which is that of  *)
(* VersionInfo.  A string is a sequence of characters; only "@", ":" and   *)
(* the backslash matter.                                                   *)
(***************************************************************************)
EXTENDS VersionInfo, Integers, Sequences

CONSTANTS
  Characters,   \* of the arguments
  Users, VMs,   \* names, without "@" and ":"
  GuestPaths, HostPaths,
  Backslash,
  OtherArgs     \* arguments that no usage text describes: a set of argv

\* On the host a colon is that of a drive, and the path on it begins with a
\* backslash; on the guest there are no backslashes.
ASSUME ArgumentsAssumption ==
  /\ {"@", ":", Backslash} \subseteq Characters /\ Backslash \notin {"@", ":"}
  /\ \A n \in Users \cup VMs :
       n \in Seq(Characters) /\ n # <<>> /\ \A k \in 1..Len(n) : n[k] \notin {"@", ":"}
  /\ \A p \in GuestPaths :
       p \in Seq(Characters) /\ p # <<>> /\ \A k \in 1..Len(p) : p[k] # Backslash
  /\ \A p \in HostPaths : p \in Seq(Characters) /\ \A j \in 1..Len(p) :
       p[j] = ":" => \E k \in j + 1..Len(p) : p[k] = Backslash

VARIABLES
  wish,   \* what the person at the keyboard wants
  argv,   \* the arguments, the name of the program left out
  next,   \* the next part of wmain
  src_is_remote, dest_is_remote,
  user, vm, remote_path,
  call,   \* what the engine was asked for, <<>> before
  result, \* what the engine returned, "none" before
  exit    \* the exit code, -1 before

parsed == <<src_is_remote, dest_is_remote, user, vm, remote_path>>
cliVars == <<wish, argv, parsed, call, result>>
vars    == <<cliVars, next, exit, helpVars>>

\* The usage of the README: <username@>[VM Name]:/path/to/file/on/guest, the
\* user only where a file goes to the guest.
Remote(w) ==
  (IF w.user = <<>> THEN <<>> ELSE Append(w.user, "@")) \o w.vm \o <<":">> \o w.path
Wishes ==
  [op : {"upload"}, user : Users \cup {<<>>}, vm : VMs, path : GuestPaths,
   host : HostPaths]
  \cup
  [op : {"download"}, user : {<<>>}, vm : VMs, path : GuestPaths, host : HostPaths]
Typed(w) == IF w.op = "upload" THEN <<w.host, Remote(w)>> ELSE <<Remote(w), w.host>>

Init ==
  /\ \/ wish \in Wishes /\ argv = Typed(wish)
     \/ wish = <<>> /\ argv \in OtherArgs
  /\ next = "argc" /\ src_is_remote = FALSE /\ dest_is_remote = FALSE
  /\ user = <<>> /\ vm = <<>> /\ remote_path = <<>>
  /\ call = <<>> /\ result = "none" /\ exit = -1
  /\ HelpInit

-----------------------------------------------------------------------------
(* The pattern ((.+?)@)?(.+?):([^\\]+)                                      *)

\* The ways to match it: "@" at i, or no user and i = 0, and ":" at j.
PathAnything(s, j) == j < Len(s)   \* mutant
PathOK(s, j) == j < Len(s) /\ \A k \in j + 1..Len(s) : s[k] # Backslash
Matches(s) ==
  {m \in (0..Len(s)) \X (1..Len(s)) :
     /\ m[1] = 0 \/ (m[1] > 1 /\ s[m[1]] = "@")
     /\ m[2] > m[1] + 1 /\ s[m[2]] = ":"
     /\ PathOK(s, m[2])}

\* The one that is found: with a user rather than without, then the shortest
\* user, then the shortest name of a virtual machine.
Greedy(m, n) ==   \* mutant: (.+) for (.+?)
  IF m[1] = n[1] THEN m[2] >= n[2] ELSE m[1] > 0 /\ (n[1] = 0 \/ m[1] > n[1])
Before(m, n) ==
  IF m[1] = n[1] THEN m[2] <= n[2] ELSE m[1] > 0 /\ (n[1] = 0 \/ m[1] < n[1])
Found(s) == CHOOSE m \in Matches(s) : \A n \in Matches(s) : Before(m, n)

MatchRemote(s, is_remote) ==
  IF Matches(s) = {}
    THEN UNCHANGED <<is_remote, user, vm, remote_path>>
    ELSE LET m == Found(s) IN
         /\ is_remote' = TRUE
         /\ user' = SubSeq(s, 1, m[1] - 1)
         /\ vm' = SubSeq(s, m[1] + 1, m[2] - 1)
         /\ remote_path' = SubSeq(s, m[2] + 1, Len(s))

-----------------------------------------------------------------------------
(* wmain                                                                   *)

Exit(code) == next' = "over" /\ exit' = code

ShowHelp ==
  /\ next = "argc" /\ Len(argv) # 2 /\ next' = "help"
  /\ UNCHANGED <<cliVars, exit, helpVars>>

Help ==
  /\ next = "help" /\ ShowHelpMessage
  /\ UNCHANGED <<cliVars, next, exit>>

HelpShown ==
  /\ next = "help" /\ at = "over"
  /\ Exit(1)
  /\ UNCHANGED <<cliVars, helpVars>>

MatchSrc ==
  /\ next = "argc" /\ Len(argv) = 2 /\ next' = "dest"
  /\ MatchRemote(argv[1], src_is_remote)
  /\ UNCHANGED <<wish, argv, dest_is_remote, call, result, exit, helpVars>>

MatchDest ==
  /\ next = "dest" /\ next' = "call"
  /\ MatchRemote(argv[2], dest_is_remote)
  /\ UNCHANGED <<wish, argv, src_is_remote, call, result, exit, helpVars>>

TwoRemotePaths ==
  /\ next = "call" /\ src_is_remote /\ dest_is_remote
  /\ Exit(2)
  /\ UNCHANGED <<cliVars, helpVars>>

TwoLocalPaths ==
  /\ next = "call" /\ ~src_is_remote /\ ~dest_is_remote
  /\ Exit(3)
  /\ UNCHANGED <<cliVars, helpVars>>

CopyFileFromGuest ==
  /\ src_is_remote /\ ~dest_is_remote
  /\ call' = [op |-> "download", user |-> <<>>, vm |-> vm,
              path |-> remote_path, host |-> argv[2]]

CopyFileToGuest ==
  /\ ~src_is_remote /\ dest_is_remote
  /\ call' = [op |-> "upload", user |-> user, vm |-> vm,
              path |-> remote_path, host |-> argv[1]]

\* The engine copies, or fails and says so.
Call ==
  /\ next = "call" /\ next' = "result"
  /\ CopyFileFromGuest \/ CopyFileToGuest
  /\ result' \in {"TRUE", "FALSE"}
  /\ UNCHANGED <<wish, argv, parsed, exit, helpVars>>

FailureShown(r) == 0   \* mutant: the message, but not the code
CodeOf(r) == IF r = "FALSE" THEN 4 ELSE 0

Result ==
  /\ next = "result" /\ Exit(CodeOf(result))
  /\ UNCHANGED <<cliVars, helpVars>>

Next ==
  \/ ShowHelp \/ Help \/ HelpShown \/ MatchSrc \/ MatchDest \/ TwoRemotePaths \/ TwoLocalPaths
  \/ Call \/ Result

Spec == Init /\ [][Next]_vars

-----------------------------------------------------------------------------
\* Between the at sign of a path and a colon behind it the pattern finds a
\* virtual machine, when the argument begins without a user.
Ambiguous(w) ==
  /\ w.user = <<>>
  /\ \E i, j \in 1..Len(w.path) :
       i + 1 < j /\ j < Len(w.path) /\ w.path[i] = "@" /\ w.path[j] = ":"

\* Whoever writes the arguments as the README says gets the copy that was
\* asked for, whatever "@" and ":" the path has, and never another one.
AsAsked == wish # <<>> /\ call # <<>> => call = wish \/ Ambiguous(wish)

IsRemote(s) == Matches(s) # {}

\* The exit code tells a caller what became of the command, for all arguments:
\* 0 that the engine was called and returned TRUE, 4 that it returned FALSE, 1
\* to 3 that it was not called, and why: the number of arguments, two remote
\* ones, or none.  Whoever writes them as in the README gets 0 or 4.
ExitTells ==
  exit # -1 =>
    /\ \/ exit = 0 /\ call # <<>> /\ result = "TRUE"
       \/ exit = 4 /\ call # <<>> /\ result = "FALSE"
       \/ exit = 1 /\ call = <<>> /\ Len(argv) # 2
       \/ exit = 2 /\ call = <<>> /\ Len(argv) = 2 /\ IsRemote(argv[1]) /\ IsRemote(argv[2])
       \/ exit = 3 /\ call = <<>> /\ Len(argv) = 2 /\ ~IsRemote(argv[1]) /\ ~IsRemote(argv[2])
    /\ wish # <<>> => exit \in {0, 4}
=============================================================================
