---------------------------- MODULE HvcpProtocol ----------------------------
(***************************************************************************)
(* The wire format shared by the Windows engine (dll/) and the Linux       *)
(* daemon (linux/), from hvcp-common.h.  A request is                      *)
(*     [command word][length word][length units of data]                   *)
(* and a reply is [result word][length word][length units of data].        *)
(*                                                                         *)
(* The byte stream is a sequence of tokens <<kind, value>>.  A token is    *)
(* the unit in which the model counts: one word, one string that fits in   *)
(* a PATH_MAX buffer, or one block of a file.  The kind is what the SENDER *)
(* meant by these bytes; a receiver cannot see it, it takes the next       *)
(* token for whatever its own position in the protocol expects.            *)
(***************************************************************************)
EXTENDS Integers, Sequences

CONSTANT LongPaths   \* paths that do not fit in PATH_MAX

Kind(token)  == token[1]
Value(token) == token[2]

Command(name)    == <<"command", name>>
Length(n)        == <<"length", n>>
Text(string)     == <<"text", string>>
Result(r)        == <<"result", r>>
Block(source, i) == <<"block", <<source, i>>>>

\* The commands with a case of their own in the daemon's switch.
HandledCommands == {"SET_USER", "SET_REMOTE_PATH", "SET_FILE_NAME",
                    "COPY_FILE_TO_GUEST", "COPY_FILE_FROM_GUEST"}

\* Commands of the header that no code sends or handles yet: the switch
\* sends them to its default branch.
ReservedCommands == {"COPY_FILE_TO_GUEST_RECURSIVE",
                     "COPY_FILE_TO_HOST_RECURSIVE"}

Commands == HandledCommands \cup ReservedCommands

Results == {"OK", "UNKNOWN_USER", "INVALID_PATH", "FILETRANSFER_ERROR"}

\* A request without its data, and a whole reply.
Header(cmd, n)   == <<Command(cmd), Length(n)>>
Reply(result, n) == <<Result(result), Length(n)>>

\* n units of the same string, as SendData puts it on the wire.
Units(string, n) == [i \in 1..n |-> Text(string)]

\* PATH_MAX, and the length of a path: one unit fits, a long path has two.
PathMax == 1
PathUnits(p) == IF p = <<>> THEN 0 ELSE IF p \in LongPaths THEN 2 ELSE PathMax

\* The n blocks of the version of a file named by source.
Blocks(source, n) == [i \in 1..n |-> Block(source, i)]
=============================================================================
