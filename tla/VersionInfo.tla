------------------------------ MODULE VersionInfo ------------------------------
(***************************************************************************)
(* The help text of hvcp.exe: two ProductInfo, for the program and for     *)
(* hvcp.dll, that load the version resource of a file.  Whether a file     *)
(* name was found is judged by the last error of the thread.  What a call  *)
(* that succeeds leaves there is not documented, so it may be anything.    *)
(***************************************************************************)
EXTENDS Naturals

CONSTANT Sizes   \* of a version resource, 0 for none
ASSUME SizesAssumption == Sizes \subseteq Nat

Infos == {"exe_info", "engine_info"}

VARIABLES
  at,         \* where ShowHelpMessage is
  size,       \* of the version resource of each file
  data_len,   \* the member of each object
  blocks,     \* how many blocks of memory data stands for: 0 or 1
  shown       \* what was printed of each object

helpVars == <<at, size, data_len, blocks, shown>>

HelpInit ==
  /\ at = "exe_info" /\ size \in [Infos -> Sizes]
  /\ data_len = [o \in Infos |-> 0] /\ blocks = [o \in Infos |-> 0]
  /\ shown = [o \in Infos |-> "nothing"]

-----------------------------------------------------------------------------
(* ProductInfo::ProductInfo and LoadVersionInfo                            *)

Built(o) == at' = IF o = "exe_info" THEN "engine_info" ELSE "print"

NoData(o) == data_len' = [data_len EXCEPT ![o] = 0] /\ UNCHANGED blocks

\* GetModuleHandle finds no such module: nobody catches the exception.
NoModule(o) == at' = "terminated" /\ UNCHANGED <<data_len, blocks>>

\* The last error is not 0 behind GetModuleFileName, which failed, or was
\* asked after a call that had left an error there.
NoName(o) == NoData(o) /\ Built(o)

NoResource(o) == size[o] = 0 /\ NoData(o) /\ Built(o)

NoMemory(o) == size[o] > 0 /\ NoData(o) /\ Built(o)

\* GetFileVersionInfo fails: the block is freed again.
LengthKept(o)  == data_len' = [data_len EXCEPT ![o] = size[o]]   \* mutant
LengthReset(o) == data_len' = [data_len EXCEPT ![o] = 0]
NotRead(o) == size[o] > 0 /\ LengthReset(o) /\ UNCHANGED blocks /\ Built(o)

Loaded(o) ==
  /\ size[o] > 0 /\ Built(o)
  /\ data_len' = [data_len EXCEPT ![o] = size[o]]
  /\ blocks' = [blocks EXCEPT ![o] = 1]

Construct(o) ==
  /\ at = o
  /\ \/ NoModule(o) \/ NoName(o) \/ NoResource(o) \/ NoMemory(o)
     \/ NotRead(o) \/ Loaded(o)
  /\ UNCHANGED <<size, shown>>

-----------------------------------------------------------------------------
(* GetProductVersion, and the end of ShowHelpMessage                       *)

\* VerQueryValue may find no such string; the getters have a text for that.
PrintVersions ==
  /\ at = "print" /\ at' = "destroy"
  /\ \E found \in [Infos -> BOOLEAN] :
       shown' = [o \in Infos |-> IF data_len[o] = 0 THEN "default"
                                 ELSE IF blocks[o] = 0 THEN "garbage"
                                 ELSE IF found[o] THEN "version" ELSE "default"]
  /\ UNCHANGED <<size, data_len, blocks>>

\* ~ProductInfo frees data if data_len says so.
Destroy ==
  /\ at = "destroy" /\ at' = "over"
  /\ blocks' = [o \in Infos |-> IF data_len[o] > 0 THEN blocks[o] - 1 ELSE blocks[o]]
  /\ UNCHANGED <<size, data_len, shown>>

ShowHelpMessage == (\E o \in Infos : Construct(o)) \/ PrintVersions \/ Destroy

-----------------------------------------------------------------------------
\* data_len is what both GetString and the destructor go by: no text is read
\* out of a block that is not there, and every block is freed exactly once,
\* however the two constructors went.
BlocksKept ==
  /\ \A o \in Infos : shown[o] # "garbage"
  /\ at = "over" => \A o \in Infos : blocks[o] = 0
=============================================================================
