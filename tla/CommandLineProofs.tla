--------------------------- MODULE CommandLineProofs ---------------------------
(***************************************************************************)
(* What hvcp.exe makes of arguments that are written as the README says,   *)
(* for all names and paths, and what ProductInfo does on every way out.    *)
(***************************************************************************)
EXTENDS CommandLine, SequenceTheorems, TLAPS

-----------------------------------------------------------------------------
(* The help text                                                           *)

HelpTypes ==
  /\ at \in Infos \cup {"print", "destroy", "over", "terminated"}
  /\ size \in [Infos -> Nat] /\ data_len \in [Infos -> Nat]
  /\ blocks \in [Infos -> Nat]

\* data stands for a block exactly where data_len says so, and an object that
\* is not built yet has none.
BlocksAgree ==
  /\ at # "over" => \A o \in Infos : blocks[o] = IF data_len[o] > 0 THEN 1 ELSE 0
  /\ at = "exe_info" => data_len["exe_info"] = 0
  /\ at \in Infos => data_len["engine_info"] = 0

HelpInv == HelpTypes /\ BlocksKept /\ BlocksAgree

LEMMA HelpInitInv == HelpInit => HelpInv
<1> SUFFICES ASSUME HelpInit PROVE HelpInv
  OBVIOUS
<1>1. size \in [Infos -> Nat]
  BY SizesAssumption DEF HelpInit
<1>2. \A o \in Infos : data_len[o] = 0 /\ blocks[o] = 0 /\ shown[o] = "nothing"
  BY DEF HelpInit
<1>3. /\ data_len \in [Infos -> Nat] /\ blocks \in [Infos -> Nat]
      /\ at = "exe_info"
  BY DEF HelpInit
<1>4. HelpTypes
  BY <1>1, <1>3 DEF HelpTypes, Infos
<1> QED BY <1>2, <1>3, <1>4 DEF HelpInv, BlocksKept, BlocksAgree, Infos

\* How a constructor can end: without data, or with a block of its own.
LEMMA Constructed ==
  ASSUME HelpTypes, NEW o \in Infos, Construct(o)
  PROVE  /\ at = o /\ size' = size /\ shown' = shown
         /\ \/ at' = "terminated" /\ UNCHANGED <<data_len, blocks>>
            \/ /\ at' = IF o = "exe_info" THEN "engine_info" ELSE "print"
               /\ \/ data_len' = [data_len EXCEPT ![o] = 0] /\ blocks' = blocks
                  \/ /\ data_len' = [data_len EXCEPT ![o] = size[o]]
                     /\ blocks' = [blocks EXCEPT ![o] = 1] /\ size[o] > 0
BY DEF Construct, NoModule, NoName, NoResource, NoMemory, NotRead, Loaded,
       LengthReset, NoData, Built

LEMMA ConstructKeeps ==
  ASSUME HelpInv, NEW o \in Infos, Construct(o)
  PROVE  HelpInv'
<1> USE DEF HelpInv
<1>1. /\ at = o /\ size' = size /\ shown' = shown
      /\ data_len[o] = 0 /\ blocks[o] = 0 /\ size[o] \in Nat
      /\ o = "exe_info" => data_len["engine_info"] = 0
      /\ \A q \in Infos : blocks[q] = IF data_len[q] > 0 THEN 1 ELSE 0
  BY Constructed DEF BlocksAgree, HelpTypes, Infos
<1>2. CASE at' = "terminated" /\ UNCHANGED <<data_len, blocks>>
  BY <1>1, <1>2 DEF HelpTypes, BlocksKept, BlocksAgree, Infos
<1>3. ASSUME at' = (IF o = "exe_info" THEN "engine_info" ELSE "print"),
             \/ data_len' = [data_len EXCEPT ![o] = 0] /\ blocks' = blocks
             \/ /\ data_len' = [data_len EXCEPT ![o] = size[o]]
                /\ blocks' = [blocks EXCEPT ![o] = 1] /\ size[o] > 0
      PROVE  HelpInv'
  <2>1. /\ data_len' \in [Infos -> Nat] /\ blocks' \in [Infos -> Nat]
        /\ \A q \in Infos \ {o} : data_len'[q] = data_len[q] /\ blocks'[q] = blocks[q]
        /\ blocks'[o] = IF data_len'[o] > 0 THEN 1 ELSE 0
    BY <1>1, <1>3 DEF HelpTypes
  <2>2. HelpTypes'
    BY <1>1, <1>3, <2>1 DEF HelpTypes, Infos
  <2>3. \A q \in Infos : blocks'[q] = IF data_len'[q] > 0 THEN 1 ELSE 0
    BY <1>1, <2>1
  <2>4. /\ at' # "over" /\ at' # "exe_info"
        /\ at' \in Infos => data_len'["engine_info"] = 0
    BY <1>1, <1>3, <2>1 DEF Infos
  <2> QED BY <1>1, <2>2, <2>3, <2>4 DEF BlocksKept, BlocksAgree
<1> QED BY <1>2, <1>3, Constructed, Zenon

LEMMA PrintKeeps == HelpInv /\ PrintVersions => HelpInv'
<1> SUFFICES ASSUME HelpInv, PrintVersions PROVE HelpInv'
  OBVIOUS
<1>1. at = "print" /\ at' = "destroy" /\ UNCHANGED <<size, data_len, blocks>>
  BY DEF PrintVersions
<1>2. \A o \in Infos : blocks[o] = IF data_len[o] > 0 THEN 1 ELSE 0
  BY <1>1 DEF HelpInv, BlocksAgree
<1>3. ASSUME NEW o \in Infos PROVE shown'[o] # "garbage"
  <2>1. data_len[o] \in Nat
    BY DEF HelpInv, HelpTypes
  <2>2. ~(data_len[o] # 0 /\ blocks[o] = 0)
    BY <1>2, <2>1
  <2> QED BY <2>2 DEF PrintVersions
<1> QED BY <1>1, <1>3 DEF HelpInv, HelpTypes, BlocksKept, BlocksAgree, Infos

LEMMA DestroyKeeps == HelpInv /\ Destroy => HelpInv'
<1> SUFFICES ASSUME HelpInv, Destroy PROVE HelpInv'
  OBVIOUS
<1>1. at = "destroy" /\ at' = "over" /\ UNCHANGED <<size, data_len, shown>>
  BY DEF Destroy
<1>2. ASSUME NEW o \in Infos PROVE blocks'[o] = 0
  <2>1. blocks[o] = IF data_len[o] > 0 THEN 1 ELSE 0
    BY <1>1 DEF HelpInv, BlocksAgree
  <2> QED BY <2>1 DEF Destroy
<1>3. blocks' \in [Infos -> Nat]
  <2>1. blocks' = [o \in Infos |-> blocks'[o]]
    BY DEF Destroy
  <2> QED BY <1>2, <2>1
<1> QED BY <1>1, <1>2, <1>3 DEF HelpInv, HelpTypes, BlocksKept, BlocksAgree, Infos

LEMMA HelpStep == HelpInv /\ [ShowHelpMessage]_helpVars => HelpInv'
<1> SUFFICES ASSUME HelpInv, [ShowHelpMessage]_helpVars PROVE HelpInv'
  OBVIOUS
<1>1. CASE UNCHANGED helpVars
  BY <1>1 DEF helpVars, HelpInv, HelpTypes, BlocksKept, BlocksAgree
<1> QED BY <1>1, ConstructKeeps, PrintKeeps, DestroyKeeps DEF ShowHelpMessage

\* A step of wmain is one of ShowHelpMessage, or has nothing to do with it.
LEMMA HelpApart == [Next]_vars => [ShowHelpMessage]_helpVars
BY DEF Next, vars, cliVars, ShowHelp, Help, HelpShown, MatchSrc, MatchDest,
       TwoRemotePaths, TwoLocalPaths, Call, Result

LEMMA HelpAlways == Spec => []HelpInv
<1>1. Init => HelpInv
  BY HelpInitInv DEF Init
<1>2. HelpInv /\ [Next]_vars => HelpInv'
  BY HelpStep, HelpApart
<1> QED BY <1>1, <1>2, PTL DEF Spec

\* ProductInfo never reads a string out of a block it does not have, and frees
\* every block it has, however its constructors went.
THEOREM BlocksKeptAlways == Spec => []BlocksKept
<1>1. HelpInv => BlocksKept
  BY DEF HelpInv
<1> QED BY <1>1, HelpAlways, PTL
-----------------------------------------------------------------------------
(* The arguments                                                           *)

\* Where the user and the name of the virtual machine end in the argument
\* that stands for the remote side of a wish.
UserEnd(w) == IF w.user = <<>> THEN 0 ELSE Len(w.user) + 1
VMEnd(w)   == UserEnd(w) + Len(w.vm) + 1
Meant(w)   == <<UserEnd(w), VMEnd(w)>>

LEMMA WishParts ==
  ASSUME NEW w \in Wishes
  PROVE  /\ w.user \in Users \cup {<<>>} /\ w.vm \in VMs
         /\ w.path \in GuestPaths /\ w.host \in HostPaths
         /\ w.op \in {"upload", "download"} /\ (w.op = "download" => w.user = <<>>)
BY DEF Wishes

\* The name of a user, and what a name and a path are made of.
LEMMA Names ==
  ASSUME NEW w \in Wishes
  PROVE  /\ w.user \in Seq(Characters) /\ w.vm \in Seq(Characters) /\ w.path \in Seq(Characters)
         /\ Len(w.vm) \in Nat \ {0} /\ Len(w.path) \in Nat \ {0} /\ Len(w.user) \in Nat
         /\ w.user # <<>> => Len(w.user) > 0
         /\ \A k \in 1..Len(w.vm) : w.vm[k] \notin {"@", ":"}
         /\ \A k \in 1..Len(w.user) : w.user[k] \notin {"@", ":"}
         /\ \A k \in 1..Len(w.path) : w.path[k] # Backslash
<1>1. /\ w.user \in Users \cup {<<>>} /\ w.vm \in VMs /\ w.path \in GuestPaths
  BY WishParts
<1>2. /\ w.vm \in Seq(Characters) /\ w.vm # <<>>
      /\ \A k \in 1..Len(w.vm) : w.vm[k] \notin {"@", ":"}
  BY <1>1, ArgumentsAssumption
<1>3. /\ w.path \in Seq(Characters) /\ w.path # <<>>
      /\ \A k \in 1..Len(w.path) : w.path[k] # Backslash
  BY <1>1, ArgumentsAssumption
<1>4. /\ w.user \in Seq(Characters)
      /\ \A k \in 1..Len(w.user) : w.user[k] \notin {"@", ":"}
  <2>1. CASE w.user \in Users
    BY <2>1, ArgumentsAssumption
  <2>2. CASE w.user = <<>>
    <3>1. Len(<<>>) = 0 /\ <<>> \in Seq(Characters)
      BY EmptySeq
    <3> QED BY <2>2, <3>1
  <2> QED BY <1>1, <2>1, <2>2
<1> QED BY <1>2, <1>3, <1>4, EmptySeq

\* Where the characters of a concatenation come from.
LEMMA Concat ==
  ASSUME NEW s \in Seq(Characters), NEW t \in Seq(Characters)
  PROVE  /\ s \o t \in Seq(Characters) /\ Len(s \o t) = Len(s) + Len(t)
         /\ \A k \in 1..Len(s) : (s \o t)[k] = s[k]
         /\ \A k \in Len(s) + 1..Len(s) + Len(t) : (s \o t)[k] = t[k - Len(s)]
<1>1. Len(s) \in Nat /\ Len(t) \in Nat
  OBVIOUS
<1>2. /\ s \o t \in Seq(Characters) /\ Len(s \o t) = Len(s) + Len(t)
      /\ \A k \in 1..Len(s) + Len(t) :
           (s \o t)[k] = IF k <= Len(s) THEN s[k] ELSE t[k - Len(s)]
  BY ConcatProperties
<1> QED BY <1>1, <1>2

\* The argument for the remote side, character by character.
LEMMA RemoteParts ==
  ASSUME NEW w \in Wishes
  PROVE  /\ Remote(w) \in Seq(Characters)
         /\ UserEnd(w) \in Nat /\ UserEnd(w) # 1
         /\ VMEnd(w) \in Nat /\ VMEnd(w) = UserEnd(w) + Len(w.vm) + 1
         /\ Len(Remote(w)) \in Nat /\ Len(Remote(w)) = VMEnd(w) + Len(w.path)
         /\ \A k \in 1..UserEnd(w) - 1 : k <= Len(w.user) /\ Remote(w)[k] = w.user[k]
         /\ UserEnd(w) > 0 => UserEnd(w) = Len(w.user) + 1 /\ Remote(w)[UserEnd(w)] = "@"
         /\ \A k \in UserEnd(w) + 1..VMEnd(w) - 1 :
              Remote(w)[k] = w.vm[k - UserEnd(w)]
         /\ Remote(w)[VMEnd(w)] = ":"
         /\ \A k \in VMEnd(w) + 1..Len(Remote(w)) :
              Remote(w)[k] = w.path[k - VMEnd(w)]
<1> DEFINE u == IF w.user = <<>> THEN <<>> ELSE Append(w.user, "@")
           uv == u \o w.vm
           uvc == uv \o <<":">>
           i == UserEnd(w)
           j == VMEnd(w)
<1>1. /\ w.user \in Seq(Characters) /\ w.vm \in Seq(Characters) /\ w.path \in Seq(Characters)
      /\ Len(w.vm) \in Nat \ {0} /\ Len(w.path) \in Nat \ {0} /\ Len(w.user) \in Nat
      /\ w.user # <<>> => Len(w.user) > 0
  BY Names
<1>2. /\ u \in Seq(Characters) /\ Len(u) = i /\ i \in Nat /\ i # 1
      /\ \A k \in 1..i - 1 : k <= Len(w.user) /\ u[k] = w.user[k]
      /\ i > 0 => i = Len(w.user) + 1 /\ u[i] = "@"
  <2>1. CASE w.user = <<>>
    <3>1. Len(<<>>) = 0 /\ <<>> \in Seq(Characters)
      BY EmptySeq
    <3> QED BY <2>1, <3>1 DEF UserEnd
  <2>2. CASE w.user # <<>>
    <3>1. "@" \in Characters
      BY ArgumentsAssumption
    <3>2. /\ Append(w.user, "@") \in Seq(Characters)
          /\ Len(Append(w.user, "@")) = Len(w.user) + 1
          /\ \A k \in 1..Len(w.user) : Append(w.user, "@")[k] = w.user[k]
          /\ Append(w.user, "@")[Len(w.user) + 1] = "@"
      BY <1>1, <3>1, AppendProperties
    <3>3. u = Append(w.user, "@") /\ i = Len(w.user) + 1
      BY <2>2 DEF UserEnd
    <3> HIDE DEF u, i
    <3> QED BY <1>1, <2>2, <3>2, <3>3
  <2> QED BY <2>1, <2>2
<1>3. j \in Nat /\ j = i + Len(w.vm) + 1
  BY <1>1, <1>2 DEF VMEnd
<1>4. Remote(w) = uvc \o w.path
  BY DEF Remote
<1> HIDE DEF u, i, j
<1>5. /\ uv \in Seq(Characters) /\ Len(uv) = j - 1
      /\ \A k \in 1..i : uv[k] = u[k]
      /\ \A k \in i + 1..j - 1 : uv[k] = w.vm[k - i]
  <2>1. /\ uv \in Seq(Characters) /\ Len(uv) = Len(u) + Len(w.vm)
        /\ \A k \in 1..Len(u) : uv[k] = u[k]
        /\ \A k \in Len(u) + 1..Len(u) + Len(w.vm) : uv[k] = w.vm[k - Len(u)]
    BY <1>1, <1>2, Concat
  <2> HIDE DEF uv
  <2>2. Len(u) = i /\ j - 1 = i + Len(w.vm)
    BY <1>1, <1>2, <1>3
  <2> QED BY <2>1, <2>2
<1> HIDE DEF uv
<1>6. /\ uvc \in Seq(Characters) /\ Len(uvc) = j /\ uvc[j] = ":"
      /\ \A k \in 1..j - 1 : uvc[k] = uv[k]
  <2>1. <<":">> \in Seq(Characters) /\ Len(<<":">>) = 1 /\ <<":">>[1] = ":"
    BY ArgumentsAssumption
  <2>2. /\ uvc \in Seq(Characters) /\ Len(uvc) = Len(uv) + 1
        /\ \A k \in 1..Len(uv) : uvc[k] = uv[k]
        /\ \A k \in Len(uv) + 1..Len(uv) + 1 : uvc[k] = <<":">>[k - Len(uv)]
    BY <1>5, <2>1, Concat
  <2> HIDE DEF uvc
  <2>3. Len(uv) = j - 1 /\ j \in Nat /\ j \in j..j
    BY <1>3, <1>5
  <2>4. uvc[j] = <<":">>[j - (j - 1)] /\ j - (j - 1) = 1
    BY <2>2, <2>3
  <2> QED BY <2>1, <2>2, <2>3, <2>4
<1> HIDE DEF uvc
<1>7. /\ Remote(w) \in Seq(Characters) /\ Len(Remote(w)) = j + Len(w.path)
      /\ \A k \in 1..j : Remote(w)[k] = uvc[k]
      /\ \A k \in j + 1..j + Len(w.path) : Remote(w)[k] = w.path[k - j]
  <2>1. /\ uvc \o w.path \in Seq(Characters)
        /\ Len(uvc \o w.path) = Len(uvc) + Len(w.path)
        /\ \A k \in 1..Len(uvc) : (uvc \o w.path)[k] = uvc[k]
        /\ \A k \in Len(uvc) + 1..Len(uvc) + Len(w.path) :
             (uvc \o w.path)[k] = w.path[k - Len(uvc)]
    BY <1>1, <1>6, Concat
  <2> QED BY <1>4, <1>6, <2>1
<1>8. /\ i < j /\ \A k \in 1..i - 1 : k \in 1..i /\ k \in 1..j - 1 /\ k \in 1..j
      /\ i > 0 => i \in 1..i /\ i \in 1..j - 1 /\ i \in 1..j
  BY <1>1, <1>2, <1>3
<1>9. /\ \A k \in 1..i - 1 : k <= Len(w.user) /\ Remote(w)[k] = w.user[k]
      /\ i > 0 => i = Len(w.user) + 1 /\ Remote(w)[i] = "@"
  <2>1. ASSUME NEW k \in 1..i - 1
        PROVE  k <= Len(w.user) /\ Remote(w)[k] = w.user[k]
    <3>1. u[k] = w.user[k] /\ uv[k] = u[k] /\ uvc[k] = uv[k] /\ Remote(w)[k] = uvc[k]
      BY <1>2, <1>5, <1>6, <1>7, <1>8
    <3> QED BY <1>2, <3>1
  <2>2. ASSUME i > 0 PROVE i = Len(w.user) + 1 /\ Remote(w)[i] = "@"
    <3>1. u[i] = "@" /\ uv[i] = u[i] /\ uvc[i] = uv[i] /\ Remote(w)[i] = uvc[i]
      BY <1>2, <1>5, <1>6, <1>7, <1>8, <2>2
    <3> QED BY <1>2, <2>2, <3>1
  <2> QED BY <2>1, <2>2
<1>10. \A k \in i + 1..j - 1 : Remote(w)[k] = w.vm[k - i]
  <2>1. \A k \in i + 1..j - 1 : k \in 1..j - 1 /\ k \in 1..j
    BY <1>2, <1>3
  <2> QED BY <1>5, <1>6, <1>7, <2>1
<1>11. Remote(w)[j] = ":"
  <2>1. j \in 1..j
    BY <1>1, <1>2, <1>3
  <2> QED BY <1>6, <1>7, <2>1
<1>12. \A k \in j + 1..Len(Remote(w)) : Remote(w)[k] = w.path[k - j]
  BY <1>7
<1> QED BY <1>2, <1>3, <1>7, <1>9, <1>10, <1>11, <1>12 DEF i, j
-----------------------------------------------------------------------------
(* The pattern                                                             *)

\* The members of Matches, one conjunct after the other.
LEMMA MatchFields ==
  ASSUME NEW s, NEW m \in Matches(s)
  PROVE  /\ m = <<m[1], m[2]>> /\ m[1] \in 0..Len(s) /\ m[2] \in 1..Len(s)
         /\ m[1] = 0 \/ (m[1] > 1 /\ s[m[1]] = "@")
         /\ m[2] > m[1] + 1 /\ s[m[2]] = ":" /\ m[2] < Len(s)
         /\ \A k \in m[2] + 1..Len(s) : s[k] # Backslash
BY DEF Matches, PathOK

\* A path of the host is never taken for a remote one: the colon of its drive
\* has a backslash behind it.
LEMMA HostIsLocal ==
  ASSUME NEW p \in HostPaths
  PROVE  Matches(p) = {}
<1> SUFFICES ASSUME NEW m \in Matches(p) PROVE FALSE
  OBVIOUS
<1>1. /\ m[2] \in 1..Len(p) /\ p[m[2]] = ":"
      /\ \A k \in m[2] + 1..Len(p) : p[k] # Backslash
  BY MatchFields
<1>2. \E k \in m[2] + 1..Len(p) : p[k] = Backslash
  BY <1>1, ArgumentsAssumption
<1> QED BY <1>1, <1>2

\* What is meant is one way to match the pattern.
LEMMA MeantMatches ==
  ASSUME NEW w \in Wishes
  PROVE  Meant(w) \in Matches(Remote(w))
<1> DEFINE s == Remote(w)
           i == UserEnd(w)
           j == VMEnd(w)
           u == w.user
           v == w.vm
           p == w.path
<1>1. /\ i \in Nat /\ i # 1 /\ j \in Nat /\ j = i + Len(v) + 1
      /\ Len(s) \in Nat /\ Len(s) = j + Len(p)
  BY RemoteParts
<1>2. Len(v) \in Nat \ {0} /\ Len(p) \in Nat \ {0}
  BY Names
<1>9. s[j] = ":" /\ (i > 0 => s[i] = "@")
  BY RemoteParts
<1>10. \A k \in j + 1..Len(s) : s[k] = p[k - j]
  BY RemoteParts
<1>11. \A k \in 1..Len(p) : p[k] # Backslash
  BY Names
<1>3. Meant(w) = <<i, j>>
  BY DEF Meant
<1> HIDE DEF s, i, j, u, v, p
<1>4. <<i, j>> \in (0..Len(s)) \X (1..Len(s))
  BY <1>1, <1>2
<1>5. i = 0 \/ (i > 1 /\ s[i] = "@")
  BY <1>1, <1>9
<1>6. j > i + 1 /\ j < Len(s)
  BY <1>1, <1>2
<1>7. ASSUME NEW k \in j + 1..Len(s) PROVE s[k] # Backslash
  <2>1. k - j \in 1..Len(p)
    BY <1>1, <1>2
  <2> QED BY <1>10, <1>11, <2>1
<1>8. <<i, j>> \in Matches(s)
  BY <1>4, <1>5, <1>6, <1>7, <1>9 DEF Matches, PathOK
<1> QED BY <1>3, <1>8 DEF s

\* It comes before every other one, unless the path makes it ambiguous: there
\* is no at sign and no colon in a name.
LEMMA MeantBefore ==
  ASSUME NEW w \in Wishes, ~Ambiguous(w), NEW n \in Matches(Remote(w))
  PROVE  Before(Meant(w), n)
<1> DEFINE s == Remote(w)
           i == UserEnd(w)
           j == VMEnd(w)
           u == w.user
           v == w.vm
           p == w.path
<1>1. /\ i \in Nat /\ i # 1 /\ j \in Nat /\ j = i + Len(v) + 1
      /\ Len(s) \in Nat /\ Len(s) = j + Len(p) /\ s[j] = ":"
      /\ i > 0 => i = Len(u) + 1
  BY RemoteParts
<1>2. /\ Len(v) \in Nat \ {0} /\ Len(p) \in Nat \ {0} /\ Len(u) \in Nat
  BY Names
<1>11. \A k \in 1..i - 1 : s[k] = u[k]
  BY RemoteParts
<1>12. \A k \in i + 1..j - 1 : s[k] = v[k - i]
  BY RemoteParts
<1>13. \A k \in j + 1..Len(s) : s[k] = p[k - j]
  BY RemoteParts
<1>14. /\ \A k \in 1..Len(v) : v[k] \notin {"@", ":"}
       /\ \A k \in 1..Len(u) : u[k] \notin {"@", ":"}
  BY Names
<1>3. /\ n[1] \in 0..Len(s) /\ n[2] \in 1..Len(s)
      /\ n[1] = 0 \/ (n[1] > 1 /\ s[n[1]] = "@")
      /\ n[2] > n[1] + 1 /\ s[n[2]] = ":" /\ n[2] < Len(s)
  BY MatchFields
<1>4. Meant(w)[1] = i /\ Meant(w)[2] = j
  BY DEF Meant
<1>5. i = 0 <=> u = <<>>
  BY Names DEF UserEnd
<1>6. Ambiguous(w) <=> /\ u = <<>>
                       /\ \E a, b \in 1..Len(p) :
                            a + 1 < b /\ b < Len(p) /\ p[a] = "@" /\ p[b] = ":"
  BY DEF Ambiguous
<1> HIDE DEF s, i, j, u, v, p
\* No name has one of the two characters.
<1>7. ASSUME NEW k \in i + 1..j - 1 PROVE s[k] \notin {"@", ":"}
  <2>1. k - i \in 1..Len(v)
    BY <1>1, <1>2
  <2> QED BY <1>12, <1>14, <2>1
<1>8. ASSUME NEW k \in 1..i - 1 PROVE s[k] \notin {"@", ":"}
  <2>1. k \in 1..Len(u)
    BY <1>1, <1>2
  <2> QED BY <1>11, <1>14, <2>1
<1>9. ASSUME n[1] = i PROVE j <= n[2]
  <2> DEFINE b == n[2]
  <2>1. b \notin i + 1..j - 1
    BY <1>3, <1>7
  <2>2. i \in Nat /\ j \in Nat /\ b \in Nat /\ b > i + 1
    BY <1>1, <1>3, <1>9
  <2> HIDE DEF b
  <2>3. j <= b
    BY <2>1, <2>2
  <2> QED BY <2>3 DEF b
<1>10. ASSUME n[1] # i PROVE i > 0 /\ (n[1] = 0 \/ i < n[1])
  <2>1. CASE i > 0
    <3> DEFINE a == n[1]
    <3>1. a = 0 \/ a \notin 1..i - 1
      BY <1>3, <1>8
    <3>2. a \in Nat /\ a # i /\ i \in Nat
      BY <1>1, <1>3, <1>10
    <3> HIDE DEF a
    <3>3. a = 0 \/ i < a
      BY <3>1, <3>2
    <3> QED BY <2>1, <3>3 DEF a
  <2>2. CASE i = 0
    <3>1. n[1] > 1 /\ s[n[1]] = "@" /\ n[1] \in Nat
      BY <1>3, <1>10, <2>2
    <3>2. n[1] \notin 1..j - 1
      BY <1>7, <2>2, <3>1
    <3>3. n[1] # j
      BY <1>1, <3>1
    <3>4. n[1] \in j + 1..Len(s) /\ n[2] \in j + 1..Len(s)
      <4> DEFINE a   == n[1]
                 b   == n[2]
                 len == Len(s)
      <4>1. a \in 0..len /\ a > 1 /\ a \notin 1..j - 1 /\ a # j
        BY <1>3, <3>1, <3>2, <3>3
      <4>2. b \in 1..len /\ b > a + 1 /\ j \in Nat /\ len \in Nat
        BY <1>1, <1>3
      <4> HIDE DEF a, b, len
      <4>3. a \in j + 1..len /\ b \in j + 1..len
        BY <4>1, <4>2
      <4> QED BY <4>3 DEF a, b, len
    <3>5. /\ n[1] - j \in 1..Len(p) /\ n[2] - j \in 1..Len(p)
          /\ (n[1] - j) + 1 < n[2] - j /\ n[2] - j < Len(p)
      <4>1. \A a, b \in Nat : /\ a \in j + 1..Len(s) /\ b \in j + 1..Len(s)
                              /\ b > a + 1 /\ b < Len(s)
              => /\ a - j \in 1..Len(p) /\ b - j \in 1..Len(p)
                 /\ (a - j) + 1 < b - j /\ b - j < Len(p)
        BY <1>1, <1>2
      <4>2. n[1] \in Nat /\ n[2] \in Nat
        BY <1>3, <3>1
      <4> QED BY <1>3, <3>4, <4>1, <4>2
    <3>6. p[n[1] - j] = "@" /\ p[n[2] - j] = ":"
      BY <1>3, <1>13, <3>1, <3>4
    <3> QED BY <1>5, <1>6, <2>2, <3>5, <3>6
  <2> QED BY <1>1, <2>1, <2>2
<1> QED BY <1>4, <1>9, <1>10 DEF Before

\* So it is what regex_match finds.
LEMMA FoundMeant ==
  ASSUME NEW w \in Wishes, ~Ambiguous(w)
  PROVE  Matches(Remote(w)) # {} /\ Found(Remote(w)) = Meant(w)
<1> DEFINE s == Remote(w)
<1>1. Meant(w) \in Matches(s)
  BY MeantMatches
<1>2. \A n \in Matches(s) : Before(Meant(w), n)
  BY MeantBefore
<1>3. Found(s) \in Matches(s) /\ \A n \in Matches(s) : Before(Found(s), n)
  <2> HIDE DEF s
  <2> QED BY <1>1, <1>2 DEF Found
<1>4. Before(Meant(w), Found(s)) /\ Before(Found(s), Meant(w))
  BY <1>1, <1>2, <1>3
<1>5. /\ Found(s) = <<Found(s)[1], Found(s)[2]>> /\ Found(s)[1] \in Nat /\ Found(s)[2] \in Nat
  <2>1. /\ Found(s) = <<Found(s)[1], Found(s)[2]>>
        /\ Found(s)[1] \in 0..Len(s) /\ Found(s)[2] \in 1..Len(s)
    BY <1>3, MatchFields
  <2> QED BY <2>1
<1>6. /\ Meant(w)[1] \in Nat /\ Meant(w)[2] \in Nat
      /\ Meant(w) = <<Meant(w)[1], Meant(w)[2]>>
  BY RemoteParts DEF Meant
<1> HIDE DEF s
<1>7. Found(s)[1] = Meant(w)[1] /\ Found(s)[2] = Meant(w)[2]
  BY <1>4, <1>5, <1>6 DEF Before
<1> QED BY <1>1, <1>5, <1>6, <1>7 DEF s

\* The three parts of what is found are those of the wish.
LEMMA FoundParts ==
  ASSUME NEW w \in Wishes
  PROVE  /\ SubSeq(Remote(w), 1, Meant(w)[1] - 1) = w.user
         /\ SubSeq(Remote(w), Meant(w)[1] + 1, Meant(w)[2] - 1) = w.vm
         /\ SubSeq(Remote(w), Meant(w)[2] + 1, Len(Remote(w))) = w.path
<1> DEFINE s == Remote(w)
           i == UserEnd(w)
           j == VMEnd(w)
           u == w.user
           v == w.vm
           p == w.path
<1>1. /\ s \in Seq(Characters) /\ i \in Nat /\ i # 1 /\ j \in Nat
      /\ j = i + Len(v) + 1 /\ Len(s) \in Nat /\ Len(s) = j + Len(p)
      /\ i > 0 => i = Len(u) + 1
  BY RemoteParts
<1>11. \A k \in 1..i - 1 : s[k] = u[k]
  BY RemoteParts
<1>12. \A k \in i + 1..j - 1 : s[k] = v[k - i]
  BY RemoteParts
<1>13. \A k \in j + 1..Len(s) : s[k] = p[k - j]
  BY RemoteParts
<1>2. /\ u \in Seq(Characters) /\ v \in Seq(Characters) /\ p \in Seq(Characters)
      /\ Len(v) \in Nat \ {0} /\ Len(p) \in Nat \ {0} /\ Len(u) \in Nat
  BY Names
<1>3. Meant(w)[1] = i /\ Meant(w)[2] = j
  BY DEF Meant
<1>4. i = 0 => u = <<>>
  BY <1>2 DEF UserEnd
<1> HIDE DEF s, i, j, u, v, p
<1>5. \A k \in 1..Len(s) : s[k] \in Characters
  BY <1>1, ElementOfSeq
<1>9. Len(<<>>) = 0
  OBVIOUS
<1>6. SubSeq(s, 1, i - 1) = u
  <2>1. Len(u) = IF i > 0 THEN i - 1 ELSE 0
    BY <1>1, <1>2, <1>4, <1>9
  <2>2. \A k \in 1..i - 1 : s[k] \in Characters
    <3>1. \A k \in 1..i - 1 : k \in 1..Len(s)
      BY <1>1, <1>2
    <3> QED BY <1>5, <3>1
  <2>3. /\ SubSeq(s, 1, i - 1) \in Seq(Characters)
        /\ Len(SubSeq(s, 1, i - 1)) = IF 1 <= i - 1 THEN (i - 1) - 1 + 1 ELSE 0
        /\ \A k \in 1..(i - 1) - 1 + 1 : SubSeq(s, 1, i - 1)[k] = s[1 + k - 1]
    <3>1. 1 \in Int /\ i - 1 \in Int
      BY <1>1
    <3> QED BY <2>2, <3>1, SubSeqProperties
  <2>4. Len(SubSeq(s, 1, i - 1)) = Len(u)
    BY <1>1, <2>1, <2>3
  <2>5. ASSUME NEW k \in 1..Len(SubSeq(s, 1, i - 1))
        PROVE  SubSeq(s, 1, i - 1)[k] = u[k]
    <3>1. k \in 1..i - 1 /\ k \in 1..(i - 1) - 1 + 1 /\ 1 + k - 1 = k
      BY <1>1, <2>1, <2>4
    <3> QED BY <1>11, <2>3, <3>1
  <2> QED BY <1>2, <2>3, <2>4, <2>5, SeqEqual
<1>7. SubSeq(s, i + 1, j - 1) = v
  <2>1. \A k \in i + 1..j - 1 : s[k] \in Characters
    <3>1. \A k \in i + 1..j - 1 : k \in 1..Len(s)
      BY <1>1, <1>2
    <3> QED BY <1>5, <3>1
  <2>2. /\ SubSeq(s, i + 1, j - 1) \in Seq(Characters)
        /\ Len(SubSeq(s, i + 1, j - 1))
             = IF i + 1 <= j - 1 THEN (j - 1) - (i + 1) + 1 ELSE 0
        /\ \A k \in 1..(j - 1) - (i + 1) + 1 :
             SubSeq(s, i + 1, j - 1)[k] = s[(i + 1) + k - 1]
    <3>1. i + 1 \in Int /\ j - 1 \in Int
      BY <1>1
    <3> QED BY <2>1, <3>1, SubSeqProperties
  <2>3. Len(SubSeq(s, i + 1, j - 1)) = Len(v)
    BY <1>1, <1>2, <2>2
  <2>4. ASSUME NEW k \in 1..Len(SubSeq(s, i + 1, j - 1))
        PROVE  SubSeq(s, i + 1, j - 1)[k] = v[k]
    <3>1. /\ k \in 1..(j - 1) - (i + 1) + 1 /\ (i + 1) + k - 1 = i + k
          /\ i + k \in i + 1..j - 1 /\ (i + k) - i = k
      BY <1>1, <1>2, <2>3
    <3> QED BY <1>12, <2>2, <3>1
  <2> QED BY <1>2, <2>2, <2>3, <2>4, SeqEqual
<1>8. SubSeq(s, j + 1, Len(s)) = p
  <2>1. \A k \in j + 1..Len(s) : s[k] \in Characters
    <3>1. \A k \in j + 1..Len(s) : k \in 1..Len(s)
      BY <1>1, <1>2
    <3> QED BY <1>5, <3>1
  <2>2. /\ SubSeq(s, j + 1, Len(s)) \in Seq(Characters)
        /\ Len(SubSeq(s, j + 1, Len(s)))
             = IF j + 1 <= Len(s) THEN Len(s) - (j + 1) + 1 ELSE 0
        /\ \A k \in 1..Len(s) - (j + 1) + 1 :
             SubSeq(s, j + 1, Len(s))[k] = s[(j + 1) + k - 1]
    <3>1. j + 1 \in Int /\ Len(s) \in Int
      BY <1>1, <1>2
    <3> QED BY <2>1, <3>1, SubSeqProperties
  <2>3. Len(SubSeq(s, j + 1, Len(s))) = Len(p)
    BY <1>1, <1>2, <2>2
  <2>4. ASSUME NEW k \in 1..Len(SubSeq(s, j + 1, Len(s)))
        PROVE  SubSeq(s, j + 1, Len(s))[k] = p[k]
    <3>1. /\ k \in 1..Len(s) - (j + 1) + 1 /\ (j + 1) + k - 1 = j + k
          /\ j + k \in j + 1..Len(s) /\ (j + k) - j = k
      BY <1>1, <1>2, <2>3
    <3> QED BY <1>13, <2>2, <3>1
  <2> QED BY <1>2, <2>2, <2>3, <2>4, SeqEqual
<1> QED BY <1>3, <1>6, <1>7, <1>8 DEF s, u, v, p
-----------------------------------------------------------------------------
(* wmain                                                                   *)

\* The names and the path that are found are those of the wish.
Understood == user = wish.user /\ vm = wish.vm /\ remote_path = wish.path

\* What wmain knows of a wish that is not ambiguous, at each of its parts.
Knows ==
  /\ argv = Typed(wish)
  /\ next \in {"argc", "dest", "call"} => call = <<>>
  /\ next = "argc" => src_is_remote = FALSE /\ dest_is_remote = FALSE
  /\ next = "dest" => dest_is_remote = FALSE
  /\ next \in {"dest", "call"} =>
       IF wish.op = "download" THEN src_is_remote = TRUE /\ Understood
                               ELSE src_is_remote = FALSE
  /\ next = "call" =>
       IF wish.op = "upload" THEN dest_is_remote = TRUE /\ Understood
                             ELSE dest_is_remote = FALSE
  /\ call = <<>> \/ call = wish

AskedInv == wish = <<>> \/ (wish \in Wishes /\ (Ambiguous(wish) \/ Knows))

\* A wish is what it is asked for with.
LEMMA WishIs ==
  ASSUME NEW w \in Wishes
  PROVE  /\ w.op = "upload" =>
              w = [op |-> "upload", user |-> w.user, vm |-> w.vm, path |-> w.path,
                   host |-> w.host]
         /\ w.op = "download" =>
              w = [op |-> "download", user |-> <<>>, vm |-> w.vm, path |-> w.path,
                   host |-> w.host]
         /\ w.op = "upload" \/ w.op = "download"
<1>1. CASE w \in [op : {"upload"}, user : Users \cup {<<>>}, vm : VMs,
                  path : GuestPaths, host : HostPaths]
  BY <1>1
<1>2. CASE w \in [op : {"download"}, user : {<<>>}, vm : VMs,
                  path : GuestPaths, host : HostPaths]
  BY <1>2
<1> QED BY <1>1, <1>2 DEF Wishes

\* Which of the two arguments is the remote one.
LEMMA TypedArgs ==
  ASSUME NEW w \in Wishes
  PROVE  /\ Len(Typed(w)) = 2
         /\ w.op = "upload" => Typed(w)[1] = w.host /\ Typed(w)[2] = Remote(w)
         /\ w.op = "download" => Typed(w)[1] = Remote(w) /\ Typed(w)[2] = w.host
<1>1. w.op = "upload" \/ w.op = "download"
  BY WishIs
<1>2. \A x, y : Len(<<x, y>>) = 2 /\ <<x, y>>[1] = x /\ <<x, y>>[2] = y
  OBVIOUS
<1> QED BY <1>1, <1>2 DEF Typed

\* The remote argument is taken apart as it was meant, the local one left alone.
LEMMA RemoteFound ==
  ASSUME NEW w \in Wishes, ~Ambiguous(w), NEW is, NEW is1,
         IF Matches(Remote(w)) = {}
           THEN is1 = is /\ UNCHANGED <<user, vm, remote_path>>
           ELSE /\ is1 = TRUE
                /\ user' = SubSeq(Remote(w), 1, Found(Remote(w))[1] - 1)
                /\ vm' = SubSeq(Remote(w), Found(Remote(w))[1] + 1, Found(Remote(w))[2] - 1)
                /\ remote_path' = SubSeq(Remote(w), Found(Remote(w))[2] + 1, Len(Remote(w)))
  PROVE  is1 = TRUE /\ user' = w.user /\ vm' = w.vm /\ remote_path' = w.path
BY FoundMeant, FoundParts, Zenon

\* Every part of wmain, for a wish that is not ambiguous.
LEMMA AskedStep == AskedInv /\ [Next]_vars => AskedInv'
<1> SUFFICES ASSUME AskedInv, [Next]_vars PROVE AskedInv'
  OBVIOUS
<1>1. wish' = wish
  BY DEF Next, vars, cliVars, ShowHelp, Help, HelpShown, MatchSrc, MatchDest,
         TwoRemotePaths, TwoLocalPaths, Call, Result
<1>2. SUFFICES ASSUME wish \in Wishes, ~Ambiguous(wish), Knows PROVE Knows'
  <2>1. Ambiguous(wish') <=> Ambiguous(wish)
    BY <1>1
  <2> QED BY <1>1, <2>1 DEF AskedInv
<1>3. wish.op = "upload" \/ wish.op = "download"
  BY <1>2, WishIs
<1>4. /\ wish.host \in HostPaths /\ Matches(wish.host) = {}
      /\ argv = Typed(wish) /\ Len(argv) = 2
      /\ wish.op = "upload" => argv[1] = wish.host /\ argv[2] = Remote(wish)
      /\ wish.op = "download" => argv[1] = Remote(wish) /\ argv[2] = wish.host
  BY <1>2, WishParts, HostIsLocal, TypedArgs DEF Knows
<1>5. CASE MatchSrc
  <2>1. /\ next = "argc" /\ next' = "dest" /\ call' = call /\ argv' = argv
        /\ dest_is_remote' = FALSE /\ src_is_remote = FALSE /\ call = <<>>
    BY <1>2, <1>5 DEF MatchSrc, Knows
  <2>2. MatchRemote(argv[1], src_is_remote)
    BY <1>5 DEF MatchSrc
  <2>3. CASE wish.op = "upload"
    <3>1. src_is_remote' = FALSE
      BY <1>4, <2>1, <2>2, <2>3 DEF MatchRemote
    <3> QED BY <1>1, <1>4, <2>1, <2>3, <3>1 DEF Knows
  <2>4. CASE wish.op = "download"
    <3>1. src_is_remote' = TRUE /\ Understood'
      BY <1>1, <1>2, <1>4, <2>2, <2>4, RemoteFound, Zenon DEF MatchRemote, Understood
    <3> QED BY <1>1, <1>4, <2>1, <2>4, <3>1 DEF Knows
  <2> QED BY <1>3, <2>3, <2>4
<1>6. CASE MatchDest
  <2>1. /\ next = "dest" /\ next' = "call" /\ call' = call /\ argv' = argv
        /\ src_is_remote' = src_is_remote /\ dest_is_remote = FALSE /\ call = <<>>
    BY <1>2, <1>6 DEF MatchDest, Knows
  <2>2. MatchRemote(argv[2], dest_is_remote)
    BY <1>6 DEF MatchDest
  <2>3. CASE wish.op = "upload"
    <3>1. dest_is_remote' = TRUE /\ Understood' /\ src_is_remote = FALSE
      <4>1. src_is_remote = FALSE
        BY <1>2, <2>1, <2>3 DEF Knows
      <4> QED BY <1>1, <1>2, <1>4, <2>2, <2>3, <4>1, RemoteFound, Zenon
              DEF MatchRemote, Understood
    <3> QED BY <1>1, <1>4, <2>1, <2>3, <3>1 DEF Knows
  <2>4. CASE wish.op = "download"
    <3>1. /\ dest_is_remote' = FALSE /\ UNCHANGED <<user, vm, remote_path>>
      BY <1>4, <2>1, <2>2, <2>4 DEF MatchRemote
    <3>2. src_is_remote = TRUE /\ Understood
      BY <1>2, <2>1, <2>4 DEF Knows
    <3> QED BY <1>1, <1>4, <2>1, <2>4, <3>1, <3>2 DEF Knows, Understood
  <2> QED BY <1>3, <2>3, <2>4
<1>7. CASE Call
  <2>1. next = "call" /\ next' = "result" /\ argv' = argv
    BY <1>7 DEF Call
  <2>2. call' = wish
    <3>1. CASE wish.op = "upload"
      <4>1. Understood /\ src_is_remote = FALSE
        BY <1>2, <2>1, <3>1 DEF Knows
      <4>2. call' = [op |-> "upload", user |-> wish.user, vm |-> wish.vm,
                     path |-> wish.path, host |-> wish.host]
        BY <1>4, <1>7, <3>1, <4>1
        DEF Call, CopyFileFromGuest, CopyFileToGuest, Understood
      <4> QED BY <1>2, <3>1, <4>2, WishIs
    <3>2. CASE wish.op = "download"
      <4>1. Understood /\ dest_is_remote = FALSE
        BY <1>2, <2>1, <3>2 DEF Knows
      <4>2. call' = [op |-> "download", user |-> <<>>, vm |-> wish.vm,
                     path |-> wish.path, host |-> wish.host]
        BY <1>4, <1>7, <3>2, <4>1
        DEF Call, CopyFileFromGuest, CopyFileToGuest, Understood
      <4> QED BY <1>2, <3>2, <4>2, WishIs
    <3> QED BY <1>3, <3>1, <3>2
  <2> QED BY <1>1, <1>4, <2>1, <2>2 DEF Knows
<1>8. CASE ShowHelp
  BY <1>4, <1>8 DEF ShowHelp
<1>9. CASE UNCHANGED <<cliVars, next>>
  BY <1>1, <1>2, <1>9 DEF cliVars, parsed, Knows, Understood
<1>10. CASE next' = "over" /\ UNCHANGED cliVars
  BY <1>1, <1>2, <1>10 DEF cliVars, parsed, Knows, Understood
<1> QED BY <1>5, <1>6, <1>7, <1>8, <1>9, <1>10
        DEF Next, vars, Help, HelpShown, TwoRemotePaths, TwoLocalPaths, Result, Exit

\* hvcp.exe asks the engine for the copy that was written on the command line,
\* and for no other, unless the path has an at sign and a colon in such places
\* that the pattern of wmain reads it in another way.
THEOREM AsAskedAlways == Spec => []AsAsked
<1>1. Init => AskedInv
  BY DEF Init, AskedInv, Knows
<1>2. AskedInv /\ [Next]_vars => AskedInv'
  BY AskedStep
<1>3. AskedInv => AsAsked
  BY DEF AskedInv, Knows, AsAsked
<1> QED BY <1>1, <1>2, <1>3, PTL DEF Spec

-----------------------------------------------------------------------------
(* The exit code                                                           *)

\* What wmain has found out, at each of its parts, for all arguments.
Parsed ==
  /\ next \in {"argc", "help", "dest", "call"} =>
       call = <<>> /\ result = "none" /\ exit = -1
  /\ next = "argc" => ~src_is_remote /\ ~dest_is_remote
  /\ next = "help" => Len(argv) # 2
  /\ next \in {"dest", "call"} =>
       Len(argv) = 2 /\ (src_is_remote <=> IsRemote(argv[1]))
  /\ next = "dest" => ~dest_is_remote
  /\ next = "call" => (dest_is_remote <=> IsRemote(argv[2]))
  /\ next = "result" => call # <<>> /\ result \in {"TRUE", "FALSE"} /\ exit = -1

Stages == {"argc", "help", "dest", "call", "result", "over"}

\* The exit code goes with what happened; the arguments of a wish stay its own.
CodeFits ==
  exit # -1 =>
    \/ exit = 0 /\ call # <<>> /\ result = "TRUE"
    \/ exit = 4 /\ call # <<>> /\ result = "FALSE"
    \/ exit = 1 /\ call = <<>> /\ Len(argv) # 2
    \/ exit = 2 /\ call = <<>> /\ Len(argv) = 2 /\ IsRemote(argv[1]) /\ IsRemote(argv[2])
    \/ exit = 3 /\ call = <<>> /\ Len(argv) = 2 /\ ~IsRemote(argv[1]) /\ ~IsRemote(argv[2])

Meaning == wish = <<>> \/ (wish \in Wishes /\ argv = Typed(wish))

ExitInv == next \in Stages /\ Parsed /\ CodeFits /\ Meaning

\* Exactly one of the arguments of a wish matches the pattern.
LEMMA OneRemote ==
  ASSUME NEW w \in Wishes
  PROVE  Len(Typed(w)) = 2 /\ (IsRemote(Typed(w)[1]) <=> ~IsRemote(Typed(w)[2]))
<1>1. w.host \in HostPaths /\ (w.op = "upload" \/ w.op = "download")
  BY WishParts, WishIs
<1>2. ~IsRemote(w.host) /\ IsRemote(Remote(w))
  BY <1>1, HostIsLocal, MeantMatches DEF IsRemote
<1> QED BY <1>1, <1>2, TypedArgs

LEMMA ExitStep == ExitInv /\ [Next]_vars => ExitInv'
<1> SUFFICES ASSUME ExitInv, [Next]_vars PROVE ExitInv'
  OBVIOUS
<1>1. wish' = wish /\ argv' = argv
  BY DEF Next, vars, cliVars, ShowHelp, Help, HelpShown, MatchSrc, MatchDest,
         TwoRemotePaths, TwoLocalPaths, Call, Result
<1>2. Meaning'
  BY <1>1 DEF ExitInv, Meaning
<1> USE DEF ExitInv, Parsed, CodeFits, Stages, Exit
<1>3. CASE ShowHelp
  BY <1>1, <1>2, <1>3 DEF ShowHelp, cliVars, parsed
<1>4. CASE HelpShown
  BY <1>1, <1>2, <1>4 DEF HelpShown, cliVars, parsed
<1>5. CASE MatchSrc
  BY <1>1, <1>2, <1>5 DEF MatchSrc, MatchRemote, IsRemote
<1>6. CASE MatchDest
  BY <1>1, <1>2, <1>6 DEF MatchDest, MatchRemote, IsRemote
<1>7. CASE TwoRemotePaths
  BY <1>1, <1>2, <1>7 DEF TwoRemotePaths, cliVars, parsed
<1>8. CASE TwoLocalPaths
  BY <1>1, <1>2, <1>8 DEF TwoLocalPaths, cliVars, parsed
<1>9. CASE Call
  BY <1>1, <1>2, <1>9 DEF Call, CopyFileFromGuest, CopyFileToGuest
<1>10. CASE Result
  BY <1>1, <1>2, <1>10 DEF Result, CodeOf, cliVars, parsed
<1>11. CASE UNCHANGED <<cliVars, next, exit>>
  BY <1>1, <1>2, <1>11 DEF cliVars, parsed
<1> QED BY <1>3, <1>4, <1>5, <1>6, <1>7, <1>8, <1>9, <1>10, <1>11
        DEF Next, vars, Help

\* The exit code tells a caller whether the engine was called and what it
\* returned, or why it was not called; and arguments as in the README always
\* get as far as the call.
THEOREM ExitTellsAlways == Spec => []ExitTells
<1>1. Init => ExitInv
  BY DEF Init, ExitInv, Stages, Parsed, CodeFits, Meaning
<1>2. ExitInv /\ [Next]_vars => ExitInv'
  BY ExitStep
<1>3. ExitInv => ExitTells
  <2> SUFFICES ASSUME ExitInv, exit # -1 PROVE ExitTells
    BY DEF ExitTells
  <2>1. CodeFits /\ Meaning
    BY DEF ExitInv
  <2>2. ASSUME wish # <<>> PROVE exit \in {0, 4}
    BY <2>1, <2>2, OneRemote DEF CodeFits, Meaning
  <2> QED BY <2>1, <2>2 DEF ExitTells, CodeFits
<1> QED BY <1>1, <1>2, <1>3, PTL DEF Spec
=============================================================================
