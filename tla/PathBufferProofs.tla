-------------------------- MODULE PathBufferProofs ---------------------------
(***************************************************************************)
(* What the daemon's checks on lengths are worth, for every PATH_MAX and   *)
(* every sequence of requests, sessions and broken connections.            *)
(***************************************************************************)
EXTENDS PathBuffer, TLAPS

\* In a session that goes on, the string in path is the name asked for, and
\* it was written into path.
Written == session = "open" => path.len = wanted /\ path.len \leq reach.path

PathInv == TypeOK /\ InBounds /\ Written /\ LengthDecides

-----------------------------------------------------------------------------
LEMMA SmallSize ==
  ASSUME NEW n \in Nat, n < SizeMax
  PROVE  n % SizeMax = n
  BY PathAssumption, SMT

LEMMA MinusOne == (-1) % SizeMax = SizeMax - 1
  BY PathAssumption, SMT

LEMMA StringFields ==
  ASSUME NEW s \in Strings
  PROVE  /\ s \in [len : Lengths, slash : BOOLEAN] /\ s.slash \in BOOLEAN
         /\ s.len \in Lengths /\ s.len \in -1..SizeMax - 2 /\ s.len \in Int
         /\ s.slash => s.len > 0
<1>1. s \in [len : Lengths, slash : BOOLEAN] /\ (s.slash => s.len > 0)
  BY DEF Strings
<1>2. s.len \in Lengths /\ s.slash \in BOOLEAN
  BY <1>1
<1>3. s.len \in -1..SizeMax - 2
  BY <1>2, PathAssumption
<1>4. s.len \in Int
  BY <1>3, PathAssumption
<1>5. QED BY <1>1, <1>2, <1>3, <1>4

\* As a size_t, every length is a natural number.
LEMMA Sizes ==
  ASSUME NEW s \in Strings
  PROVE  s.len % SizeMax \in Nat
<1>1. CASE s.len = -1
  BY <1>1, MinusOne, PathAssumption
<1>2. CASE s.len # -1
  <2>1. s.len \in Nat /\ s.len < SizeMax
    BY <1>2, StringFields, PathAssumption
  <2>2. QED BY <2>1, SmallSize
<1>3. QED BY <1>1, <1>2

\* A length that passes the check of recv_remote_path is what it looks like.
LEMMA Passes ==
  ASSUME NEW s \in Strings, ~TooLong(s.len)
  PROVE  s.len \in Nat /\ s.len \leq PathMax
<1>1. s.len \in -1..SizeMax - 2
  BY StringFields
<1>2. s.len # -1
  BY MinusOne, PathAssumption DEF TooLong
<1>3. s.len \in Nat /\ s.len < SizeMax
  BY <1>1, <1>2, PathAssumption
<1>4. QED
  BY <1>3, SmallSize, PathAssumption DEF TooLong

LEMMA PathInvInit == Init => PathInv
  BY PathAssumption
  DEF Init, Empty, Nowhere, PathInv, TypeOK, InBounds, Inside, Written,
      LengthDecides, LengthLimit, Open

\* Two arrays written up to m and n: both stay inside unless an index is
\* PATH_MAX itself.
LEMMA ReachRaised ==
  ASSUME reach \in [{"path", "dirname", "filename"} -> Nat], Inside,
         NEW a \in {"path", "dirname", "filename"}, NEW m \in Nat,
         NEW b \in {"path", "dirname", "filename"}, NEW n \in Nat,
         a # b, m \leq PathMax, n \leq PathMax,
         reach' = [reach EXCEPT ![a] = Furthest(@, m), ![b] = Furthest(@, n)]
  PROVE  /\ reach' \in [{"path", "dirname", "filename"} -> Nat]
         /\ m \leq reach'[a] /\ n \leq reach'[b]
         /\ (\A c \in DOMAIN reach' : reach'[c] < PathMax) \/ m = PathMax \/ n = PathMax
<1>1. \A c \in {"path", "dirname", "filename"} :
        /\ c = a => reach'[c] = Furthest(reach[c], m)
        /\ c = b => reach'[c] = Furthest(reach[c], n)
        /\ c \notin {a, b} => reach'[c] = reach[c]
  OBVIOUS
<1>2. DOMAIN reach' = {"path", "dirname", "filename"}
  OBVIOUS
<1>3. \A c \in DOMAIN reach' : reach'[c] \in Nat
  BY <1>1, <1>2 DEF Furthest
<1>4. m \leq reach'[a] /\ n \leq reach'[b]
  BY <1>1, <1>3 DEF Furthest
<1>5. (\A c \in DOMAIN reach' : reach'[c] < PathMax) \/ m = PathMax \/ n = PathMax
  BY <1>1, <1>2, PathAssumption DEF Furthest, Inside
<1>6. reach' \in [{"path", "dirname", "filename"} -> Nat]
  BY <1>1, <1>2 DEF Furthest
<1>7. QED BY <1>4, <1>5, <1>6

LEMMA SetRemotePathKeeps ==
  ASSUME PathInv, NEW s \in Strings, SetRemotePath(s)
  PROVE  PathInv'
<1> USE PathAssumption DEF PathInv, TypeOK, InBounds, Written,
        LengthDecides, LengthLimit,
        Inside, Open, SetRemotePath, Furthest, Accept, Refuse
<1>0. /\ s.len \in Lengths /\ s.len \in Int /\ s.slash \in BOOLEAN
      /\ s = [len |-> s.len, slash |-> s.slash] /\ (s.slash => s.len > 0)
  BY StringFields
<1>1. CASE RemotePathTooLong(s)
  BY <1>0, <1>1, Sizes DEF RemotePathTooLong, TooLong
<1>2. CASE RemoteDirectory(s)
  <2>1. s.len \in Nat /\ s.len > 0 /\ s.len < PathMax
    BY <1>2, Passes DEF RemoteDirectory, StatFinds
  <2>2. /\ WithSlash(s) \in [len : Nat, slash : BOOLEAN]
        /\ WithSlash(s).slash /\ WithSlash(s).len > 0
        /\ WithSlash(s).len = IF s.slash THEN s.len ELSE s.len + 1
    BY <2>1, <1>0 DEF WithSlash
  <2>3. QED BY <1>0, <1>2, <2>1, <2>2 DEF RemoteDirectory
<1>3. CASE RemoteFile(s)
  <2>1. s.len \in Nat /\ s.len \leq PathMax
    BY <1>3, Passes DEF RemoteFile
  <2>2. s \in [len : Nat, slash : BOOLEAN]
    BY <1>0, <2>1
  <2>3. /\ reach' \in [{"path", "dirname", "filename"} -> Nat]
        /\ reach'.path \in Nat /\ s.len \leq reach'.path
        /\ (\A a \in DOMAIN reach' : reach'[a] < PathMax) \/ s.len = PathMax
    <3>1. reach' = [reach EXCEPT !.path = Furthest(@, s.len),
                                 !.dirname = Furthest(@, s.len)]
      BY <1>3 DEF RemoteFile
    <3>2. reach \in [{"path", "dirname", "filename"} -> Nat] /\ Inside
      OBVIOUS
    <3> HIDE DEF Furthest, Inside, PathInv, SetRemotePath
    <3>3. QED BY <3>1, <3>2, <2>1, ReachRaised
  <2>4. /\ path' = s /\ wanted' = s.len /\ asked' = s.len
        /\ session' \in {"open", "noparent"}
    BY <1>3 DEF RemoteFile
  <2>5. QED BY <1>0, <2>1, <2>2, <2>3, <2>4
<1>4. QED BY <1>1, <1>2, <1>3

LEMMA SetFileNameKeeps ==
  ASSUME PathInv, NEW n \in Names, SetFileName(n)
  PROVE  PathInv'
<1> USE PathAssumption DEF PathInv, TypeOK, InBounds, Written,
        LengthDecides, LengthLimit,
        Inside, Open, SetFileName, Furthest, Accept, Refuse
<1>0. /\ n \in Strings /\ n.len \in Lengths /\ n.len \in Nat
      /\ n.slash \in BOOLEAN /\ (n.slash => n.len > 0)
  BY StringFields DEF Names
<1>1. CASE FileNameTooLong(n)
  BY <1>0, <1>1 DEF FileNameTooLong
<1>2. CASE FileNameUnused(n)
  BY <1>0, <1>2 DEF FileNameUnused
<1>3. CASE FileNameAppended(n)
  <2>1. CASE RoomFor(n)
    <3>1. /\ Appended(n) \in [len : Nat, slash : BOOLEAN]
          /\ Appended(n).len = path.len + n.len /\ Appended(n).len > 0
      <4>1. /\ path.len \in Nat /\ path.len > 0
            /\ path.len + n.len < PathMax
        BY <1>3, <2>1 DEF RoomFor, EndsInSlash, FileNameAppended
      <4> DEFINE most == PathMax - path.len - 1
                 took == IF n.len < most THEN n.len ELSE most
      <4>2. took = n.len
        BY <1>0, <4>1
      <4>3. Appended(n) = [len |-> path.len + took,
                           slash |-> took = 0 \/ n.slash]
        BY DEF Appended
      <4> HIDE DEF most, took
      <4>4. (took = 0 \/ n.slash) \in BOOLEAN
        OBVIOUS
      <4>5. path.len + took \in Nat /\ path.len + took > 0
        BY <1>0, <4>1, <4>2
      <4>6. QED BY <4>2, <4>3, <4>4, <4>5
    <3>2. /\ reach' \in [{"path", "dirname", "filename"} -> Nat]
          /\ Appended(n).len \leq reach'.path
          /\ (\A a \in DOMAIN reach' : reach'[a] < PathMax) \/ n.len = PathMax
      <4>1. reach' = [reach EXCEPT !.filename = Furthest(@, n.len),
                                   !.path = Furthest(@, Appended(n).len)]
        BY <1>3, <2>1 DEF FileNameAppended
      <4>2. Appended(n).len \in Nat /\ Appended(n).len < PathMax
        BY <3>1, <2>1 DEF RoomFor
      <4>3. n.len \in Nat /\ n.len \leq PathMax
        BY <1>0, <1>3 DEF FileNameAppended
      <4>4. reach \in [{"path", "dirname", "filename"} -> Nat] /\ Inside
        OBVIOUS
      <4> HIDE DEF Furthest, Inside, PathInv, SetFileName
      <4>5. Appended(n).len # PathMax /\ Appended(n).len \leq PathMax
        BY <4>2, PathAssumption
      <4>6. QED BY <4>1, <4>2, <4>3, <4>4, <4>5, ReachRaised
    <3>3. /\ path' = Appended(n) /\ wanted' = wanted + n.len
          /\ session' = "open" /\ asked' = n.len /\ path.len = wanted
          /\ parts' = 2
      BY <1>3, <2>1 DEF FileNameAppended
    <3>4. TypeOK' /\ InBounds' /\ Written'
      BY <1>0, <2>1, <3>1, <3>2, <3>3 DEF RoomFor
    <3>5. wanted' \leq PathMax - 1 /\ asked' \leq PathMax
      BY <1>0, <1>3, <2>1, <3>3 DEF RoomFor, FileNameAppended
    <3>6. LengthDecides'
      <4>1. wanted' \in Nat /\ asked' \in Int /\ PathMax \in Nat
        BY <1>0, <3>3, <3>4
      <4> HIDE DEF PathInv, SetFileName, TypeOK, Inside
      <4>2. ~(wanted' > PathMax - 1) /\ ~(asked' > PathMax)
        BY <3>5, <4>1
      <4>3. QED BY <3>3, <4>2
    <3>7. QED BY <3>4, <3>6
  <2>2. CASE ~RoomFor(n)
    BY <1>0, <1>3, <2>2 DEF FileNameAppended, RoomFor
  <2>3. QED BY <2>1, <2>2
<1>4. QED BY <1>1, <1>2, <1>3

LEMMA CutKeeps ==
  ASSUME PathInv, NEW s \in Strings, Cut(s)
  PROVE  PathInv'
<1>1. PICK n \in 0..s.len - 1, a \in {"path", "filename"} :
        reach' = [reach EXCEPT ![a] = Furthest(@, n)]
  BY DEF Cut
<1>2. s.len \in Lengths /\ n \in Nat /\ n < PathMax
  BY <1>1, PathAssumption DEF Cut, Strings
<1>3. QED
  BY <1>1, <1>2, PathAssumption
  DEF Cut, Refuse, Furthest, PathInv, TypeOK, InBounds, Written,
      LengthDecides, LengthLimit, Inside, Open

LEMMA PathInvNext == PathInv /\ [Next]_vars => PathInv'
<1> SUFFICES ASSUME PathInv, [Next]_vars PROVE PathInv'
  OBVIOUS
<1>1. CASE Connect
  BY <1>1, PathAssumption
  DEF Connect, ResetPath, Empty, Nowhere, PathInv, TypeOK, InBounds, Inside,
      Written, LengthDecides, LengthLimit, Open
<1>2. CASE UNCHANGED vars
  BY <1>2 DEF vars, PathInv, TypeOK, InBounds, Inside, Written,
              LengthDecides, LengthLimit, Open
<1>3. QED
  BY <1>1, <1>2, SetRemotePathKeeps, SetFileNameKeeps, CutKeeps DEF Next

LEMMA PathInvAlways == Spec => []PathInv
  BY PathInvInit, PathInvNext, PTL DEF Spec

-----------------------------------------------------------------------------
\* Every variable keeps its type: in particular a path that ends with a slash
\* is not empty, which strlen(path) - 1 of SET_FILE_NAME relies on.
THEOREM PathTypeOKAlways == Spec => []TypeOK
  BY PathInvAlways, PTL DEF PathInv

\* A write leaves an array only for a string of PATH_MAX bytes, or for a
\* directory of PATH_MAX - 1 that has to get its slash.
THEOREM InBoundsAlways == Spec => []InBounds
  BY PathInvAlways, PTL DEF PathInv

\* strncat never cuts a name that the check on its length let through.
THEOREM WholeNameAlways == Spec => []WholeName
<1>1. PathInv => WholeName
  BY DEF PathInv, Written, WholeName, Open
<1>2. QED BY <1>1, PathInvAlways, PTL

\* A session that goes on, or was ended for the length of a name, was ended
\* exactly if the name is longer than the limit for the way it was sent, or a
\* request announced more than PATH_MAX bytes.
THEOREM LengthDecidesAlways == Spec => []LengthDecides
  BY PathInvAlways, PTL DEF PathInv
=============================================================================
