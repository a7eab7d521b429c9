------------------------------- MODULE MCFraming -------------------------------
(***************************************************************************)
(* Framing for TLC: words of two bytes, paths of at most two.              *)
(***************************************************************************)
EXTENDS Framing

Ask(c, n) == [cmd |-> c, len |-> n]

\* An upload, one as the daemon's user to a path that is too long, a download,
\* and an upload and a download through one connection;
\* and one whose user name is null.
MCSessions ==
  {<<Ask("SET_USER", 1), Ask("SET_REMOTE_PATH", 2), Ask("SET_FILE_NAME", 1),
     Ask("COPY_FILE_TO_GUEST", 3)>>,
   <<Ask("SET_USER", 0), Ask("SET_REMOTE_PATH", 3), Ask("SET_FILE_NAME", 1)>>,
   <<Ask("SET_REMOTE_PATH", 2), Ask("COPY_FILE_FROM_GUEST", 0)>>,
   <<Ask("SET_USER", 2), Ask("SET_REMOTE_PATH", 1), Ask("COPY_FILE_TO_GUEST", 1),
     Ask("SET_REMOTE_PATH", 0), Ask("COPY_FILE_FROM_GUEST", 0),
     Ask("unknown", 0)>>,
   <<Ask("SET_USER", -1)>>}

MCBegin(rs, i) ==
  LET begin[k \in Nat] ==
        IF k <= 1 THEN 0 ELSE begin[k - 1] + Size(rs[k - 1])
  IN  begin[i]

MCOldLengths == -2..3
=============================================================================
