------------------------------- MODULE MCHvcp -------------------------------
(***************************************************************************)
(* HvcpSystem for TLC: up to two calls, two directories of which one       *)
(* exists, two file names, and a file of two blocks from before the calls. *)
(***************************************************************************)
EXTENDS HvcpService, TLC

CONSTANTS c1, c2, d, x, f, g, root, alice, mallory, empty, null,
          stray, nofile, noclient, influx

OneCall   == {c1}
TwoCalls  == {c1, c2}
MCDirs    == {d, x}
MCNames   == {f, g}

MCPreexisting == {<<d, f>>}
MCLongPaths   == {<<d, g>>}
Symmetry      == Permutations(Calls)

UploadOf(user, rpath, name, size) ==
  [op |-> "upload", user |-> user, rpath |-> rpath, name |-> name, size |-> size]
DownloadOf(rpath) ==
  [op |-> "download", user |-> empty, rpath |-> rpath, name |-> f, size |-> 0]

\* Uploads of an empty file, of one that fits in the window and of one that
\* does not: to a directory, over an old file, and to a new file, as root and
\* as alice; of a user nobody knows to a directory that does not exist;
\* downloads of a file that is there and of one that is there only after an
\* upload.
Mixed ==
  {UploadOf(empty, <<d>>, f, 2), UploadOf(mallory, <<x, f>>, f, 1),
   DownloadOf(<<d, f>>), DownloadOf(<<d, g>>)}
    \cup {UploadOf(alice, <<d, g>>, f, n) : n \in {0, 3}}

\* Uploads that overwrite, one of them as a user nobody knows; one whose
\* path gets too long once the name is appended, one whose path is too long
\* to begin with, and one without a user name; and a download of the file the
\* others write.
Contended ==
  {UploadOf(alice, <<d>>, f, 2), UploadOf(mallory, <<d, f>>, f, 1),
   UploadOf(empty, <<d>>, g, 1), UploadOf(empty, <<d, g>>, g, 1),
   UploadOf(null, <<d, f>>, f, 1), DownloadOf(<<d, f>>)}

\* The shortest calls of each kind.
Short == {UploadOf(empty, <<d, f>>, f, 1), DownloadOf(<<d, f>>)}

\* What the violation runs ask for.
ADirectory  == {DownloadOf(<<d>>)}
NoUserName  == {UploadOf(null, <<d, f>>, f, 1)}
NobodyKnows == {UploadOf(mallory, <<d, f>>, f, 1)}
=============================================================================
