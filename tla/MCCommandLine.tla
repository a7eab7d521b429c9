---------------------------- MODULE MCCommandLine ----------------------------
(***************************************************************************)
(* CommandLine for TLC: paths of the guest of up to five characters, and   *)
(* files with a version resource and without one.                          *)
(***************************************************************************)
EXTENDS CommandLine

MCBackslash == "\\"
MCCharacters == {"@", ":", "\\", "/", "a", "b", "d", "f", "v", "w"}
MCSizes == {0, 2}

MCUsers == {<<"a">>, <<"a", "b">>}
MCVMs   == {<<"v">>, <<"v", "w">>}
MCGuestPaths ==
  {<<"/">> \o t : t \in UNION {[1..n -> {"a", "@", ":"}] : n \in 1..4}}

\* file, dir\file, v:\file and dir\v:\file
MCHostPaths ==
  {<<"f">>, <<"d", Backslash, "f">>, <<"v", ":", Backslash, "f">>,
   <<"d", Backslash, "v", ":", Backslash, "f">>}

MCOtherArgs ==
  {<<>>, <<<<"f">>>>, <<<<"f">>, <<"f">>>>, <<<<"f">>, <<"f">>, <<"f">>>>,
   <<<<"v", ":", "f">>, <<"a", "@", "v", ":", "f">>>>,
   <<<<"@", ":">>, <<":", "@">>>>}
=============================================================================
