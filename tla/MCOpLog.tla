------------------------------ MODULE MCOpLog ------------------------------
(* OpLog with a few directories and files, for TLC. *)
EXTENDS OpLog

\* a directory that may be renamed, with the file in it
MCDirs == {<<"d">>, <<"e">>}
MCTree == MCDirs \cup {<<"d", "f">>, <<"e", "f">>}
MCKnown == {<<"d">>, <<"d", "f">>}
\* the name d is "_"
MCLike == {<< <<"d">>, <<"e">> >>, << <<"d", "f">>, <<"e", "f">> >>}
\* files side by side
MCFiles == {<<"f">>, <<"g">>}
MCFilesLike == {<< <<"f">>, <<"g">> >>}
NoPaths == {}
=============================================================================
