----------------------------- MODULE MCWorkshop -----------------------------
(***************************************************************************)
(* An instance of Workshop: a tool of two files, and archives of up to     *)
(* four members that clash in name, repeat a directory, lie under a file   *)
(* or a link, are too large, unsound or outside the allowed root.          *)
(***************************************************************************)
EXTENDS Workshop

ToolFiles == <<"exe", "lib">>

(* Pinned archives: their members, and what is selected of them.           *)
Member(path, kind, size) == [path |-> path, kind |-> kind, size |-> size, sound |-> TRUE]
ArchiveMembers == {
  Member(<<"r">>, "dir", 0), Member(<<"r", "a">>, "file", 1), Member(<<"r", "A">>, "file", 1),
  Member(<<"r", "a">>, "dir", 0), Member(<<"r", "d", "b">>, "file", 2), Member(<<"r", "l">>, "link", 0),
  Member(<<"x", "a">>, "file", 1), [Member(<<"r", "d">>, "dir", 0) EXCEPT !.sound = FALSE],
  Member(<<"r", "d">>, "dir", 0), Member(<<"r", "e">>, "file", 2), Member(<<"r", "c">>, "file", 3)}
Holding(members) == [members |-> members, trailing |-> FALSE]
PinnedArchives ==
  {Holding(<<>>), [members |-> <<Member(<<"r", "a">>, "file", 1)>>, trailing |-> TRUE]}
  \cup {Holding(<<m, n>>) : m \in ArchiveMembers, n \in ArchiveMembers}
  \cup {Holding(<<Member(<<"r", "d", "b">>, "file", 2), m, n>>) : m \in ArchiveMembers, n \in ArchiveMembers}
  \cup {Holding(<<Member(<<"r">>, "dir", 0), Member(<<"r", "d">>, "dir", 0), Member(<<"r", "a">>, "file", 1),
                  Member(<<"r", "l">>, "dir", 0)>>)}
Selected(from, to) == [from |-> from, to |-> to]
SelectionsMade ==
  {{}, {Selected(<<"r", "a">>, <<"o">>)},
   {Selected(<<"r", "d", "b">>, <<"o">>), Selected(<<"r", "a">>, <<"p", "q">>)},
   {Selected(<<"r", "a">>, <<"o">>), Selected(<<"r", "d", "b">>, <<"o", "p">>)}}
CaseFolded == [n \in {"r", "x", "a", "A", "b", "d", "l", "c", "e", "o", "p", "q"} |-> IF n = "A" THEN "a" ELSE n]
=============================================================================
