----------------------------- MODULE MCPlanning -----------------------------
(***************************************************************************)
(* An instance of Planning: what the publisher's data may say, and the     *)
(* command lines, small enough for TLC.                                    *)
(***************************************************************************)
EXTENDS Planning, Sequences, TLC

\* Targets of a release: of the platform selected, and of two others.
Row(own, second, third) == ("p" :> own) @@ ("q" :> second) @@ ("r" :> third)
Here == {Row("s", a, b) : a \in {"s", "t"}, b \in {"s", "t", "u", "unmapped"}}
        \cup {Row("u", "u", "s"), Row("bad", "t", "t"), Row("s", "u", "u")}
Around == {<<Row("s", "s", "s"), Row("s", "s", "t")>>, <<Row("s", "s", "unmapped"), Row("s", "t", "s")>>,
           <<Row("unmapped", "s", "s"), Row("s", "s", "s")>>, <<Row("s", "s", "s"), Row("s", "t", "unmapped")>>}
MappingOf(at, here, around) ==
  [r \in Releases |-> CASE r = at -> here
                        [] r = 18 -> Row("s", "s", "s")
                        [] r = (IF at = 11 THEN 16 ELSE 11) -> around[1]
                        [] OTHER -> around[2]]
ReleaseMappings == {MappingOf(at, here, around) : at \in {11, 16, 17}, here \in Here, around \in Around}
HPETargets == [t \in {"u"} |-> "hpe"]

\* Guides resolved, and command lines.
ResolvedGuides == [place \in Places \X Versions |-> CASE place = <<"p", "v">> -> {"a", "b"} [] place = <<"p", "w">> -> {"b"}
                                                [] place = <<"q", "v">> -> {"a"} [] OTHER -> {}]
UnreadPlaces == {<<"p", "w">>}
Plain == [fixed |-> {}, guided |-> TRUE, platform |-> "unset", version |-> "unset", all |-> FALSE, guides |-> {},
          destination |-> "unset", prefer |-> FALSE, convert |-> "no", refresh |-> FALSE]
AtPlace == [Plain EXCEPT !.fixed = {"platform", "version"}, !.platform = "p", !.version = "v"]
CommandsGiven == {
  [Plain EXCEPT !.fixed = {"destination", "convert"}, !.destination = "new", !.convert = "convert"],
  [AtPlace EXCEPT !.fixed = @ \cup {"destination", "prefer", "refresh"}, !.destination = "old", !.prefer = TRUE, !.refresh = TRUE],
  [Plain EXCEPT !.fixed = {"all", "destination"}, !.all = TRUE, !.destination = "old"],
  [Plain EXCEPT !.fixed = {"all", "version", "destination", "convert", "refresh"}, !.all = TRUE, !.version = "v",
                !.destination = "old", !.convert = "replace", !.refresh = TRUE],
  [AtPlace EXCEPT !.fixed = @ \cup {"all"}, !.all = TRUE],
  [AtPlace EXCEPT !.fixed = @ \cup {"guides"}, !.guides = {"a"}],
  [AtPlace EXCEPT !.guided = FALSE, !.fixed = @ \cup {"all", "destination"}, !.all = TRUE, !.destination = "old"],
  [AtPlace EXCEPT !.guided = FALSE, !.fixed = @ \cup {"guides", "destination", "prefer"}, !.guides = {"a", "b"},
                  !.destination = "old", !.prefer = TRUE]}

\* Tables of contents: what an entry names, and how entries are nested.
Entry(depth, what) == [depth |-> depth, title |-> what[1], url |-> what[2], fragment |-> what[3]]
Kinds == {<<"guide", "home", "">>, <<"contents", "toc", "">>, <<"contents", "none", "">>, <<"home", "home", "">>,
          <<"section", "toc", "">>, <<"section", "a", "held">>, <<"section", "a", "lost">>, <<"section", "none", "">>,
          <<"section", "web", "">>, <<"title", "tit", "">>}
Few == {<<"longGuide", "none", "">>, <<"section", "a", "">>, <<"section", "b", "gone">>, <<"section", "web", "">>,
        <<"title", "tit", "">>}
Third == {<<"section", "a", "">>, <<"section", "b", "gone">>, <<"section", "web", "">>}
Nested(depths, what) == [k \in DOMAIN depths |-> Entry(depths[k], what[k])]
Short == {Nested(<<1>>, <<j>>) : j \in Kinds} \cup {Nested(d, <<j, k>>) : d \in {<<1, 2>>, <<1, 1>>}, j \in Kinds, k \in Kinds}
Three == {Nested(d, <<i, j, k>>) : d \in {<<1, 2, 3>>, <<1, 2, 2>>, <<1, 2, 1>>, <<1, 1, 2>>}, i \in Kinds, j \in Few, k \in Third}
Led == Nested(<<1, 1>>, <<<<"guide", "home", "">>, <<"contents", "toc", "">>>>)
Long == {Led \o Nested(d, <<i, j, k>>) : d \in {<<1, 2, 1>>, <<1, 2, 2>>, <<1, 2, 3>>}, i \in Kinds, j \in Few, k \in Third}
TablesOfContents == {<<>>} \cup Short \cup Three \cup Long

\* Accepted archives, and what a page refers to.
Page(url, final, extra) == [url |-> url, final |-> final, extra |-> extra]
Held(kindOf, pages, plans, missing) == [kind |-> kindOf, pages |-> pages, planned |-> plans, unpublished |-> missing]
HeldArchives == {
  Held("flare", <<Page("home", "home", FALSE), Page("toc", "toc", FALSE), Page("a", "a", FALSE)>>,
       {"home", "toc", "a", "b", "tit"}, {"b", "tit"}),
  Held("flare", <<Page("home", "home", FALSE), Page("a", "b", FALSE), Page("b", "b", FALSE)>>, {"home", "a", "b"}, {}),
  Held("hpe", <<Page("toc", "toc", FALSE), Page("tit", "tit", FALSE), Page("a", "a", TRUE)>>, {"toc", "tit"}, {}),
  Held("flare", <<Page("home", "home", FALSE), Page("a", "a", TRUE)>>, {"home", "toc"}, {}),
  Held("hpe", <<Page("home", "home", FALSE), Page("toc", "toc", FALSE), Page("a", "a", TRUE)>>, {"home", "toc", "b"}, {"b"})}
Reference(use, to, page, url, fragment) == [use |-> use, to |-> to, page |-> page, url |-> url, fragment |-> fragment]
PageReferences == {Reference("navigation", "page", 2, "none", "held"), Reference("navigation", "url", 0, "b", ""),
                      Reference("resource", "asset", 0, "none", ""), Reference("navigation", "page", 1, "none", "lost")}

\* Guides whose stylesheets and vectors refer to each other, whose fonts and images are
\* used in several ways, and whose stylesheets may be replaced by same-named ones or
\* by a table stylesheet of the guide.
Needs(file, use, always) == [file |-> file, kind |-> use, always |-> always]
Uses(op, file, use, page, others) == [op |-> op, file |-> file, kind |-> use, page |-> page, others |-> others]
Style(file, page) == Uses("style", file, "css", page, <<>>)
Needed(file, use) == Uses("resource", file, use, 1, <<>>)
Linked(file) == Uses("link", file, "asset", 1, <<>>)
Shown(file, others) == Uses("slot", file, "asset", 1, others)
GuideWith(s, t, v, same, tables, advertised, uses) ==
  [deps |-> ("s" :> s) @@ ("t" :> t) @@ ("u" :> <<>>) @@ ("v" :> v), same |-> same, tables |-> tables,
   advertised |-> advertised, uses |-> uses]
Alone == [p \in 1 .. 2 |-> <<>>]
GuidesArchived == {
  GuideWith(<<Needs("t", "css", TRUE), Needs("v", "asset", TRUE)>>,
            <<Needs("s", "css", TRUE), Needs("i", "asset", FALSE), Needs("f", "font", TRUE)>>,
            <<Needs("s", "svgstyle", TRUE), Needs("u", "svgstyle", TRUE)>>, Alone, {}, <<>>,
            {Style("s", 1), Style("t", 1), Needed("v", "asset"), Linked("v"), Shown("i", <<>>)}),
  GuideWith(<<Needs("f", "font", TRUE), Needs("i", "asset", TRUE)>>, <<>>, <<>>, Alone, {}, <<>>,
            {Style("s", 1), Needed("f", "asset"), Needed("f", "font"), Needed("i", "asset"), Linked("i"), Linked("j"),
             Shown("i", <<>>), Shown("i", <<"j">>), Shown("j", <<"i">>)}),
  GuideWith(<<Needs("f", "font", TRUE)>>, <<Needs("i", "asset", FALSE)>>, <<Needs("t", "svgstyle", TRUE)>>,
            (1 :> <<"s", "t">>) @@ (2 :> <<"s", "u">>), {}, <<>>,
            {Style("s", 1), Style("s", 2), Style("t", 1), Style("u", 2), Needed("s", "css"), Needed("v", "asset")}),
  GuideWith(<<>>, <<Needs("i", "asset", FALSE)>>, <<Needs("t", "svgstyle", TRUE)>>, Alone, {"s"}, <<"t">>,
            {Style("s", 1), Style("t", 1), Needed("s", "css"), Needed("v", "asset")}),
  GuideWith(<<>>, <<>>, <<>>, Alone, {"s"}, <<"t", "u">>, {Style("s", 1), Style("u", 1)})}
=============================================================================
