-------------------------------- MODULE MCSite --------------------------------
(***************************************************************************)
(* One domain with two sites, www and blog.  Either the files of www vary, *)
(* or the MIME list does.                                                  *)
(***************************************************************************)
EXTENDS Site

MCDomain == <<"example", "com">>
MCHosts == {MCDomain, <<"Example", "com">>, <<"blog", "example", "com">>,
            <<"nosite", "example", "com">>, <<"example", "community">>}
MCLabelPrefixes == {<<"com", "community">>}

\* URLs of pages and files, with and without .html, encoded or not, and every short
\* piece of text with escapes and broken escapes.
Plain == {<<"/">> \o d \o n \o s :
            d \in {<<>>, <<"d", "/">>, <<"d", "%", "2", "f">>},
            n \in {<<>>, <<"a">>, <<"d">>, <<"index">>},
            s \in {<<>>, html_ext, <<"%", "2", "e", "html">>, html_ext \o html_ext,
                   html_ext \o <<"?", "d">>, <<".", "css">>}}
Escapes == {<<"/">> \o s : s \in SeqOf({"%", "6", "1"}, 4)}
MCUris == Plain \cup Escapes

Blog == {<<"/">> \o index_html, <<"/", "index">>, <<"/", "a">>,
         <<"/", "a">> \o html_ext \o html_ext,
         <<"/", "d", "/">> \o index_html, <<"/", "d", "/", "index">>}
Files == {<<"/">> \o index_html, <<"/", "a">>, <<"/", "a">> \o html_ext,
          <<"/", "d", "/">> \o index_html, <<"/", "d">> \o html_ext,
          <<"/", "a", ".", "css">>}

\* A web root with these files and the directories they are in.
Root(files) ==
  [files |-> files,
   dirs |-> {<<>>} \cup
            UNION {{SubSeq(f, 1, i - 1) : i \in {j \in DOMAIN f : f[j] = "/"}} : f \in files}]
Fs(www) == [s \in {"www", "blog"} |-> Root(IF s = "www" THEN www ELSE Blog)]

T(type, exts) == [type |-> type, exts |-> exts]
Shipped == <<T("t", <<"html">>), T("u", <<"css">>)>>
Lists == {<<>>, Shipped, Shipped \o Shipped \o <<T("v", <<"js">>)>>,
          <<T("t", <<"long", "css">>), T("long", <<"html">>)>>,
          <<T("t", <<"css", "html">>)>>,
          <<T("t", <<"css">>), T("u", <<"js", "css">>), T("v", <<"html">>)>>,
          <<T("t", <<"js">>), T("u", <<"js">>), T("v", <<"js", "css", "html">>), T("w", <<"html">>)>>}

MCSetups ==
  {[fs |-> Fs(www), list |-> Shipped, gap |-> 4] : www \in SUBSET Files}
  \cup {[fs |-> Fs(Files), list |-> l, gap |-> g] : l \in Lists, g \in 1 .. 4}
==============================================================================
