--------------------------------- MODULE Site ---------------------------------
(***************************************************************************)
(* What a visitor gets for a URL: the configuration is read, and a client  *)
(* asks for a URI of a host on the HTTP or the HTTPS port and follows      *)
(* every redirect to the answer.  Composes UrlPath and MimeList with the   *)
(* choice of the web root by the Host header (_header_parse of             *)
(* src/src/net_http.c, net_80_443_redir of src/src/net_80.c,               *)
(* net_host_build of src/src/net.c, _fws_443_run of src/src/fws.c).        *)
(*                                                                         *)
(* A host is a sequence of labels, of which there are at least two; a URI  *)
(* begins with '/'.                                                        *)
(***************************************************************************)
EXTENDS UrlPath, MimeList

CONSTANTS
  domain,       \* DOMAIN, a sequence of labels
  LabelPrefixes, \* pairs of labels of which the first is how the second begins
  mime_default, \* MIME_DEFAULT
  Hosts, Uris,  \* what clients ask for
  Setups        \* web roots and MIME lists: records of
                \*   fs    the files and directories of WEB_ROOT/<subdomain>, by subdomain
                \*   list  the MIME list, and
                \*   gap   the bytes from its '}' to the next quote

ASSUME ConstantsType ==
  /\ domain \in Seq(Token) /\ domain \in Hosts
  /\ \A h \in Hosts : h \in Seq(Token) /\ Len(h) >= 2
  /\ \A u \in Uris : u \in Seq(Token) /\ u # <<>> /\ Head(u) = "/"

\* A file is in a directory that is there, and its path does not end in '/'.
ASSUME SetupsType ==
  \A s \in Setups : \A sub \in DOMAIN s.fs : \A f \in s.fs[sub].files :
    /\ f \in Seq(Token) /\ f # <<>> /\ f[1] = "/" /\ Last(f) # "/"
    /\ Front(DirPart(f)) \in s.fs[sub].dirs

VARIABLES
  setup,  \* the configuration and the web roots
  mime,   \* conf.mime, normalised
  pc,     \* "boot", "idle", "refused" (bad configuration: the program exits),
          \* "asked" (a request is under way), "done" (answered)
  port, host, uri, \* of the request under way
  first,  \* history: the request the client began with
  answer  \* site, path served (<<>>: not found) and Content-Type

vars == <<setup, mime, pc, port, host, uri, first, answer>>

Port == {"http", "https"}
NoAnswer == [site |-> "", file |-> <<>>, type |-> <<>>]

\* Stands for the request while there is none.
NoRequest == [port |-> "https", host |-> domain, uri |-> <<"/">>]

Init ==
  /\ setup \in Setups
  /\ mime = <<>>
  /\ pc = "boot"
  /\ port = NoRequest.port /\ host = NoRequest.host /\ uri = NoRequest.uri
  /\ first = NoRequest
  /\ answer = NoAnswer

------------------------------------------------------------------------------
\* The web root.

\* net_http_req_parse puts the header lines of a request to the HTTPS port into
\* lower case; "Example" stands for a name with capitals.
Lower(h) == [i \in DOMAIN h |-> IF h[i] = "Example" THEN "example" ELSE h[i]]

\* The memcmp of a host with the domain, over the length of the domain: what
\* follows may be more labels (or a port), or the rest of a longer last label.
Begins(h) ==
  LET n == Len(domain)
  IN /\ Len(h) >= n
     /\ \A i \in 1 .. (n - 1) : h[i] = domain[i]
     /\ h[n] = domain[n] \/ <<domain[n], h[n]>> \in LabelPrefixes

\* The label before the domain, www if there is none.
Subdomain(h) == IF Begins(h) THEN "www" ELSE h[1]

Bug_net_host_build(sub) == domain

net_host_build(sub) == <<sub>> \o domain

ASSUME HostsLower == \A h \in Hosts : Lower(h) \in Hosts

\* No name of a site begins with the domain, as community.community.com does with
\* community.com; only a site named as the first label of the domain could.
DomainApart == ~Begins(net_host_build(domain[1]))

\* WEB_ROOT/<subdomain>, which need not exist.
WebRoot(sub) ==
  IF sub \in DOMAIN setup.fs THEN setup.fs[sub] ELSE [files |-> {}, dirs |-> {}]

------------------------------------------------------------------------------
\* Actions.

\* The start of the program: a list that does not parse ends it.
ConfRead ==
  LET text == ParseMime(ListText(setup.list, setup.gap))
  IN /\ pc = "boot"
     /\ \/ /\ text = Error
           /\ pc' = "refused"
           /\ UNCHANGED mime
        \/ /\ text # Error
           /\ mime' = text
           /\ pc' = "idle"
     /\ UNCHANGED <<setup, port, host, uri, first, answer>>

\* A client enters a URL.
Ask ==
  /\ pc = "idle"
  /\ pc' = "asked"
  /\ port' \in Port /\ host' \in Hosts /\ uri' \in Uris
  /\ first' = [port |-> port', host |-> host', uri |-> uri']
  /\ UNCHANGED <<setup, mime, answer>>

\* The client follows a 301 to the HTTPS port.
Follow(sub, u) ==
  /\ port' = "https"
  /\ host' = net_host_build(sub)
  /\ uri' = u
  /\ UNCHANGED <<setup, mime, pc, first, answer>>

\* net_80_443_redir: the host as it was sent, the whole URI.
Redir80 ==
  /\ pc = "asked" /\ port = "http"
  /\ Follow(Subdomain(host), uri)

\* net_http_path_redir: the clean path, without the query.
PathRedir ==
  /\ pc = "asked" /\ port = "https"
  /\ \E to \in {UriPathBuild(PathOf(uri))} :
       /\ to.code = 301
       /\ Follow(Subdomain(Lower(host)), to.path)

\* 404, or the file with the type of its extension.
Answer ==
  /\ pc = "asked" /\ port = "https"
  /\ \E path \in {PathOf(uri)}, site \in {Subdomain(Lower(host))} :
       \E code \in {UriPathBuild(path).code} \ {301}, raw_path \in {Decoded(path)} :
         \E file \in {PathBuild(WebRoot(site), raw_path, code = 1)} :
           answer' = [site |-> site, file |-> file,
                      type |-> IF file = <<>> THEN <<>>
                               ELSE Lookup(mime, Extension(file), <<mime_default>>)]
  /\ pc' = "done"
  /\ UNCHANGED <<setup, mime, port, host, uri, first>>

Serve == Redir80 \/ PathRedir \/ Answer

\* The visitor has seen the answer.
Leave ==
  /\ pc = "done"
  /\ pc' = "idle"
  /\ port' = NoRequest.port /\ host' = NoRequest.host /\ uri' = NoRequest.uri
  /\ first' = NoRequest
  /\ answer' = NoAnswer
  /\ UNCHANGED <<setup, mime>>

Next ==
  \/ ConfRead
  \/ Ask
  \/ Serve
  \/ Leave

Spec == Init /\ [][Next]_vars

\* The server answers and the client follows what it is told.
FairSpec == Spec /\ WF_vars(Serve)

------------------------------------------------------------------------------
\* Properties.

\* Also after a redirect the request names a host of this server and a path that
\* begins with '/' (the Location header is built without a separator between them).
TypeOK ==
  /\ pc \in {"boot", "idle", "refused", "asked", "done"}
  /\ port \in Port
  /\ host \in Hosts \cup {net_host_build(h[1]) : h \in Hosts \cup {<<"www">>}}
  /\ uri # <<>> /\ uri[1] = "/"
  /\ first.port \in Port /\ first.host \in Hosts /\ first.uri[1] = "/"
  /\ answer.type # <<>> => answer.file # <<>>

\* _raw_path_build replaces exactly the '%' with two hexadecimal digits after them,
\* wherever the path breaks off.
DecodeRight == pc = "asked" => Decoded(PathOf(uri)) = DecodedRef(PathOf(uri))

\* "Redirect HTML extension for clean URL" (README.md): a file is found under its own
\* name, in any encoding, and under its clean name, on either port: the name without
\* .html, the directory for index.html.  Excepted are names the clean URLs take away:
\* index, and the clean name of another file or a directory beside it; for index.html,
\* that of an index beside it, when the URL does not spell out /index.html.
Clean(f) ==
  IF LastName(f) = index_html THEN DirPart(f)
  ELSE IF IsSuffix(html_ext, f) THEN SubSeq(f, 1, Len(f) - 2) ELSE f
Hidden(f, root, path) ==
  IF LastName(f) = index_html
  THEN /\ LastName(path) \notin {<<>>, index_html}
       /\ DirPart(f) \o <<"index">> \in root.files \cup root.dirs
  ELSE \/ Clean(f) # f /\ Clean(f) \in root.files \cup root.dirs
       \/ LastName(Clean(f)) \in {<<>>, <<"index">>}
       \/ IsSuffix(html_ext, Clean(f))
Names(path, f) == Decoded(path) = f \/ (path = Clean(f) /\ Decoded(path) = path)
CleanUrls ==
  pc = "done" =>
    LET path == PathOf(first.uri)
        root == WebRoot(answer.site)
    IN \A f \in root.files :
         Names(path, f) /\ ~Hidden(f, root, path) => answer.file = f

\* The answer comes from the web root of the host that was asked for, through the
\* redirects of both ports: of www for the domain itself, of the first label
\* otherwise.  Every name that begins with the domain counts as the domain, a foreign
\* one such as example.community too.  The HTTP port compares the host as it was sent;
\* capitals reach the right site only on the HTTPS port.
SiteKept ==
  pc = "done" /\ (first.port = "https" \/ first.host = Lower(first.host)) =>
    answer.site = IF Begins(Lower(first.host)) THEN "www" ELSE Lower(first.host)[1]

\* Of the well-formed lists exactly those that fit are accepted, and a file is sent
\* with the type of the first entry that lists its extension, the default otherwise.
\* Two exceptions: a list is refused when a quote follows its '}' by fewer bytes than
\* it has entries, where the parser looks for another entry; and an extension or a
\* type in the list that is too long for the lookup may leave the type empty.
ContentTypeRight ==
  /\ pc = "refused" => TooLong(setup.list) \/ setup.gap < Len(setup.list)
  /\ TooLong(setup.list) => pc \in {"boot", "refused"}
  /\ pc = "done" /\ answer.file # <<>> =>
       \/ answer.type = TypeRef(setup.list, Extension(answer.file), <<mime_default>>)
       \/ HasLong(setup.list) /\ answer.type = <<>>

\* A visitor is never sent round in a circle: a redirect leads from the HTTP to the
\* HTTPS port or to a shorter URI, so there are at most as many as HopsLeft says.
HopsLeft == Len(uri) + IF port = "http" THEN 1 ELSE 0
RedirectsShorten == [][Redir80 \/ PathRedir => HopsLeft' < HopsLeft]_vars

\* No chain of redirects goes on for ever: every request is answered in the end.
RedirectsEnd == pc = "asked" ~> pc = "done"
==============================================================================
