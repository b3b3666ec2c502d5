------------------------------- MODULE UrlPath -------------------------------
(***************************************************************************)
(* From the URI of a request to a file of the web root: src/src/file.c.    *)
(* A URI is a sequence of tokens.  Most stand for one character; the words *)
(* index and html, and names such as d, stand for all their characters,    *)
(* none of them a hexadecimal digit.                                       *)
(***************************************************************************)
EXTENDS Integers, Sequences, SequencesExt

Token == STRING

\* What decoding can produce, and the words of this module and of Site.
ASSUME TokenType ==
  {".", "/", "a", "f", "other", "index", "html", "www", "example"} \subseteq Token

index_html == <<"index", ".", "html">>
html_ext == <<".", "html">>

------------------------------------------------------------------------------
\* Percent-encoding.

\* _chr_to_hex, for the digits that URIs are made of here; -1 for any other token.
\* %00, which ends the path for the calls that take it as a string, is left out.
ChrToHex(c) ==
  CASE c = "1" -> 1 [] c = "2" -> 2 [] c = "6" -> 6
    [] c = "a" -> 10 [] c = "e" -> 14 [] c = "f" -> 15 [] OTHER -> -1

\* The character with code 16 * hi + lo; the ones no name uses are all alike.
Chr(hi, lo) ==
  CASE hi = 2 /\ lo = 14 -> "."
    [] hi = 2 /\ lo = 15 -> "/"
    [] hi = 6 /\ lo = 1 -> "a"
    [] hi = 6 /\ lo = 6 -> "f"
    [] OTHER -> "other"

Bug_Decoded(s) ==
  LET from[i \in 1 .. Len(s) + 1] ==
        IF i > Len(s) THEN <<>>
        ELSE IF s[i] # "%" THEN <<s[i]>> \o from[i + 1]
        ELSE IF i + 2 >= Len(s) THEN SubSeq(s, i, Len(s))
        ELSE IF ChrToHex(s[i + 1]) < 0 \/ ChrToHex(s[i + 2]) < 0 THEN <<s[i]>> \o from[i + 1]
        ELSE <<Chr(ChrToHex(s[i + 1]), ChrToHex(s[i + 2]))>> \o from[i + 3]
  IN from[1]

\* The loop of _raw_path_build, from position i of the path on.  With fewer than two
\* characters after a '%' it copies what there is and stops.
Decoded(s) ==
  LET from[i \in 1 .. Len(s) + 1] ==
        IF i > Len(s) THEN <<>>
        ELSE IF s[i] # "%" THEN <<s[i]>> \o from[i + 1]
        ELSE IF i + 2 > Len(s) THEN SubSeq(s, i, Len(s))
        ELSE IF ChrToHex(s[i + 1]) < 0 \/ ChrToHex(s[i + 2]) < 0 THEN <<s[i]>> \o from[i + 1]
        ELSE <<Chr(ChrToHex(s[i + 1]), ChrToHex(s[i + 2]))>> \o from[i + 3]
  IN from[1]

\* What decoding means: every '%' with two hexadecimal digits after it, and nothing
\* else, is replaced.  Such triples never overlap.
Escape(s, i) ==
  /\ i >= 1 /\ i + 2 <= Len(s)
  /\ s[i] = "%" /\ ChrToHex(s[i + 1]) >= 0 /\ ChrToHex(s[i + 2]) >= 0
Inside(s, i) == Escape(s, i - 1) \/ Escape(s, i - 2)
At(s, i) ==
  IF Escape(s, i) THEN <<Chr(ChrToHex(s[i + 1]), ChrToHex(s[i + 2]))>>
  ELSE IF Inside(s, i) THEN <<>> ELSE <<s[i]>>
DecodedRef(s) ==
  LET from[i \in 1 .. Len(s) + 1] == IF i > Len(s) THEN <<>> ELSE At(s, i) \o from[i + 1]
  IN from[1]

------------------------------------------------------------------------------
\* Redirects to the clean URL.

\* _uri_parse: the path of a URI ends before the query.
PathOf(uri) ==
  LET q == SelectInSeq(uri, LAMBDA c : c = "?")
  IN IF q = 0 THEN uri ELSE SubSeq(uri, 1, q - 1)

\* Everything up to and with the last '/', and what is after it.
DirPart(path) == SubSeq(path, 1, SelectLastInSeq(path, LAMBDA c : c = "/"))
LastName(path) == SubSeq(path, Len(DirPart(path)) + 1, Len(path))

\* 301 with the path to go to, 1 for a directory, 0 for anything else.
Redirect(path) == [code |-> 301, path |-> path]
NoRedirect(code) == [code |-> code, path |-> <<>>]

Bug_UriPathBuild(path) ==
  IF Last(path) = "/" THEN NoRedirect(1)
  ELSE IF LastName(path) \in {<<"index">>, index_html} THEN Redirect(Front(DirPart(path)))
  ELSE IF IsSuffix(html_ext, path) THEN Redirect(SubSeq(path, 1, Len(path) - 2))
  ELSE NoRedirect(0)

Bug2_UriPathBuild(path) ==
  IF Last(path) = "/" THEN NoRedirect(1)
  ELSE IF LastName(path) \in {<<"index">>, index_html} THEN Redirect(DirPart(path))
  ELSE IF IsSuffix(html_ext, path) THEN Redirect(path)
  ELSE NoRedirect(0)

\* _uri_path_build looks at the path as it was sent, before decoding.
UriPathBuild(path) ==
  IF Last(path) = "/" THEN NoRedirect(1)
  ELSE IF LastName(path) \in {<<"index">>, index_html} THEN Redirect(DirPart(path))
  ELSE IF IsSuffix(html_ext, path) THEN Redirect(SubSeq(path, 1, Len(path) - 2))
  ELSE NoRedirect(0)

------------------------------------------------------------------------------
\* The file system below one web root: sets of files and directories, each named by
\* the path that leads to it, without a '/' at the end.

\* stat(): a path that ends in '/' names a directory only.
Stat(root, path) ==
  IF Last(path) = "/" THEN Front(path) \in root.dirs
  ELSE path \in root.files \/ path \in root.dirs

Bug_PathBuild(root, path, dir) ==
  LET candidates == IF dir THEN <<path \o index_html>> ELSE <<path \o html_ext, path>>
      found == SelectInSeq(candidates, LAMBDA p : Stat(root, p))
  IN IF found = 0 \/ (dir /\ ~Stat(root, path)) THEN <<>> ELSE candidates[found]

\* _path_build: the path served, or <<>> for 404.
PathBuild(root, path, dir) ==
  LET candidates == IF dir THEN <<path \o index_html>> ELSE <<path, path \o html_ext>>
      found == SelectInSeq(candidates, LAMBDA p : Stat(root, p))
  IN IF found = 0 \/ (dir /\ ~Stat(root, path)) THEN <<>> ELSE candidates[found]
==============================================================================
