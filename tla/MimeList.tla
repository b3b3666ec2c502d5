------------------------------- MODULE MimeList -------------------------------
(***************************************************************************)
(* The MIME list of the configuration: _type_mime_parse of                 *)
(* src/src/file_conf.c normalises it to text such as  t[html,css]u[js],    *)
(* and net_http_res_build of src/src/net_http.c looks an extension up in   *)
(* that text.  A text is a sequence of tokens; punctuation is one byte, a  *)
(* type or an extension is a token.  Lengths are counted in tokens; behind *)
(* the list, where the parser may go too far, every token is one byte.     *)
(***************************************************************************)
EXTENDS Integers, Sequences, SequencesExt, FiniteSetsExt

CONSTANT mime_cap  \* the size of the MIME member of the configuration, less 1

ASSUME MimeType == mime_cap \in Nat

\* An extension that does not fit ext_buf, or a type that does not fit content.
Long == "long"

Q == "\""
Error == <<"error">>

\* memchr(v + from, c, n): the position of c in a window, 0 if it is not there.
memchr(v, from, c, n) ==
  SelectInSubSeq(v, from, Min({from + n - 1, Len(v)}), LAMBDA x : x = c)

------------------------------------------------------------------------------
\* Parsing.

\* The loop over the strings of an array; scan is behind its '[', ext_n the distance
\* to its ']'.  An empty array and a trailing comma leave has_ext_norm FALSE.
ParseExts(v, scan, ext_n) ==
  LET from[s \in Int, n \in Int] ==
        LET start == memchr(v, s, Q, n) + 1
            left == n - (start - s)
            end == memchr(v, start, Q, left)
            comma == memchr(v, start, ",", left)
            more == from[comma, left - (comma - start)]
        IN IF n <= 0 \/ start = 1 \/ left <= 0 \/ end = 0 THEN Error
           ELSE IF comma = 0 THEN SubSeq(v, start, end - 1) \o <<"]">>
           ELSE IF more = Error THEN Error
           ELSE SubSeq(v, start, end - 1) \o <<",">> \o more
  IN from[scan, ext_n]

Bug_ParseEntries(v, scan, mime_n, first) ==
  LET from[s \in Int, n \in Int, f \in BOOLEAN] ==
        LET start == memchr(v, s, Q, n) + 1
            n1 == n - (start - s)
            end == memchr(v, start, Q, n1)
            n2 == n1 - (end - start)
            ext == memchr(v, end + 1, "[", n2) + 1
            n3 == n2 - (ext - (end + 1))
            ext_end == memchr(v, ext, "]", n3)
            exts == ParseExts(v, ext, ext_end - ext)
            more == from[ext_end, n3, FALSE]
        IN IF n <= 0 \/ (start = 1 /\ ~f) THEN <<>>
           ELSE IF start = 1 \/ end = 0 \/ ext = 1 \/ ext_end = 0 THEN Error
           ELSE IF Error \in {exts, more} THEN Error
           ELSE SubSeq(v, start, end - 1) \o <<"[">> \o exts \o more
  IN from[scan, mime_n, first]

\* The loop over the entries.  mime_n is what the code takes for the distance from
\* scan to the '}': the closing quote of the type is skipped by the pointer but not
\* taken off mime_n, so the window reaches one byte further with every entry.
ParseEntries(v, scan, mime_n, first) ==
  LET from[s \in Int, n \in Int, f \in BOOLEAN] ==
        LET start == memchr(v, s, Q, n) + 1
            n1 == n - (start - s)
            end == memchr(v, start, Q, n1)
            n2 == n1 - (end - start)
            ext == memchr(v, end + 1, "[", n2) + 1
            n3 == n2 - (ext - (end + 1))
            ext_end == memchr(v, ext, "]", n3)
            exts == ParseExts(v, ext, ext_end - ext)
            more == from[ext_end, n3 - (ext_end - ext), FALSE]
        IN IF n <= 0 \/ (start = 1 /\ ~f) THEN <<>>
           ELSE IF start = 1 \/ end = 0 \/ ext = 1 \/ ext_end = 0 THEN Error
           ELSE IF Error \in {exts, more} THEN Error
           ELSE SubSeq(v, start, end - 1) \o <<"[">> \o exts \o more
  IN from[scan, mime_n, first]

\* _type_mime_parse of the value v: Error, or the normalised text.  The '}' is
\* looked for in as many bytes as the member has.
ParseMime(v) ==
  LET end == memchr(v, 2, "}", mime_cap)
  IN IF v[1] # "{" \/ end = 0 THEN Error ELSE ParseEntries(v, 2, end - 2, TRUE)

------------------------------------------------------------------------------
\* Looking up.

\* The array whose text starts at start, with its ']' at close, lists ext: "yes",
\* "no", or "error" when a longer extension than fits comes before it.
Listed(mime, ext, start, close) ==
  LET from[i \in start .. close + 1] ==
        LET comma == memchr(mime, i, ",", close + 1 - i)
            end == IF comma # 0 THEN comma ELSE close
            this == SubSeq(mime, i, end - 1)
        IN IF i > close THEN "no"
           ELSE IF this = <<Long>> THEN "error"
           ELSE IF this = ext THEN "yes"
           ELSE IF end < close /\ mime[end + 1] # "]" THEN from[end + 1] ELSE "no"
  IN from[start]

\* The type of an extension: that of the first array that lists it.  <<>> is the
\* content of a failing net_http_res_build, which its caller does not notice.
Lookup(mime, ext, default) ==
  LET from[p \in 1 .. Len(mime) + 1] ==
        LET open == memchr(mime, p, "[", Len(mime))
            close == memchr(mime, open, "]", Len(mime))
            type == SubSeq(mime, p, open - 1)
            listed == Listed(mime, ext, open + 1, close)
        IN CASE p > Len(mime) -> default
             [] p <= Len(mime) /\ listed = "yes" -> IF type = <<Long>> THEN <<>> ELSE type
             [] p <= Len(mime) /\ listed = "error" -> <<>>
             [] OTHER -> from[close + 1]
  IN from[1]

\* What follows the last '.' of the path, or the whole path.
Extension(path) ==
  SubSeq(path, SelectLastInSeq(path, LAMBDA c : c = ".") + 1, Len(path))

------------------------------------------------------------------------------
\* What a list means: a list is a sequence of entries, each with a type and a
\* sequence of extensions; the first entry with the extension counts.

\* The list as it is written in facows.conf, followed by other text: the next quote
\* is gap bytes behind the '}'.
Concat(seqs) == FoldLeft(LAMBDA s, t : s \o t, <<>>, seqs)
ArrayText(exts) ==
  <<"[">> \o Tail(Concat([i \in DOMAIN exts |-> <<",", Q, exts[i], Q>>])) \o <<"]">>
EntryText(e) == <<Q, e.type, Q, ":">> \o ArrayText(e.exts) \o <<",">>
EntriesText(list) == Concat([i \in DOMAIN list |-> EntryText(list[i])])
ListText(list, gap) ==
  <<"{">> \o EntriesText(list) \o <<"}">>
  \o [i \in 1 .. (gap - 1) |-> " "] \o <<Q, "d", Q>>

\* The list does not fit the configuration; something in it is too long to look up.
TooLong(list) == Len(EntriesText(list)) >= mime_cap
HasLong(list) ==
  \E i \in DOMAIN list : list[i].type = Long \/ Long \in ToSet(list[i].exts)

TypeRef(list, ext, default) ==
  LET i == SelectInSeq(list, LAMBDA e : \E j \in DOMAIN e.exts : ext = <<e.exts[j]>>)
  IN IF i = 0 THEN default ELSE <<list[i].type>>
==============================================================================
