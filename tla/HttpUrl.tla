------------------------------ MODULE HttpUrl ------------------------------
(***************************************************************************)
(* HttpUrl::Builder (messenger/http_url.cc): parsing a URL into its parts, *)
(* changing the parts, and writing them out again.                         *)
(*                                                                         *)
(* A text is a sequence of tokens: the separators of a URL, and words that *)
(* hold none of them.  find_first_of and substr are then Find and SubSeq.  *)
(* A name, a value, a segment or a host is a text too.  The map from names *)
(* to sets of values is the set of its pairs.                              *)
(***************************************************************************)
EXTENDS Integers, Sequences, FiniteSets, FiniteSetsExt

CONSTANTS Words,      \* tokens that are not separators
          Ports,      \* port numbers, as the tokens that write them
          MaxPieces,  \* bound: pieces of a path that is parsed
          MaxSegments \* bound: segments of the builder

ASSUME HttpUrlAssumption ==
    /\ IsFiniteSet(Words) /\ Words # {}
    /\ Ports \subseteq {"80", "443", "8888"}
    /\ Words \cap {":", "/", "?", "#", "&", "=", ".", ".."} = {}
    /\ MaxPieces \in Nat /\ MaxSegments \in Nat

VARIABLES
    builder,   \* the fields of the builder
    input      \* history: what Parse was given, if nothing changed since

vars == <<builder, input>>

-----------------------------------------------------------------------------
(* Sequences.  These read as in SequencesExt, which brings in more than the *)
(* proofs can carry.                                                        *)

FoldLeft(op(_, _), base, seq) ==
    MapThenFoldSet(LAMBDA x, y : op(y, x), base, LAMBDA i : seq[i], LAMBDA S : Max(S), DOMAIN seq)

FlattenSeq(seqs) ==
    IF Len(seqs) = 0 THEN seqs
    ELSE LET flatten[i \in 1 .. Len(seqs)] ==
                 IF i = 1 THEN seqs[i] ELSE flatten[i - 1] \o seqs[i]
         IN  flatten[Len(seqs)]

SetToSeq(S) == CHOOSE f \in [1 .. Cardinality(S) -> S] : IsInjective(f)

RemoveAt(s, i) == SubSeq(s, 1, i - 1) \o SubSeq(s, i + 1, Len(s))

Front(s) == SubSeq(s, 1, Len(s) - 1)

-----------------------------------------------------------------------------
(* Texts.                                                                  *)

\* find_first_of; 0 for npos.
Find(text, token) ==
    LET places == {i \in 1 .. Len(text) : text[i] = token}
    IN  IF places = {} THEN 0 ELSE CHOOSE i \in places : \A j \in places : i <= j

\* substr from a position to the end.
From(text, i) == SubSeq(text, i, Len(text))

\* The pieces of a text between separators.  Some are empty; Push and
\* AddEncodedQueryParameter skip those.
Pieces(text, token) ==
    LET extend(pieces, t) ==
            IF t = token THEN Append(pieces, <<>>)
            ELSE [pieces EXCEPT ![Len(pieces)] = Append(@, t)]
    IN  FoldLeft(extend, << <<>> >>, text)

\* atoi, which makes 0 of what is not a number, and the writing of a number.
Atoi(text) ==
    CASE text = <<"80">> -> 80
      [] text = <<"443">> -> 443
      [] text = <<"8888">> -> 8888
      [] OTHER -> 0
Number(n) == CASE n = 80 -> "80" [] n = 443 -> "443" [] n = 8888 -> "8888" [] n = 0 -> "0"

DefaultPort(scheme) ==
    CASE scheme = "http" -> 80 [] scheme = "https" -> 443 [] OTHER -> -1

-----------------------------------------------------------------------------
(* The path and the query.                                                 *)

Pop(segments) == IF segments = <<>> THEN segments ELSE Front(segments)

Push(segments, segment) ==
    CASE segment = <<>> -> segments
      [] segment = <<".">> -> segments
      [] segment = <<"..">> -> Pop(segments)
      [] OTHER -> Append(segments, segment)

AddEncodedPathSegments(segments, path) == FoldLeft(Push, segments, Pieces(path, "/"))

AddEncodedQueryParameter(query, name, value) ==
    IF name = <<>> THEN query ELSE query \cup {<<name, value>>}

\* One piece of a query: the name before the first '=', the value after it.
AddPiece(query, piece) ==
    LET p == Find(piece, "=")
    IN  IF p = 0 THEN AddEncodedQueryParameter(query, piece, <<>>)
        ELSE AddEncodedQueryParameter(query, SubSeq(piece, 1, p - 1), From(piece, p + 1))

Clear == [scheme |-> "", host |-> <<>>, port |-> -1,
          segments |-> <<>>, query |-> {}, fragment |-> <<>>]

Lower(token) == CASE token = "HTTP" -> "http" [] OTHER -> token

-----------------------------------------------------------------------------
(* Parse, for texts that begin with a scheme and "://".                    *)

\* A plausible bug: only a query ends the path.
PathEndQueryOnly(url) == IF Find(url, "?") # 0 THEN Find(url, "?") ELSE Len(url) + 1

\* The end of host and path.
PathEnd(url) ==
    CASE Find(url, "?") # 0 -> Find(url, "?")
      [] Find(url, "?") = 0 /\ Find(url, "#") # 0 -> Find(url, "#")
      [] OTHER -> Len(url) + 1

ParsePort(scheme, hostPath) ==
    LET portStart == Find(hostPath, ":")
        portEnd == IF Find(hostPath, "/") = 0 THEN Len(hostPath) + 1 ELSE Find(hostPath, "/")
        text == SubSeq(hostPath, portStart + 1, portEnd - 1)
    IN  IF portStart = 0 \/ text = <<>> THEN DefaultPort(scheme) ELSE Atoi(text)

ParseHost(hostPath) ==
    LET portStart == Find(hostPath, ":")
        pathStart == Find(hostPath, "/")
    IN  CASE portStart # 0 -> SubSeq(hostPath, 1, portStart - 1)
          [] portStart = 0 /\ pathStart # 0 -> SubSeq(hostPath, 1, pathStart - 1)
          [] OTHER -> hostPath

ParseQuery(url) ==
    LET queryStart == Find(url, "?")
        queryEnd == IF Find(url, "#") = 0 THEN Len(url) + 1 ELSE Find(url, "#")
    IN  IF queryStart = 0 THEN {}
        ELSE FoldLeft(AddPiece, {}, Pieces(SubSeq(url, queryStart + 1, queryEnd - 1), "&"))

ParseFragment(url) == IF Find(url, "#") = 0 THEN <<>> ELSE From(url, Find(url, "#") + 1)

\* The builder after Parse.  It is cleared before the text is looked at, and a
\* text that is refused leaves it with what was found so far.  Without a '/'
\* the path starts at npos + 1, which is 0: host and port become the path.
ParseText(url) ==
    LET scheme == Lower(url[1])
        hostPath == SubSeq(url, 5, PathEnd(url) - 1)
    IN  CASE scheme \notin {"http", "https"} -> Clear
          [] scheme \in {"http", "https"} /\ hostPath = <<>> -> [Clear EXCEPT !.scheme = scheme]
          [] OTHER -> [scheme |-> scheme,
                       host |-> ParseHost(hostPath),
                       port |-> ParsePort(scheme, hostPath),
                       segments |-> AddEncodedPathSegments(<<>>, From(hostPath, Find(hostPath, "/") + 1)),
                       query |-> ParseQuery(url),
                       fragment |-> ParseFragment(url)]

\* A text of at most seven characters is refused before anything is cleared.
TooShort(url) == Len(url) = 4 /\ url[1] # "https"

-----------------------------------------------------------------------------
(* ToText is Builder::ToString.                                            *)

\* A plausible bug: no '&' between the values of one name.
WriteQueryNoAnd(query) ==
    LET pairs == SetToSeq(query)
    IN  FlattenSeq([i \in DOMAIN pairs |->
            (IF i = 1 THEN <<"?">> ELSE <<>>) \o pairs[i][1] \o <<"=">> \o pairs[i][2]])

\* Names and values in some order (the code writes them sorted).
WriteQuery(query) ==
    LET pairs == SetToSeq(query)
    IN  FlattenSeq([i \in DOMAIN pairs |->
            <<IF i = 1 THEN "?" ELSE "&">> \o pairs[i][1] \o <<"=">> \o pairs[i][2]])

WritePath(segments) == FlattenSeq([i \in DOMAIN segments |-> <<"/">> \o segments[i]])

Authority(b) ==
    b.host \o <<":", Number(IF b.port = -1 THEN DefaultPort(b.scheme) ELSE b.port)>>

ToText(b) ==
    <<b.scheme, ":", "/", "/">> \o Authority(b) \o WritePath(b.segments) \o WriteQuery(b.query)
        \o (IF b.fragment = <<>> THEN <<>> ELSE <<"#">> \o b.fragment)

-----------------------------------------------------------------------------
(* The texts that are parsed, by their parts: a path is NoPath or the      *)
(* pieces that follow its slashes, a query the pieces between its '&'.     *)

NoPath == << <<"none">> >>
PathPieces == {<<>>, <<".">>, <<"..">>} \cup {<<w>> : w \in Words}
Names == {<<>>, <<"name">>}
Values == {<<>>, <<"value">>}
Fragments == {<<>>, <<"fragment">>}

Paths(n) == UNION {[1 .. k -> PathPieces] : k \in 1 .. n}

Inputs(paths) ==
    [scheme : {"http", "HTTP", "https", "file"},
     host : {<<>>, <<"host">>},
     port : {<<>>, <<":">>, <<":", "port">>} \cup {<<":", p>> : p \in Ports},
     path : paths,
     query : {q \in SUBSET (Names \X Values) : Cardinality(q) <= 2},
     fragment : Fragments]

\* A parameter without a value is given without the '='.
RenderQuery(query) ==
    LET pairs == SetToSeq(query)
    IN  FlattenSeq([i \in DOMAIN pairs |->
            <<IF i = 1 THEN "?" ELSE "&">> \o pairs[i][1]
                \o (IF pairs[i][2] = <<>> THEN <<>> ELSE <<"=">> \o pairs[i][2])])

Render(in) ==
    <<in.scheme, ":", "/", "/">> \o in.host \o in.port
        \o (IF in.path = NoPath THEN <<>> ELSE WritePath(in.path))
        \o RenderQuery(in.query)
        \o (IF in.fragment = <<>> THEN <<>> ELSE <<"#">> \o in.fragment)

NoInput == [scheme |-> ""]

-----------------------------------------------------------------------------
(* The builder.                                                            *)

Init == builder = Clear /\ input = NoInput

Parse(in) ==
    /\ ~TooShort(Render(in))
    /\ builder' = ParseText(Render(in))
    /\ input' = in

ParseTooShort(in) == TooShort(Render(in)) /\ UNCHANGED vars

\* A setter; what was parsed no longer tells the fields.
Set(b) == builder' = b /\ input' = NoInput

Scheme(s) == Set([builder EXCEPT !.scheme = IF s = "https" THEN s ELSE "http"])

\* host_ is cleared and the new host is written to its begin(), which does not
\* make it longer: it stays empty.
Host(h) == h # <<>> /\ Set([builder EXCEPT !.host = <<>>])

Port(n) == Set([builder EXCEPT !.port = IF n <= 0 \/ n > 65535 THEN -1 ELSE n])

AddEncodedPathSegment(segment) ==
    /\ segment # <<>>
    /\ Len(builder.segments) < MaxSegments
    /\ Set([builder EXCEPT !.segments = Push(@, segment)])

AddPathSegments(path) ==
    /\ Len(builder.segments) + Len(path) <= MaxSegments
    /\ Set([builder EXCEPT !.segments = AddEncodedPathSegments(@, WritePath(path))])

SetEncodedPathSegment(i, segment) ==
    /\ segment \notin {<<>>, <<".">>, <<"..">>}
    /\ i \in 0 .. Len(builder.segments) - 1
    /\ Set([builder EXCEPT !.segments[i + 1] = segment])

RemovePathSegment(i) ==
    /\ i \in 0 .. Len(builder.segments) - 1
    /\ Set([builder EXCEPT !.segments = RemoveAt(@, i + 1)])

AddQueryParameter(name, value) ==
    /\ name # <<>>
    /\ Set([builder EXCEPT !.query = AddEncodedQueryParameter(@, name, value)])

\* With a value, that value of the name; without, all of them.
RemoveEncodedQueryParameter(name, values) ==
    /\ name # <<>>
    /\ Set([builder EXCEPT !.query = {p \in @ : ~(p[1] = name /\ p[2] \in values)}])

AddEncodedFragment(fragment) ==
    /\ fragment # <<>>
    /\ Set([builder EXCEPT !.fragment = fragment])

\* Parse forgets what the builder holds, so the whole set of texts is tried on
\* an empty builder, and only the barest ones on a used builder.
All == Inputs({NoPath} \cup Paths(MaxPieces))
Again == {in \in Inputs({NoPath}) : in.port = <<>> /\ in.query = {} /\ in.fragment = <<>>}

\* Numbers on both sides of the bounds of Port.
PortArguments == {-1, 0, 80, 8888, 65536}

Next ==
    \/ builder = Clear /\ input = NoInput /\ \E in \in All : Parse(in)
    \/ \E in \in Again : Parse(in) \/ ParseTooShort(in)
    \/ \E s \in {"", "http", "https", "file"} : Scheme(s)
    \/ Host(<<"host">>)
    \/ \E n \in PortArguments : Port(n)
    \/ \E segment \in PathPieces : AddEncodedPathSegment(segment)
    \/ \E path \in Paths(MaxSegments) : AddPathSegments(path)
    \/ \E i \in 0 .. MaxPieces, segment \in PathPieces : SetEncodedPathSegment(i, segment)
    \/ \E i \in 0 .. MaxPieces : RemovePathSegment(i)
    \/ \E name \in Names, value \in Values : AddQueryParameter(name, value)
    \/ \E name \in Names, values \in {{v} : v \in Values} \cup {Values} :
           RemoveEncodedQueryParameter(name, values)
    \/ \E fragment \in Fragments : AddEncodedFragment(fragment)

Spec == Init /\ [][Next]_vars

-----------------------------------------------------------------------------
(* Properties.                                                             *)

\* What dots leave of a path, said without a stack: a word survives when no
\* stretch of pieces that starts after it has more ".." than words.
Resolved(path) ==
    LET isWord(k) == path[k] \notin {<<>>, <<".">>, <<"..">>}
        ups(i, j) == Cardinality({k \in i .. j : path[k] = <<"..">>})
        words(i, j) == Cardinality({k \in i .. j : isWord(k)})
        survives(i) == isWord(i) /\ \A j \in i + 1 .. Len(path) : ups(i + 1, j) <= words(i + 1, j)
        kept == {i \in DOMAIN path : survives(i)}
    IN  [n \in 1 .. Cardinality(kept) |->
            path[CHOOSE i \in kept : Cardinality({k \in kept : k <= i}) = n]]

Expected(in) ==
    LET scheme == IF in.scheme = "https" THEN "https" ELSE "http"
    IN  CASE in.scheme = "file" -> Clear
          [] in.scheme # "file" /\ in.host = <<>> /\ in.port = <<>> /\ in.path = NoPath ->
                [Clear EXCEPT !.scheme = scheme]
          [] OTHER ->
                [scheme |-> scheme,
                 host |-> in.host,
                 port |-> IF Len(in.port) = 2 THEN Atoi(Tail(in.port))
                          ELSE IF scheme = "https" THEN 443 ELSE 80,
                 segments |-> IF in.path = NoPath THEN <<in.host \o in.port>> ELSE Resolved(in.path),
                 query |-> {p \in in.query : p[1] # <<>>},
                 fragment |-> in.fragment]

\* Parse finds the parts a URL was written from: the scheme in lower case, the
\* port or the scheme's own, the path with its dots resolved, the parameters
\* that have a name and the fragment.  A URL without a path gets its host and
\* port as the only segment (http_url.cc:272, npos + 1).  A path that ends with
\* ".." ends with the segment before it: Pop leaves no "" in the place of what
\* it removes, although the comments on it (http_url.cc:74-78) and in PathSize
\* (:437) say so.
ParseIsRight == input # NoInput => builder = Expected(input)

\* The text of a builder, parsed again, gives the same parts, whatever setters
\* built it: the port is then explicit, and a builder without segments takes
\* the text of its host and port as its path.
RoundTrip ==
    builder.scheme # "" =>
        ParseText(ToText(builder)) =
            [builder EXCEPT !.port = IF @ = -1 THEN DefaultPort(builder.scheme) ELSE @,
                            !.segments = IF @ = <<>> THEN <<Authority(builder)>> ELSE @]
=============================================================================
