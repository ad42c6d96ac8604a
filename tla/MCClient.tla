------------------------------ MODULE MCClient ------------------------------
(* Requests and answers for CNHTTPClient. *)
EXTENDS CNHTTPClient

Text(which, bytes) == <<"text", which, bytes>>
GivenHost == Text(1, 5)
UrlHost == Text(2, 3)
ProxyHost == Text(3, 5)

Names(scheme, port, path) == [scheme |-> scheme, host |-> UrlHost, port |-> port, path |-> path]
To(host, port, is_secure, Proxy) ==
  [host |-> host, port |-> port, is_secure |-> is_secure, Proxy |-> Proxy]
Sizes(post, origin, added) == [post |-> post, origin |-> origin, added |-> added]
Asked(to, names, sizes) == [names |-> names] @@ to @@ sizes

\* Paths with colons and slashes in them, and none
Paths == {<<>>, <<Slash>>, <<Slash, Text(4, 9), Colon, <<"number", 8, 1>>, Slash>>}

\* URLs of every form, proxies, and paths on a host that is given
ClientRequests ==
  {Asked(To(h, p, s, None), Names("https", u, path), Sizes(None, 6, 0)) :
     h \in {None, GivenHost}, p \in {0, 99}, s \in BOOLEAN, u \in {None, 0, 7}, path \in Paths}
  \cup {Asked(To(None, 0, s, x), Names(c, None, <<Slash, Text(4, 9)>>), Sizes(None, 6, 0)) :
          s \in BOOLEAN, c \in Schemes,
          x \in {None, [host |-> ProxyHost, port |-> None], [host |-> ProxyHost, port |-> 8]}}
  \cup {Asked(To(h, p, FALSE, None), Names(None, None, path), z) :
          h \in {None, GivenHost}, p \in {0, 99}, path \in Paths,
          z \in {Sizes(2147483647, 6, 0), Sizes(0, 6, 113)}}
  \cup {Asked(To(None, 0, FALSE, None), Names("ws", None, <<Slash>>), Sizes(None, 6, added)) :
          added \in {110, 113}}

Answer(code, length, chunked, honest, body) ==
  [code |-> code, length |-> length, chunked |-> chunked, honest |-> honest, body |-> body]

Chunk(size, bytes) == [size |-> size, bytes |-> bytes]

ClientMessages ==
  {Answer(200, -1, TRUE, TRUE, b) :
     b \in {<<>>, <<Chunk(<<"1">>, <<"x">>)>>, <<Chunk(<<"0", "2">>, <<"x", "y">>)>>,
            <<Chunk(<<"3">>, <<"x", "CR", "LF">>), Chunk(<<"2">>, <<"1", "y">>)>>,
            <<Chunk(<<"1">>, <<"x">>), Chunk(<<"1">>, <<"a">>)>>,
            <<Chunk(<<"B">>, [i \in 1 .. 11 |-> "x"])>>}}
  \cup {Answer(200, l, FALSE, FALSE, <<<<"x", "CR", "LF", "CR", "LF", "y">>>>) : l \in {-1, 6}}
  \cup {Answer(404, 0, FALSE, FALSE, <<>>), Answer(None, 1, FALSE, FALSE, <<<<"x">>>>),
        Answer(200, -1, TRUE, FALSE, <<<<"x", "y">>>>), Answer(200, -1, TRUE, FALSE, <<<<"1", "x">>>>),
        Answer(200, 30, FALSE, FALSE, <<[i \in 1 .. 30 |-> "x"]>>),
        Answer(101, -1, FALSE, FALSE, <<[i \in 1 .. 17 |-> "f"]>>)}

\* Frames that are short, that fill what is there, that leave no room behind them,
\* too long ones, and a length of eight bytes that is negative
ClientFrames == {<<2, 1>>, <<2, 4>>, <<4, 6>>, <<4, 12>>, <<10, 36>>, <<14, -10>>}
=============================================================================
