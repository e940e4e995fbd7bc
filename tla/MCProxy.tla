------------------------------ MODULE MCProxy ------------------------------
(* Two connections for TLC.  A connection that is alone sends every kind of *)
(* request, cut short at every byte, and gets every kind of answer; two at  *)
(* a time send the plain one.  With MAXLINE = 8 the request line just fits; *)
(* Long has a header line that fills the buffer up to its end of line.      *)
EXTENDS Proxy

CONSTANTS c1, c2

Get == <<"x", "_", "h", "_", "x", "r", "n">>
Bad == <<"x", "_", "b", "_", "x", "r", "n", "r", "n">>
Plain == Get \o <<"r", "n">>
Post == Get \o <<"c2", "r", "n", "r", "n", "x", "x">>
Long == Get \o <<"x", "x", "x", "x", "x", "x", "x", "r", "n", "x", "r", "n", "r", "n">>
MCClient == {c1, c2}
MCAsks == {SubSeq(Post, 1, n) : n \in DOMAIN Post} \cup {Plain, Bad, Long}
MCCrowdAsks == {Plain}

Line == <<"x", "r", "n">>
MCCrowdAnswers == {Line \o Line \o <<"r", "n">>}
MCAnswers == MCCrowdAnswers \cup {
    Line \o <<"r">>,                                              \* cut short
    Line \o <<"c1", "r", "n", "r", "n", "x", "x">>,                 \* a byte too many
    Line \o <<"c1", "r", "n", "r", "n", "x">>,                    \* 9 bytes
    Line \o <<"c2", "r", "n", "r", "n", "x", "x">>,               \* 10 bytes
    Line \o <<"c2", "r", "n", "r", "n", "x">>,                    \* body cut short
    Line \o <<"x", "x", "x", "x", "x", "x", "x", "r", "n", "c1", "r", "n", "r", "n", "x">>}
=============================================================================
