------------------------------- MODULE MCWire -------------------------------
\* Bytes of four bits: a logarithmic integer takes 1, 2, 4 and 8 bytes below
\* 4, 64, 2^14 and 2^30, a direct one 1 to 4 bytes below 16, 2^8, 2^12, 2^16.
EXTENDS Wire

Chats   == {0, 15, 16, 255, 256, 4095, 4096, 65535}
Sources == {0, 3, 4, 63, 64, 16383, 16384, 1073741823}
Numbers == {0, 16, 65535}
Counts  == {1, 4, 16384}

Text(n) == [i \in 1 .. n |-> 1 + (i % 3)]
Transit == {TransitMetadata(id, total, 1) : id \in {0, 65535}, total \in Counts}

\* What RunClient and MessagePackTest.c build, with several widths, ...
Posts == {<<t, Plaintext(type, Text(n))>> : t \in Transit, type \in {2, 3}, n \in {0, 1, 4}}
\* ... and longer lists, type 2 last.
Lists ==
    LET t == TransitMetadata(1, 64, 3)
        p == Plaintext(3, <<2, 0, 3>>)
    IN  {<<t>>, <<p>>, <<p, t>>, <<t, p, p>>, <<t, t, Plaintext(2, Text(2))>>,
         <<Plaintext(3, <<>>), p>>, <<Plaintext(3, Text(4)), Plaintext(2, <<>>)>>}
\* Lists that are not extracted as packed: two bytes in all, and a text without
\* length in front of another frame.
Odd == {<<Plaintext(3, <<>>)>>, <<Plaintext(2, <<>>)>>,
        <<Plaintext(2, <<1>>), TransitMetadata(0, 1, 1)>>}
\* Frames of a type that is packed but not unpacked, first and later.
PostMetadata == {<<Plaintext(1, Text(4)), Plaintext(3, Text(2))>>,
                 <<TransitMetadata(1, 1, 1), Plaintext(1, Text(3)), Plaintext(2, Text(2))>>}

Heads ==
    {constructDataMessageHeader(c, s, n) : c \in Chats, s \in Sources, n \in Numbers} \cup
    {constructControlMessageHeader(k, 4097, c, s, 1, k = 1) : k \in {0, 1, 3}, c \in {1, 4096}, s \in Sources}

Client == constructDataMessageHeader(1, 7, 0)

MCMessages ==
    [head : {Client}, frames : Posts \cup Lists \cup Odd \cup PostMetadata] \cup
    [head : Heads, frames : {<<TransitMetadata(0, 1, 1), Plaintext(2, Text(2))>>}]
MCBeyond == {[i \in 1 .. 24 |-> 0], [i \in 1 .. 24 |-> i % 4]}
=============================================================================
