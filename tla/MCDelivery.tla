----------------------------- MODULE MCDelivery -----------------------------
\* Rows of one to three messages: of the client, with both kinds of text, texts
\* on both sides of a chunk's end and ids of one and two bytes, and control
\* messages that carry data.
EXTENDS Delivery

Text(first, n) == [i \in 1 .. n |-> first + i]
Post(h, type, text) == [head |-> h, frames |-> <<TransitMetadata(0, 1, 1), Plaintext(type, text)>>]

Ann == Post(constructDataMessageHeader(1, 7, 0), 2, Text(96, 3))
Bob == Post(constructDataMessageHeader(300, 70, 1), 2, Text(65, 2))
Cid == Post(constructDataMessageHeader(1, 7, 2), 3, Text(96, 7))
Dee == Post(constructControlMessageHeader(1, 1, 2, 9, 3, TRUE), 2, Text(48, 2))
\* A text with a zero byte in it.
Eve == Post(constructDataMessageHeader(2, 9, 300), 3, <<97, 0, 98>>)

MCMessages == {Ann, Bob, Cid, Dee, Eve}
\* Dee only comes first: read in the middle of a frame, as joined buffers are,
\* its first byte makes a number beyond 2^31, which TLC does not have.
MCStreams ==
    {s \in [1 .. 1 -> MCMessages] \cup [1 .. 2 -> MCMessages] \cup [1 .. 3 -> MCMessages] :
        \A i \in 2 .. Len(s) : s[i] # Dee}
MCBeyond == {[i \in 1 .. 40 |-> 0], [i \in 1 .. 40 |-> 9]}
MCLeftover == {<<0>>, <<33, 0>>}
=============================================================================
