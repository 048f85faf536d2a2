\* Streams: the limits are a few bytes; every limit is exceeded by some stream,
\* and a recv returns one to three bytes.
\* Replies: a chain of two CNAMEs and the address at its end, or a circle of
\* three names.
\* Packets: six bytes hold two pointers that lead to each other, a label and a
\* pointer back to it, and a name that is too long; 97 is a letter, and no
\* label length.
CONSTANTS
    MaxHeaders = 5
    MaxBody = 4
    Recv = 3
    Streams <- MCStreams
    Names = {n1, n2, n3}
    Asked = n1
    Addresses = {a1}
    Bad = Bad
    Replies <- MCReplies
    Bytes = {0, 1, 2, 4, 97, 192}
    Letters = {97}
    Size = 6
    MaxName = 4
SPECIFICATION MCSpec
INVARIANTS
    StatusIsRight
    ReplyIsRight
PROPERTY InputIsRead
\* Each reader returns and is over.
CHECK_DEADLOCK FALSE
