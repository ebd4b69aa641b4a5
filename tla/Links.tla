--------------------------------- MODULE Links ---------------------------------
(***************************************************************************)
(* The output buffers.  io.c: what a tick sends to a player is collected,  *)
(* framed and put into a ring, from which the socket takes what it can; a  *)
(* player whose ring is full is kicked, in the middle of a message.        *)
(* chatserver.c: a message from one area server is put into the rings of   *)
(* all of them, with the same rule.  A byte is its number in the order in  *)
(* which bytes were put in.                                                *)
(***************************************************************************)
EXTENDS Integers, Sequences

CONSTANTS OBUFSIZE, OUTBUFSIZE, MaxMessage, MaxBytes, MaxChat, Peers

ASSUME LinksAssumption ==
    /\ OBUFSIZE \in Nat \ {0} /\ OUTBUFSIZE \in Nat \ {0}
    /\ MaxMessage \in Nat /\ MaxBytes \in Nat /\ MaxChat \in Nat
    /\ Peers \subseteq Nat \ {0} /\ \A p \in Peers : 1 .. p \subseteq Peers

VARIABLES obuf, iptr, optr, online, put, got,
          cbuf, cin, cout, sock, relayed, heard, since, fanout
playerLink == <<obuf, iptr, optr, online, put, got>>
chatLinks == <<cbuf, cin, cout, sock, relayed, heard, since, fanout>>

NoPeer == 0
NoFanout == [to |-> NoPeer, bytes |-> <<>>]

LinksInit ==
    /\ obuf = [n \in 0 .. OBUFSIZE - 1 |-> 0] /\ iptr = 0 /\ optr = 0
    /\ online = TRUE /\ put = 0 /\ got = <<>>
    /\ cbuf = [p \in Peers |-> [n \in 0 .. OUTBUFSIZE - 1 |-> 0]]
    /\ cin = [p \in Peers |-> 0] /\ cout = [p \in Peers |-> 0]
    /\ sock = [p \in Peers |-> FALSE]
    /\ relayed = 0                        \* the bytes the chat server was sent
    /\ heard = [p \in Peers |-> <<>>]     \* what a connection received, and
    /\ since = [p \in Peers |-> 0]        \* the bytes there were when it was made
    /\ fanout = NoFanout

-----------------------------------------------------------------------------
\* io.c

\* As much as fits in one piece: to the end of the buffer or up to optr.
Piece(len) ==
    LET size == IF iptr >= optr THEN OBUFSIZE - iptr ELSE optr - iptr
    IN IF size < len THEN size ELSE len

\* A mutant: a buffer filled up to optr passes for an empty one.
NeverFull(i) == FALSE
Overflow(i) == i = optr

\* csend copies piece by piece; what is left of a message is a csend of its own
\* here.  The numbers of the bytes are put+1 ... put+len.
csend(len) ==
    /\ online /\ put + len <= MaxBytes
    /\ LET size == Piece(len)
           i == (iptr + size) % OBUFSIZE
       IN /\ obuf' = [n \in DOMAIN obuf |->
                         IF n >= iptr /\ n < iptr + size THEN put + 1 + n - iptr ELSE obuf[n]]
          /\ iptr' = i
          /\ put' = put + size
          /\ online' = ~Overflow(i)
          /\ UNCHANGED <<optr, got>>

\* send_player: up to the end of the buffer or up to iptr, as much as is taken.
send_player(taken) ==
    /\ online /\ iptr # optr
    /\ taken <= (IF iptr < optr THEN OBUFSIZE - optr ELSE iptr - optr)
    /\ got' = got \o [n \in 1 .. taken |-> obuf[optr + n - 1]]
    /\ optr' = (optr + taken) % OBUFSIZE
    /\ UNCHANGED <<obuf, iptr, online, put>>

\* The connection breaks, or the game gives it up.
kick_player == online /\ online' = FALSE /\ UNCHANGED <<obuf, iptr, optr, put, got>>

-----------------------------------------------------------------------------
\* chatserver.c

new_chat(p) ==
    /\ ~sock[p] /\ fanout = NoFanout
    /\ sock' = [sock EXCEPT ![p] = TRUE]
    /\ cin' = [cin EXCEPT ![p] = 0] /\ cout' = [cout EXCEPT ![p] = 0]
    /\ heard' = [heard EXCEPT ![p] = <<>>]
    /\ since' = [since EXCEPT ![p] = relayed]
    /\ UNCHANGED <<cbuf, relayed, fanout>>

\* A whole message has come in: it goes to every connection, the sender's too.
rec_chat(p, len) ==
    /\ sock[p] /\ fanout = NoFanout /\ relayed + len <= MaxChat
    /\ fanout' = [to |-> 1, bytes |-> [n \in 1 .. len |-> relayed + n]]
    /\ relayed' = relayed + len
    /\ UNCHANGED <<cbuf, cin, cout, sock, heard, since>>

\* The bytes that fit are put before the overflow is seen.
Fitting(p, len) == LET free == (cout[p] - cin[p] - 1 + OUTBUFSIZE) % OUTBUFSIZE
                IN IF free < len THEN free ELSE len
csend_chat ==
    /\ fanout.to \in Peers
    /\ LET p == fanout.to
           len == Len(fanout.bytes)
           size == Fitting(p, len)
       IN IF sock[p]
          THEN /\ cbuf' = [cbuf EXCEPT ![p] = [n \in DOMAIN @ |->
                      LET k == ((n - cin[p] + OUTBUFSIZE) % OUTBUFSIZE) + 1
                      IN IF k <= size THEN fanout.bytes[k] ELSE @[n]]]
               /\ cin' = [cin EXCEPT ![p] = (@ + size) % OUTBUFSIZE]
               /\ sock' = [sock EXCEPT ![p] = size = len]
          ELSE UNCHANGED <<cbuf, cin, sock>>
    /\ fanout' = IF fanout.to + 1 \in Peers THEN [fanout EXCEPT !.to = @ + 1] ELSE NoFanout
    /\ UNCHANGED <<cout, relayed, heard, since>>

send_chat(p, taken) ==
    /\ sock[p] /\ fanout = NoFanout /\ cin[p] # cout[p]
    /\ taken <= (IF cin[p] < cout[p] THEN OUTBUFSIZE - cout[p] ELSE cin[p] - cout[p])
    /\ heard' = [heard EXCEPT ![p] = @ \o [n \in 1 .. taken |-> cbuf[p][cout[p] + n - 1]]]
    /\ cout' = [cout EXCEPT ![p] = (@ + taken) % OUTBUFSIZE]
    /\ UNCHANGED <<cbuf, cin, sock, relayed, since, fanout>>

\* The area server goes away, or its connection breaks.
kick_chat(p) ==
    /\ sock[p] /\ fanout = NoFanout
    /\ sock' = [sock EXCEPT ![p] = FALSE]
    /\ UNCHANGED <<cbuf, cin, cout, relayed, heard, since, fanout>>

PlayerLinkNext == \/ kick_player
                  \/ \E len \in 1 .. MaxMessage : csend(len)
                  \/ \E taken \in 1 .. MaxBytes : send_player(taken)
ChatLinksNext ==
    \/ csend_chat
    \/ \E p \in Peers : \/ new_chat(p) \/ kick_chat(p)
                       \/ \E len \in 1 .. MaxMessage : rec_chat(p, len)
                       \/ \E taken \in 1 .. MaxChat : send_chat(p, taken)

LinksNext == \/ PlayerLinkNext /\ UNCHANGED chatLinks
             \/ ChatLinksNext /\ UNCHANGED playerLink

LinksSpec == LinksInit /\ [][LinksNext]_<<playerLink, chatLinks>>

-----------------------------------------------------------------------------
\* Both ends agree: what a player receives, together with what waits in the
\* ring, is what was put in, without a gap, a repetition or a change of order,
\* for as long as he is not kicked; and every area server hears the chat from
\* the moment it connects as every other one hears it.
InOrder(s, from) == \A n \in DOMAIN s : s[n] = from + n
StreamsIntact ==
    /\ InOrder(got, 0)
    /\ online => Len(got) + ((iptr - optr + OBUFSIZE) % OBUFSIZE) = put
    /\ \A p \in Peers :
          /\ InOrder(heard[p], since[p])
          /\ sock[p] /\ fanout = NoFanout =>
                since[p] + Len(heard[p]) + ((cin[p] - cout[p] + OUTBUFSIZE) % OUTBUFSIZE) = relayed
=============================================================================
