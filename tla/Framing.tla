------------------------------- MODULE Framing -------------------------------
(***************************************************************************)
(* How the two reactor interfaces cut the bytes of a connection into       *)
(* messages: ISGWIntf (clients) and ISGWCIntf (backends), each for the     *)
(* text protocol, where a separator ends a message, and for the binary     *)
(* one, where a length comes first.                                        *)
(*                                                                         *)
(* A byte of the buffer is represented by its position in what the peer    *)
(* sends; Blank is a zero byte, Junk a separator in memory that was never  *)
(* initialised.  The peer sends well-formed text (no empty message, each   *)
(* with its command word), a part of which may hold no command word yet,   *)
(* and binary messages of any length in Lens, too long ones among them.    *)
(***************************************************************************)
EXTENDS Integers, Sequences, SequencesExt, FiniteSetsExt

CONSTANTS
  Kinds,      \* of connections, see below
  MaxRecvLen, \* MAX_RECV_BUF_LEN, in tokens
  LenSize,    \* MSG_LEN_SIZE, in tokens
  Lens,       \* lengths the peer announces
  NewIsJunk,  \* the memory of a new ISGWIntf may hold anything
  MsgNum      \* bound: messages the peer sends

AllKinds == {"intf_text", "cintf_text",   \* MSG_LEN_SIZE is not defined
             "intf_bin", "cintf_bin",     \* the length counts the body
             "intf_self", "cintf_self"}   \* NO_EXTRA_SIZE: it counts itself

VARIABLES
  kind,    \* of this connection
  sent,    \* the messages the peer sends, each a sequence of tokens
  rcvd,    \* how many tokens the reactor has received
  recvBuf, \* recv_buf_
  recvLen, \* recv_len_
  msgLen,  \* msg_len_
  closed,  \* the handler returned -1, or the peer closed
  given    \* the messages given to process(), as sequences of positions

vars == <<kind, sent, rcvd, recvBuf, recvLen, msgLen, closed, given>>

IsText == kind \in {"intf_text", "cintf_text"}

\* A plausible slip: the buffer is not cleared, as in ISGWIntf (:126, :170).
ClearsNothing == FALSE

\* ISGWCIntf clears what is behind recv_len_ (:137, :174)
Clears == kind = "cintf_text"

Extra == IF kind \in {"intf_self", "cintf_self"} THEN 0 ELSE LenSize

\* "c" holds the command word, "n" is the separator, "x" and 0 are the rest
TextMessages == { <<"c", "n">>, <<"x", "c", "n">> }
Rest(n) == [i \in 1 .. n |-> 0]
BinMessages(k) ==
  { <<l>> \o Rest(LenSize - 1) \o
    Rest(IF k \in {"intf_self", "cintf_self"} THEN l - LenSize ELSE l) :
      l \in {l \in Lens : k \in {"intf_self", "cintf_self"} => l >= LenSize} }

Blank == 0
Junk == -1
Cells == 1 .. MaxRecvLen

\* ISGWIntf does not initialise its buffer (:11); ISGWCIntf does.
Init ==
  /\ kind \in Kinds
  /\ sent \in [1 .. MsgNum ->
       IF IsText THEN TextMessages ELSE BinMessages(kind)]
  /\ recvBuf \in IF kind = "intf_text" /\ NewIsJunk THEN [Cells -> {Blank, Junk}]
                 ELSE {[i \in Cells |-> Blank]}
  /\ rcvd = 0 /\ recvLen = 0 /\ msgLen = 0
  /\ closed = FALSE
  /\ given = <<>>

Stream == FlattenSeq(sent)
Token(p) == CASE p = Junk -> "n" [] p = Blank -> "end" [] OTHER -> Stream[p]

-----------------------------------------------------------------------------
\* recv puts k more bytes behind those that are there
Filled(k) ==
  [i \in Cells |-> IF i \in recvLen + 1 .. recvLen + k
                   THEN rcvd + i - recvLen ELSE recvBuf[i]]

\* memmove of what follows cell `last`; the bytes behind it stay, or are
\* cleared
Moved(b, last, n) ==
  [i \in Cells |-> IF i <= n - last THEN b[last + i]
                   ELSE IF Clears THEN Blank ELSE b[i]]

Piece(b, i, j) == [k \in 1 .. j - i + 1 |-> b[i + k - 1]]

\* What a loop over the messages in the buffer leaves: those it gives, the cell
\* where the rest begins, the length of the message there if it is known.
Stop(s, l, bad) == [msgs |-> <<>>, at |-> s, next |-> l, bad |-> bad]
Gives(msg, after) == [after EXCEPT !.msgs = <<msg>> \o @]

After(w, b, n) ==
  [msgs |-> w.msgs, buf |-> Moved(b, w.at - 1, n), len |-> n + 1 - w.at,
   next |-> w.next, bad |-> w.bad]

\* strstr looks up to the first zero byte, wherever recv_len_ is.
Visible(b) == {i \in Cells : \A j \in 1 .. i : Token(b[j]) # "end"}
Separators(b) == {i \in Visible(b) : Token(b[i]) = "n"}
is_legal(b) == \E i \in Visible(b) : Token(b[i]) = "c"

\* A plausible slip: only where a message begins is compared with recv_len_.
EndsAnywhere(b, n) ==
  LET seps == Separators(b)
      over == {i \in seps : i > n}
  IN {i \in seps : i <= n} \cup
     IF n \in seps \/ over = {} THEN {} ELSE {Min(over)}

\* the separators the loop stops at: ISGWIntf keeps to those within recv_len_
Ends(b, n) ==
  {i \in Separators(b) : kind = "intf_text" => i <= n}

\* From the message that begins in cell s on, as far as a separator follows
Cut(b, n) ==
  LET cut[s \in 1 .. MaxRecvLen + 1] ==
        LET ends == {i \in Ends(b, n) : i >= s}
        IN IF ends = {} THEN Stop(s, 0, FALSE)
           ELSE Gives(Piece(b, s, Min(ends)), cut[Min(ends) + 1])
  IN cut[1]

\* A message is complete when a separator is seen, at first anywhere.
TextInput(b, n) ==
  IF Separators(b) = {}
  THEN [msgs |-> <<>>, buf |-> b, len |-> n, next |-> 0, bad |-> n = MaxRecvLen]
  ELSE IF ~is_legal(b)
  THEN [msgs |-> <<>>, len |-> 0, next |-> 0, bad |-> FALSE,
        buf |-> IF Clears THEN [i \in Cells |-> Blank] ELSE b]
  ELSE After(Cut(b, n), b, n)

-----------------------------------------------------------------------------
\* A plausible slip: a length is only compared with the least there can be.
ShortLen(l) == l <= LenSize

BadLen(l) == l > MaxRecvLen \/ l <= LenSize

\* ISGWCIntf does not refuse a short length in front of the buffer.
BadFirstLen(l) ==
  IF kind \in {"intf_bin", "intf_self"} THEN BadLen(l) ELSE l > MaxRecvLen

Body(b, s, l) == Piece(b, s + Extra, s + Extra + l - 1)

\* From the message that begins in cell s on, as long as it is whole
Walk(b, n) ==
  LET walk[s \in 1 .. MaxRecvLen + 1] ==
        LET pend == n + 1 - s
            l == Token(b[s])
            first == s = 1
        IN IF pend < LenSize THEN Stop(s, 0, FALSE)
           ELSE IF IF first THEN msgLen = 0 /\ BadFirstLen(l) ELSE BadLen(l)
           THEN Stop(s, 0, TRUE)
           ELSE IF pend < Extra + l THEN Stop(s, l, FALSE)
           ELSE Gives(Body(b, s, l), walk[s + Extra + l])
  IN walk[1]

BinInput(b, n) == After(Walk(b, n), b, n)

-----------------------------------------------------------------------------
\* handle_input: whatever part of the stream has arrived and fits is received.
\* process() may refuse a message, which closes the connection.
handle_input ==
  /\ ~closed
  /\ \E k \in 1 .. Min({MaxRecvLen - recvLen, Len(Stream) - rcvd}) :
       LET in == IF IsText THEN TextInput(Filled(k), recvLen + k)
                 ELSE BinInput(Filled(k), recvLen + k)
       IN \/ /\ given' = given \o in.msgs
             /\ recvBuf' = in.buf /\ recvLen' = in.len /\ msgLen' = in.next
             /\ closed' = in.bad
             /\ rcvd' = rcvd + k
          \/ \E i \in DOMAIN in.msgs :
               /\ given' = given \o SubSeq(in.msgs, 1, i - 1)
               /\ closed' = TRUE
               /\ rcvd' = rcvd + k
               /\ UNCHANGED <<recvBuf, recvLen, msgLen>>
  /\ UNCHANGED <<kind, sent>>

\* recv returns 0: the peer has closed, or the buffer has no room
RecvZero ==
  /\ ~closed
  /\ closed' = TRUE
  /\ UNCHANGED <<kind, sent, rcvd, recvBuf, recvLen, msgLen, given>>

Next == handle_input \/ RecvZero

Spec == Init /\ [][Next]_vars

-----------------------------------------------------------------------------
\* where message i begins and ends in the stream
EndOf(i) == Len(FlattenSeq(SubSeq(sent, 1, i)))
BeginOf(i) == EndOf(i - 1) + 1
\* what process() should be given of it
Wanted(i) ==
  LET from == BeginOf(i) + IF IsText THEN 0 ELSE Extra
  IN [k \in 1 .. EndOf(i) - from + 1 |-> from + k - 1]
Complete(n) ==
  LET last == Max({0} \cup {i \in DOMAIN sent : EndOf(i) <= n})
  IN [i \in 1 .. last |-> Wanted(i)]

TypeOK ==
  /\ kind \in AllKinds
  /\ rcvd \in 0 .. Len(Stream)
  /\ recvBuf \in [Cells -> {Junk} \cup 0 .. Len(Stream)]
  /\ recvLen \in 0 .. MaxRecvLen
  /\ msgLen \in 0 .. MaxRecvLen
  /\ closed \in BOOLEAN
  /\ given \in Seq(Seq({Junk} \cup 0 .. Len(Stream)))

\* However the stream is cut into reads, each message is given whole, once
\* and in order, and none is withheld: the reactor would not call again for
\* bytes that are already in the buffer.  For three of the four handlers
\* (isgw_intf.cpp:178-362, isgw_cintf.cpp:68-178, :182-348).
FramedExactly ==
  kind # "intf_text" =>
    IF closed THEN IsPrefix(given, Complete(rcvd)) ELSE given = Complete(rcvd)

\* The fourth keeps what earlier messages left behind recv_len_, and may see
\* separators there; yet no byte is given twice, and none that did not come
\* from the peer (isgw_intf.cpp:135-147).
NothingStale ==
  LET all == FlattenSeq(given) IN
  \A i \in DOMAIN all :
    /\ all[i] > 0
    /\ i > 1 => all[i - 1] < all[i]

\* "A string that MSG_SEPARATOR ends is one whole message" (pp_prot.h:34).
MessagesWhole == \A i \in DOMAIN given : \E j \in DOMAIN sent : given[i] = Wanted(j)
=============================================================================
