----------------------------- MODULE MCWsDecode -----------------------------
(* Frames for WsDecode; with Short = 3, four bytes or more need an extended length. *)
EXTENDS WsDecode

Good(op, fin, data) == [op |-> op, fin |-> fin, rsv |-> FALSE, masked |-> TRUE, data |-> data]

\* Data frames: empty ones, half a character, its other half, and a long text.
DataFrames ==
  { Good(TEXTMODE, fin, data) : fin \in BOOLEAN, data \in {<<>>, <<Lead>>} }
  \cup { Good(CONTINUATION, fin, data) : fin \in BOOLEAN, data \in {<<Lead>>, <<Trail>>} }
  \cup { Good(BINMODE, FALSE, <<Lead>>), Good(TEXTMODE, TRUE, <<Char, Lead, Trail, Char, Char>>) }

\* PING and PONG: with a payload that is not UTF-8, without one, too long, and
\* not final.
PingFrames ==
  { Good(op, TRUE, <<Lead>>) : op \in {PING, PONG} }
  \cup { Good(PING, TRUE, <<Char, Char, Char, Char>>), Good(PING, FALSE, <<>>),
         Good(PONG, TRUE, <<>>), Good(PONG, FALSE, <<>>) }

\* CLOSE: no code, half a code, a good and a bad code, a bad reason, not final.
CloseFrames ==
  { Good(CLOSE, TRUE, data) : data \in {<<>>, <<1>>, <<1000, 0>>, <<1005, 0>>, <<1000, 0, Lead>>} }
  \cup { Good(CLOSE, FALSE, <<1000, 0>>) }

\* A reserved opcode, an RSV bit, no mask.
OddFrames ==
  { Good(3, TRUE, <<>>), [Good(TEXTMODE, TRUE, <<>>) EXCEPT !.rsv = TRUE],
    [Good(TEXTMODE, TRUE, <<Char>>) EXCEPT !.masked = FALSE] }

MCFrames == DataFrames \cup PingFrames \cup CloseFrames \cup OddFrames
=============================================================================
