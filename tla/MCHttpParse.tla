----------------------------- MODULE MCHttpParse ------------------------------
(* Streams for TLC: up to MaxPieces pieces, most of them whole lines, in   *)
(* any order; TLC then tries every way of cutting each stream into reads.  *)
EXTENDS HttpParse

CONSTANT MaxPieces

Pieces == { <<"get", "CR", "LF">>, <<"keep", "CR", "LF">>, <<"length", "CR", "LF">>,
            <<"CR", "LF">>, <<"text">>, <<"CR">>, <<"LF">> }

Flat(pieces) ==
  LET upto[i \in 0 .. Len(pieces)] ==
        IF i = 0 THEN << >> ELSE upto[i - 1] \o pieces[i]
  IN  upto[Len(pieces)]

MCStreams == {Flat(pieces) : pieces \in UNION {[1 .. n -> Pieces] : n \in 1 .. MaxPieces}}

(* Two requests on one kept connection.                                    *)
TwoRequests ==
  { Flat(<< <<"get", "CR", "LF">>, <<"keep", "CR", "LF">>, <<"CR", "LF">> >> \o rest) :
      rest \in [1 .. 3 -> Pieces] }

Both == MCStreams \cup TwoRequests
===============================================================================
