------------------------------- MODULE MCHget -------------------------------
(***************************************************************************)
(* Hget with a race of at most three sockets for four addresses, one       *)
(* redirect allowed, and answers of each kind: bodies framed each way, a   *)
(* header that fills its buffer and one that does not fit it.              *)
(***************************************************************************)
EXTENDS Hget

MCOptions ==
  {[insecure |-> FALSE, ca |-> TRUE, follow |-> TRUE, toFile |-> TRUE],
   [insecure |-> FALSE, ca |-> FALSE, follow |-> TRUE, toFile |-> FALSE],
   [insecure |-> TRUE, ca |-> FALSE, follow |-> FALSE, toFile |-> TRUE]}

Answer(status, location, framing, head, body) ==
  [status |-> status, location |-> location, framing |-> framing, head |-> head,
   body |-> body]

Tok(kind, n) == [kind |-> kind, n |-> n]

Flat == <<Tok("data", 1), Tok("data", 2), Tok("data", 3)>>

Chunks ==
  <<Tok("size", 2), Tok("data", 1), Tok("data", 2), Tok("eol", 0),
    Tok("size", 1), Tok("data", 3), Tok("eol", 0), Tok("size", 0)>>

MCResponses ==
  {Answer("ok", "none", "length", 2, Flat),
   Answer("ok", "none", "eof", 3, Flat),
   Answer("ok", "none", "chunked", 1, Chunks),
   Answer("ok", "none", "length", 2, <<>>),
   Answer("ok", "none", "eof", 4, Flat),
   Answer("garbage", "none", "eof", 1, <<>>),
   Answer("error", "none", "length", 2, Flat),
   Answer("redirect", "http", "length", 2, <<>>),
   Answer("redirect", "https", "length", 2, <<>>),
   Answer("redirect", "relative", "length", 2, <<>>),
   Answer("redirect", "none", "chunked", 2, Chunks)}

\* What the theorems about the body ask of the answers: these are framed, and so is
\* the chunked body cut anywhere.
ASSUME MCAnswersFramed ==
  /\ AnswersFramed
  /\ \A k \in 0 .. Len(Chunks) : Framed(Answer("ok", "none", "chunked", 1, SubSeq(Chunks, 1, k)))
=============================================================================
