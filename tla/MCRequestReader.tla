-------------------------- MODULE MCRequestReader --------------------------
(* The request reader on short texts, with Content-Length headers that give  *)
(* a body, an empty one and a negative number.  A length of -1 is left out:  *)
(* the code does not tell it from a request without the header.              *)
EXTENDS RequestReader

MCLengths == {-2, 0, 2}
=============================================================================
