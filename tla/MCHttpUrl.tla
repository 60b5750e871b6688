----------------------------- MODULE MCHttpUrl -----------------------------
(* Two words, three pieces: a path where two ".." follow one word, or one  *)
(* removes the second of two, and a port that is not the scheme's.         *)
EXTENDS HttpUrl
=============================================================================
