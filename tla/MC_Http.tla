------------------------------- MODULE MC_Http -------------------------------
(***************************************************************************)
(* Model checking of HttpClient with the lengths of the code where they    *)
(* matter: requests below, at and above one and two chunks, in the text    *)
(* and in the payload; the buffer of the header is cut to five bytes, with *)
(* headers that fill it exactly, are shorter and are too long for it, with *)
(* and without a Content-Length.                                           *)
(***************************************************************************)
EXTENDS HttpClient

MCLengths == {<<90, 0>>, <<131, 0>>, <<132, 131>>, <<262, 300>>}

MCAnswers ==
  {[header |-> h, lengthEnd |-> e, size |-> s] :
     h \in {3, 5, 6}, e \in {0, 2}, s \in {0, 80, 170}}
=============================================================================
