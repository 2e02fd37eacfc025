----------------------------- MODULE MCFraming -----------------------------
(* Packages of up to three messages (the letter is one of a single one),   *)
(* with more data than the messages of the receiver take, and of four to   *)
(* six, more than a receive has room for.                                  *)
EXTENDS Framing

MCPackages ==
  { <<>>, <<3, 1>>, <<0, 1, 1>>,
    <<1, 1, 1, 1>>, <<1, 0, 1, 1, 1, 0>>, <<1, 1, 1, 1, 0, 1>> }

=============================================================================
