---------------------------- MODULE MCClientJob ----------------------------
(* Model-checking instance of ClientJob. *)
EXTENDS ClientJob

\* No output, one file, two of one size, and an empty one before or after another.
OutputFiles == {<<>>, <<1>>, <<1, 1>>, <<0, 1>>, <<1, 0>>}
=============================================================================
