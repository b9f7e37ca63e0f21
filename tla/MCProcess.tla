----------------------------- MODULE MCProcess -----------------------------
(* Two objects: one exchanges more data than its pipes hold, the other     *)
(* opens and closes children beside it.                                    *)
EXTENDS Process, TLC
CONSTANTS a, b
DataBounds == (a :> 4) @@ (b :> 1)
=============================================================================
