---------------------------- MODULE MCThreadPool ----------------------------
(***************************************************************************)
(* Two workers and two clients: one pushes two tasks at the back, the      *)
(* other an urgent one and one at the back.                                *)
(***************************************************************************)
EXTENDS ThreadPool, TLC

CONSTANTS w1, w2, c1, c2, t1, t2, t3, t4

MCProgram == c1 :> <<t1, t2>> @@ c2 :> <<t3, t4>>
============================================================================
