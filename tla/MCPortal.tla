------------------------------ MODULE MCPortal ------------------------------
(***************************************************************************)
(* Small instances of Portal for TLC.                                      *)
(***************************************************************************)
EXTENDS Portal

(* Bound: one field at most is not filled in well.                         *)
MCForms ==
    {f \in [Fields -> {"empty", "set", "bad"}] :
        \A a, b \in Fields : f[a] # "set" /\ f[b] # "set" => a = b}
=============================================================================
