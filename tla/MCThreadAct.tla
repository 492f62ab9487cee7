---------------------------- MODULE MCThreadAct ----------------------------
(***************************************************************************)
(* Instances of ThreadAct.  Two threads act on a third, which may abort    *)
(* one of them in what it does.                                            *)
(***************************************************************************)
EXTENDS ThreadAct

CONSTANTS t, c1, c2

MayStop ==
  {c1} \X {"state", "terminate", "suspend", "resume"} \X {t}
    \cup {c2} \X {"abort_safely", "terminate", "suspend", "abort"} \X {t}
    \cup {<<t, "abort", c2>>, <<t, "suspend", t>>, <<t, "terminate", t>>}

\* The caller of thread_get_state is the one that is aborted.
MayState ==
  {<<c1, "state", t>>, <<c2, "abort_safely", t>>, <<t, "abort", c1>>}

=============================================================================
