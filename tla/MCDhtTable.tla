----------------------------- MODULE MCDhtTable -----------------------------
(***************************************************************************)
(* Model values for DhtTable: each peer has an address of its own, one of  *)
(* them claims our id, two of them may turn out to be broken.              *)
(***************************************************************************)
EXTENDS DhtTable

MCContact == {[id |-> i, addr |-> i] : i \in 0..3}

MCBroken == {c \in MCContact : c.id \in 2..3}
=============================================================================
