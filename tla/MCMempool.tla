----------------------------- MODULE MCMempool ------------------------------
(***************************************************************************)
(* Two funding transactions deep in the chain, f and k, and five that      *)
(* circulate: p spends f, q spends k, c an output of p and the one of q,   *)
(* e both outputs of p (so that it conflicts with c and counts p twice     *)
(* among its missing parents), h the output of q (and conflicts with c).   *)
(***************************************************************************)
EXTENDS Mempool, TLC

OutsTable ==
  "f" :> {"f0"} @@ "k" :> {"k0"} @@ "p" :> {"p0", "p1"} @@ "q" :> {"q0"}
    @@ "c" :> {"c0"} @@ "e" :> {} @@ "h" :> {}

OwnerTable ==
  "f0" :> "f" @@ "k0" :> "k" @@ "p0" :> "p" @@ "p1" :> "p" @@ "q0" :> "q" @@ "c0" :> "c"

InputsTable ==
  "p" :> <<"f0">> @@ "q" :> <<"k0">> @@ "c" :> <<"p0", "q0">>
    @@ "e" :> <<"p1", "p0">> @@ "h" :> <<"q0">>

(* TLC keeps the value of a definition but not that of a constant's own.   *)
MCOuts == OutsTable
MCOwner == OwnerTable
MCInputs == InputsTable

MCTemplates == {<<"p">>, <<"q">>, <<"q", "c">>}
=============================================================================
