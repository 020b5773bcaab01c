---------------------------- MODULE DocumentSeries ----------------------------
(***************************************************************************)
(* What a numbered series of documents promises an auditor: the numbers of *)
(* the documents issued so far, in the order they were issued.  A document *)
(* is never removed nor renumbered, and no two bear one number.  Numbers   *)
(* may be skipped ("a gap in invoice numbers is a question an accountant   *)
(* can answer; a duplicate is one they cannot").                           *)
(***************************************************************************)
EXTENDS Naturals, Sequences

VARIABLE register       \* the numbers, oldest document first

Init ==
    /\ register \in Seq(Nat)
    /\ \A j, k \in DOMAIN register : register[j] = register[k] => j = k

\* The next document takes any number no document bears.
Issue(n) ==
    /\ n \notin {register[k] : k \in DOMAIN register}
    /\ register' = Append(register, n)

Next ==
    /\ Len(register') = Len(register) + 1
    /\ Issue(register'[Len(register')])

Spec == Init /\ [][Next]_register
=============================================================================
