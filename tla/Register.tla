------------------------------ MODULE Register ------------------------------
(***************************************************************************)
(* What a replica proxy promises its one client: it is a memory.  A read   *)
(* answers with what was last written to the key, or with the empty value. *)
(***************************************************************************)
CONSTANTS Keys, Values,
          Empty       \* what a key holds before it is written

VARIABLES contents,   \* what each key holds
          answer      \* what the last read returned, and for which key

vars == <<contents, answer>>

Init ==
    /\ contents = [k \in Keys |-> Empty]
    /\ answer = <<>>

Write(k, v) ==
    /\ contents' = [contents EXCEPT ![k] = v]
    /\ UNCHANGED answer

Read(k) ==
    /\ answer' = <<k, contents[k]>>
    /\ UNCHANGED contents

Next == \E k \in Keys : Read(k) \/ \E v \in Values : Write(k, v)

Spec == Init /\ [][Next]_vars
=============================================================================
