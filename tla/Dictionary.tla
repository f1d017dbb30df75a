----------------------------- MODULE Dictionary -----------------------------
(***************************************************************************)
(* What a store of several shards, copies or instances promises: it is a   *)
(* dictionary.  A name answers with what was last put under it, until it   *)
(* is deleted or all the copies made by the last put have failed.  The     *)
(* last operation and its answer are variables, so that an implementation  *)
(* must agree on them; an operation that returns nothing answers Nothing.  *)
(***************************************************************************)
CONSTANTS Names, Values,
          Refused,    \* the names for which there is no place at all
          Copies,     \* the copies a put makes
          Fragile,    \* the groups of names that fail together
          Empty,      \* the answer when there is nothing under the name
          Nothing

VARIABLES contents,   \* what each name holds
          copies,     \* the copies of it that are left
          last        \* the last operation and its answer

vars == <<contents, copies, last>>

Init ==
    /\ contents = [n \in Names |-> Empty]
    /\ copies = [n \in Names |-> {}]
    /\ last = [op |-> "none"]

(* An operation answers with what its name holds after it, or not at all.  *)
Answers(op, n) ==
    last'.op = op /\ last'.answer \in {contents'[n], Nothing}

Put(n, v) ==
    /\ Answers("put", n)
    /\ n \notin Refused
    /\ contents' = [contents EXCEPT ![n] = v]
    /\ copies' = [copies EXCEPT ![n] = Copies]

(* To update a name that holds nothing changes nothing.                    *)
Update(n, v) ==
    /\ Answers("update", n)
    /\ contents' = IF copies[n] = {} THEN contents
                   ELSE [contents EXCEPT ![n] = v]
    /\ UNCHANGED copies

Delete(n) ==
    /\ Answers("delete", n)
    /\ contents' = [contents EXCEPT ![n] = Empty]
    /\ copies' = [copies EXCEPT ![n] = {}]

Get(n) ==
    /\ Answers("get", n) /\ last'.answer # Nothing
    /\ UNCHANGED <<contents, copies>>

Refuse(n) ==
    /\ Answers("put", n)
    /\ n \in Refused
    /\ UNCHANGED <<contents, copies>>

(* One copy of all the names of a group fails.                             *)
Fail(struck, c) ==
    /\ last' = [op |-> "fail", copy |-> c]
    /\ copies' = [n \in Names |->
                    IF n \in struck THEN copies[n] \ {c} ELSE copies[n]]
    /\ contents' = [n \in Names |->
                      IF copies'[n] = {} THEN Empty ELSE contents[n]]

Next ==
    \/ /\ last'.op \in {"put", "update", "delete", "get"}
       /\ \E n \in Names :
             /\ last'.name = n
             /\ \/ Delete(n) \/ Get(n) \/ Refuse(n)
                \/ \E v \in Values : Put(n, v) \/ Update(n, v)
    \/ \E struck \in Fragile, c \in Copies : Fail(struck, c)

Spec == Init /\ [][Next]_vars
=============================================================================
