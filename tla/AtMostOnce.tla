----------------------------- MODULE AtMostOnce -----------------------------
(* What request protection promises a client that repeats a command under one
   key: while the outcome of the command is remembered, the command is not run
   again, and it never runs twice at the same time. *)
EXTENDS Naturals

CONSTANT Key

VARIABLES
  phase   \* phase[k]: "idle", "running" or "done" (its success is remembered)

TypeOK == phase \in [Key -> {"idle", "running", "done"}]

Init == phase = [k \in Key |-> "idle"]

\* The command starts.
Begin(k) ==
  /\ phase[k] = "idle"
  /\ phase' = [phase EXCEPT ![k] = "running"]

\* It ends; only a success is remembered.
End(k) ==
  /\ phase[k] = "running"
  /\ \E p \in {"idle", "done"} : phase' = [phase EXCEPT ![k] = p]

\* The memory of a success ends with its retention time; several may end at once.
Forget ==
  \E K \in SUBSET {k \in Key : phase[k] = "done"} :
    phase' = [k \in Key |-> IF k \in K THEN "idle" ELSE phase[k]]

Next == Forget \/ \E k \in Key : Begin(k) \/ End(k)

Spec == Init /\ [][Next]_phase
=============================================================================
