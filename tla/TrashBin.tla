------------------------------ MODULE TrashBin ------------------------------
(* What a trash root promises its user: where each document is, and how it   *)
(* may move.  A document is under a user path, in the trash, or in a copy    *)
(* that is being made; it leaves its last safe place only when the user      *)
(* gives it up, or writes it into a window that the root cannot see.         *)
CONSTANT Docs

VARIABLES
  at,               \* [Docs -> SUBSET Places]
  born,             \* the documents there have been
  gone,             \* those the user gave up: overwritten, or agreed to purge
  raced             \* those written where something was just being removed

Places == {"home", "stage", "bin"}
vars == <<at, born, gone, raced>>
Safe == {"home", "bin"}

TypeOK == /\ at \in [Docs -> SUBSET Places]
          /\ born \subseteq Docs /\ gone \subseteq Docs /\ raced \subseteq Docs

\* another copy of d may remain where this one leaves
Shift(d, from, to) ==
  \E rest \in {at[d], at[d] \ {from}} : at' = [at EXCEPT ![d] = rest \cup to]
Copied(d, from, to) == from \in at[d] /\ at' = [at EXCEPT ![d] = @ \cup {to}]
\* a copy of d goes, and d is safe elsewhere, or given up
Drop(d, from) == /\ from \in at[d] /\ at' = [at EXCEPT ![d] = @ \ {from}]
                 /\ at'[d] \cap Safe # {} \/ d \in gone' \cup raced
Known == UNCHANGED <<born, gone, raced>>

\* the user writes a new document, over another one or not
Write(d, over) ==
  /\ d \notin born /\ born' = born \cup {d} /\ gone' \in {gone, gone \cup over}
  /\ raced' \in {raced, raced \cup {d}}
  /\ \E left \in SUBSET over :
       /\ at' = [e \in Docs |-> IF e = d THEN at[e] \cup {"home"} ELSE IF e \in left THEN at[e] \ {"home"} ELSE at[e]]
       /\ \A e \in left : "bin" \in at[e] \/ e \in gone' \cup raced

Trash(d) == "home" \in at[d] /\ Shift(d, "home", {"bin"}) /\ Known
Stage(d) == Copied(d, "home", "stage") /\ Known
Publish(d) == "stage" \in at[d] /\ Shift(d, "stage", {"bin"}) /\ Known
Abandon(d) == "stage" \in at[d] /\ at' = [at EXCEPT ![d] = @ \ {"stage"}] /\ Known
Restore(d) ==
  /\ "bin" \in at[d] /\ Shift(d, "bin", {"home"})
  /\ raced' \in {raced, raced \cup {d}} /\ UNCHANGED <<born, gone>>
\* the original of a copy, or what a restore has put back
Retire(d) == Drop(d, "home") /\ Known
\* the copy of an original, or the trashed data of a restored copy
Withdraw(d) == Drop(d, "bin") /\ Known
Purge(d) ==
  /\ "bin" \in at[d] /\ gone' = gone \cup {d} /\ UNCHANGED <<born, raced>>
  /\ \E rest \in {at[d], at[d] \ {"bin"}} : at' = [at EXCEPT ![d] = rest]

\* Documents in the world, or in the trash from earlier.
Init ==
  /\ at \in [Docs -> SUBSET Places] /\ born = {d \in Docs : at[d] # {}} /\ gone = {} /\ raced = {}
  /\ \A d \in Docs : "stage" \notin at[d]
Next ==
  \/ \E d \in Docs, over \in SUBSET Docs : Write(d, over)
  \/ \E d \in Docs : \/ Trash(d) \/ Stage(d) \/ Publish(d) \/ Abandon(d) \/ Restore(d)
                     \/ Retire(d) \/ Withdraw(d) \/ Purge(d)
Spec == Init /\ [][Next]_vars

\* No document is lost: each that has existed and was neither given up nor written into
\* a window is whole under a user path or in the trash.
Kept == \A d \in born \ (gone \cup raced) : at[d] \cap Safe # {}

\* What is lost everywhere does not come back, and no document appears from nowhere.
NeverBack == [][\A d \in born : at[d] = {} => at'[d] = {}]_vars
=============================================================================
